--------------------------- MODULE EmulatorProofs ---------------------------
(***************************************************************************)
(* What MCEmulator's run checks of the page and the emulator's thread, of  *)
(* the CPU's loop and of the interval timer, proved for all values of the  *)
(* constants.  Each machine has an inductive invariant; the theorems at    *)
(* the end are about the run's specification, in which one of them moves.  *)
(* tlapm's SMT translation is weak with Boolean variables: the steps about *)
(* them, and the membership of records, are left to Zenon.                 *)
(***************************************************************************)
EXTENDS MCEmulator, Sequences, TLAPS

-----------------------------------------------------------------------------
(* The page and the emulator's thread (HostControl).                       *)

\* A kind of work is queued once at most; a stop only when it was asked for, a
\* panic only while the emulator waits with it and no dialog is shown.
QueueSound ==
  /\ \A m, n \in 1 .. Len(queue) : queue[m] = queue[n] => m = n
  /\ \A m \in 1 .. Len(queue) :
       /\ queue[m] = "stop" => s_shutdownRequested \/ emulator = "down"
       /\ queue[m] = "panic" => emulator = "asking" /\ ~m_panicResolved /\ ~dialog
  /\ dialog => emulator = "asking" /\ ~m_panicResolved

\* What an emulator that was asked to stop still has ahead of it: a reset first,
\* then the shutdown.
PollsNeeded == IF s_resetRequested THEN 2 ELSE 1

\* A page without a machine has asked the emulator to stop, and the delay leaves
\* it the polls it needs.
StopSound ==
  /\ emulator = "down" => ~unsaved
  /\ ~attached => s_shutdownRequested \/ emulator = "down"
  /\ delay # Control!Never => ~attached /\ (emulator = "down" \/ delay >= PollsNeeded)
  /\ picker = "panic" => ~attached
  /\ exited /\ unsaved => emulator \in {"paused", "asking"}

\* The last key that is queued, or the one the guest knows, is what is shown.
KeysSound ==
  attached =>
    /\ _modifierToggleState => Len(s_keyQueue) <= MaxKeys
    /\ s_keyQueue = <<>> => _modifierToggleState = pressed
    /\ s_keyQueue # <<>> => _modifierToggleState = s_keyQueue[Len(s_keyQueue)]

\* The parts of the type invariant.
BoolsTyped ==
  /\ attached \in BOOLEAN /\ _paused \in BOOLEAN /\ dialog \in BOOLEAN /\ exited \in BOOLEAN
  /\ s_resetRequested \in BOOLEAN /\ s_shutdownRequested \in BOOLEAN /\ s_paused \in BOOLEAN
  /\ m_panicResolved \in BOOLEAN /\ unsaved \in BOOLEAN /\ muted \in BOOLEAN
  /\ _modifierToggleState \in BOOLEAN /\ pressed \in BOOLEAN

RangesTyped ==
  /\ picker \in {"none", "savelog", "panic"}
  /\ delay \in 0 .. Control!Never
  /\ m_panicChoice \in Control!Choice
  /\ emulator \in {"running", "paused", "asking", "down"}

KeysTyped == s_keyQueue \in Seq(BOOLEAN) /\ Len(s_keyQueue) <= MaxKeys + 1

QueueTyped == queue \in Seq({"stop", "panic"}) /\ Len(queue) <= 2

\* Once StopMachine has run, the machine is off the page, and it was asked to stop or is down.
LEMMA StopMachineRequests ==
  ASSUME BoolsTyped, StopSound, Control!StopMachine
  PROVE  ~attached' /\ s_shutdownRequested' \in BOOLEAN /\ (s_shutdownRequested' \/ emulator = "down")
  BY Zenon DEF BoolsTyped, StopSound, Control!StopMachine

\* What is appended to a queue of keys is its last key.
LEMMA AppendedKey ==
  ASSUME NEW q \in Seq(BOOLEAN), NEW b \in BOOLEAN
  PROVE  /\ Append(q, b) \in Seq(BOOLEAN) /\ Append(q, b) # <<>>
         /\ Len(Append(q, b)) = Len(q) + 1 /\ Append(q, b)[Len(Append(q, b))] = b
  BY SMT

\* ReleaseAllModifiers releases the modifier that is shown, in the queue as on the page.
LEMMA ReleaseKeepsKeys ==
  ASSUME KeysTyped, KeysSound, BoolsTyped, MaxKeys \in Nat, attached, Control!ReleaseAllModifiers
  PROVE  KeysTyped' /\ KeysSound'
<1>1. _modifierToggleState' = FALSE /\ pressed' = pressed
  BY Zenon DEF Control!ReleaseAllModifiers, Control!Highlighted
<1>2. CASE _modifierToggleState
  <2>1. s_keyQueue' = Append(s_keyQueue, FALSE)
    BY <1>2, Zenon DEF Control!ReleaseAllModifiers
  <2>2. s_keyQueue \in Seq(BOOLEAN) /\ Len(s_keyQueue) <= MaxKeys
    BY <1>2, Zenon DEF KeysTyped, KeysSound
  <2>3. /\ s_keyQueue' \in Seq(BOOLEAN) /\ s_keyQueue' # <<>>
        /\ Len(s_keyQueue') = Len(s_keyQueue) + 1 /\ s_keyQueue'[Len(s_keyQueue')] = FALSE
    BY <2>1, <2>2, AppendedKey, Zenon
  <2>4. Len(s_keyQueue') <= MaxKeys + 1
    BY <2>2, <2>3, SMT
  <2> QED  BY <1>1, <2>3, <2>4, Zenon DEF KeysTyped, KeysSound
<1>3. CASE ~_modifierToggleState
  <2>1. s_keyQueue' = s_keyQueue
    BY <1>3, Zenon DEF Control!ReleaseAllModifiers
  <2>2. _modifierToggleState = FALSE
    BY <1>3, Zenon DEF BoolsTyped
  <2>3. KeysTyped'
    BY <2>1, SMT DEF KeysTyped
  <2>4. s_keyQueue = <<>> => pressed = FALSE
    BY <2>2, Zenon DEF KeysSound
  <2>5. s_keyQueue # <<>> => s_keyQueue[Len(s_keyQueue)] = FALSE
    BY <2>2, Zenon DEF KeysSound
  <2> QED  BY <1>1, <2>1, <2>3, <2>4, <2>5, Zenon DEF KeysSound
<1> QED  BY <1>2, <1>3

\* StopMachine detaches the page from a machine whose keys are still in order.
LEMMA StopMachineKeepsKeys ==
  ASSUME KeysTyped, KeysSound, BoolsTyped, MaxKeys \in Nat, Control!StopMachine
  PROVE  KeysTyped' /\ ~attached'
<1>1. CASE attached
  BY <1>1, ReleaseKeepsKeys, Zenon DEF Control!StopMachine
<1>2. CASE ~attached
  <2>1. s_keyQueue' = s_keyQueue
    BY <1>2, Zenon DEF Control!StopMachine, Control!keys
  <2> QED  BY <1>2, <2>1, Zenon DEF Control!StopMachine, KeysTyped
<1> QED  BY <1>1, <1>2

\* The keys that a poll delivers leave the guest with the last of them.
LEMMA DeliverType ==
  ASSUME KeysTyped, BoolsTyped, Control!DeliverKeys
  PROVE  pressed' \in BOOLEAN /\ s_keyQueue' = <<>>
<1>1. s_keyQueue # <<>> => s_keyQueue[Len(s_keyQueue)] \in BOOLEAN
  BY SMT DEF KeysTyped
<1> QED  BY <1>1, Zenon DEF Control!DeliverKeys, BoolsTyped

\* No step of the page or of the emulator's thread queues a kind of work twice, or leaves a
\* stop or a panic in the queue that nobody asked for: what the queued lambdas may rely on.
LEMMA QueueStep ==
  ASSUME BoolsTyped, RangesTyped, queue \in Seq({"stop", "panic"}), QueueSound, [Control!Next]_(Control!vars)
  PROVE  QueueSound'
<1> USE ConstantsAssumption
    DEF Control!ConstantsOK, BoolsTyped, RangesTyped, QueueSound, Control!Never, Control!None, Control!Choice,
        Control!page, Control!requests, Control!panic, Control!thread, Control!keys
<1>1. CASE Control!handle_events
  BY <1>1, SMT DEF Control!handle_events, Control!PollReset, Control!PollShutdown,
    Control!PollPause, Control!DeliverKeys, Control!Elapsed, Control!ShutdownAfterReset,
    Control!KeysAfterReset
<1>2. CASE Control!PanicAnswered
  BY <1>2, SMT DEF Control!PanicAnswered, Control!UnsavedAfter
<1>3. CASE Control!Resume
  BY <1>3, SMT DEF Control!Resume, Control!DeliverKeys
<1>4. CASE Control!GuestWrites
  BY <1>4, SMT DEF Control!GuestWrites
<1>5. CASE Control!GuestPowersOff
  BY <1>5, SMT DEF Control!GuestPowersOff, Control!Notified
<1>6. CASE Control!GuestPanics
  BY <1>6, SMT DEF Control!GuestPanics, Control!Notified, Control!UnresolvedAtFirst
<1>7. CASE Control!pauseButton_Click
  BY <1>7, SMT DEF Control!pauseButton_Click, Control!UserMay
<1>8. CASE Control!KeyButton_PointerPressed
  BY <1>8, SMT DEF Control!KeyButton_PointerPressed, Control!UserMay
<1>9. CASE Control!resetButton_Click
  BY <1>9, SMT DEF Control!resetButton_Click, Control!UserMay, Control!ReleaseAllModifiers,
    Control!Highlighted
<1>10. CASE Control!shutdownButton_Click
  BY <1>10, SMT DEF Control!shutdownButton_Click, Control!UserMay, Control!StopMachine,
    Control!ExitSoon, Control!ReleaseAllModifiers, Control!Highlighted
<1>11. CASE Control!saveLogButton_Click
  BY <1>11, SMT DEF Control!saveLogButton_Click, Control!UserMay
<1>12. CASE Control!ContinueFileSavePicker
  BY <1>12, SMT DEF Control!ContinueFileSavePicker, Control!ExitSoon
<1>13. CASE Control!RunStop
  BY <1>13, SMT DEF Control!RunStop, Control!StopMachine, Control!ExitSoon,
    Control!ReleaseAllModifiers, Control!Highlighted
<1>14. CASE Control!RunPanic
  BY <1>14, SMT DEF Control!RunPanic, Control!ResolvePanic
<1>15. CASE \E choice \in {0, 1} : Control!AnswerContinue(choice)
  BY <1>15, SMT DEF Control!AnswerContinue, Control!DialogCloses, Control!ResolvePanic
<1>16. CASE Control!AnswerDie
  BY <1>16, SMT DEF Control!AnswerDie, Control!DialogCloses, Control!ResolvePanic,
    Control!StopMachine, Control!ExitSoon, Control!ReleaseAllModifiers, Control!Highlighted
<1>17. CASE Control!AnswerSaveAndExit
  BY <1>17, SMT DEF Control!AnswerSaveAndExit, Control!DialogCloses, Control!ResolvePanic,
    Control!StopMachine, Control!ReleaseAllModifiers, Control!Highlighted
<1>18. CASE Control!Exit
  BY <1>18, SMT DEF Control!Exit, Control!Blocked
<1>19. CASE UNCHANGED Control!vars
  BY <1>19, SMT DEF Control!vars
<1> QED
  BY <1>1, <1>2, <1>3, <1>4, <1>5, <1>6, <1>7, <1>8, <1>9, <1>10, <1>11, <1>12, <1>13, <1>14,
    <1>15, <1>16, <1>17, <1>18, <1>19, Zenon DEF Control!Next, Control!Emulator,
    Control!Dispatcher

\* No step leaves a page without its machine before the emulator was asked to stop, nor ends
\* the delay before the emulator had the polls of handle_events it needs for it.
LEMMA StopStep ==
  ASSUME BoolsTyped, RangesTyped, StopSound, [Control!Next]_(Control!vars)
  PROVE  StopSound'
<1> USE ConstantsAssumption
    DEF Control!ConstantsOK, BoolsTyped, RangesTyped, StopSound, PollsNeeded, Control!Never, Control!None, Control!Choice,
        Control!page, Control!requests, Control!panic, Control!thread, Control!keys
<1>1. CASE Control!handle_events
  BY <1>1, SMT DEF Control!handle_events, Control!PollReset, Control!PollShutdown,
    Control!PollPause, Control!DeliverKeys, Control!Elapsed, Control!ShutdownAfterReset,
    Control!KeysAfterReset
<1>2. CASE Control!PanicAnswered
  BY <1>2, SMT DEF Control!PanicAnswered, Control!UnsavedAfter
<1>3. CASE Control!Resume
  BY <1>3, SMT DEF Control!Resume, Control!DeliverKeys
<1>4. CASE Control!GuestWrites
  BY <1>4, SMT DEF Control!GuestWrites
<1>5. CASE Control!GuestPowersOff
  BY <1>5, SMT DEF Control!GuestPowersOff, Control!Notified
<1>6. CASE Control!GuestPanics
  BY <1>6, SMT DEF Control!GuestPanics, Control!Notified, Control!UnresolvedAtFirst
<1>7. CASE Control!pauseButton_Click
  BY <1>7, SMT DEF Control!pauseButton_Click, Control!UserMay
<1>8. CASE Control!KeyButton_PointerPressed
  BY <1>8, SMT DEF Control!KeyButton_PointerPressed, Control!UserMay
<1>9. CASE Control!resetButton_Click
  BY <1>9, SMT DEF Control!resetButton_Click, Control!UserMay, Control!ReleaseAllModifiers,
    Control!Highlighted
<1>10. CASE Control!shutdownButton_Click
  BY <1>10, SMT DEF Control!shutdownButton_Click, Control!UserMay, Control!StopMachine,
    Control!ExitSoon, Control!ReleaseAllModifiers, Control!Highlighted
<1>11. CASE Control!saveLogButton_Click
  BY <1>11, SMT DEF Control!saveLogButton_Click, Control!UserMay
<1>12. CASE Control!ContinueFileSavePicker
  BY <1>12, SMT DEF Control!ContinueFileSavePicker, Control!ExitSoon
<1>13. CASE Control!RunStop
  BY <1>13, SMT DEF Control!RunStop, Control!StopMachine, Control!ExitSoon,
    Control!ReleaseAllModifiers, Control!Highlighted
<1>14. CASE Control!RunPanic
  BY <1>14, SMT DEF Control!RunPanic, Control!ResolvePanic
<1>15. CASE \E choice \in {0, 1} : Control!AnswerContinue(choice)
  BY <1>15, SMT DEF Control!AnswerContinue, Control!DialogCloses, Control!ResolvePanic
<1>16. CASE Control!AnswerDie
  <2>1. ~attached' /\ s_shutdownRequested' \in BOOLEAN /\ (s_shutdownRequested' \/ emulator = "down")
    BY <1>16, StopMachineRequests, Zenon DEF Control!AnswerDie
  <2>2. UNCHANGED <<emulator, unsaved, exited, s_resetRequested>>
    BY <1>16, Zenon DEF Control!AnswerDie, Control!DialogCloses
  <2>3. ~exited
    BY <1>16, Zenon DEF Control!AnswerDie, Control!DialogCloses
  <2>4. delay' = delay \/ delay' = GracePolls
    BY <1>16, Zenon DEF Control!AnswerDie, Control!ExitSoon
  <2> QED  BY <2>1, <2>2, <2>3, <2>4, SMT
<1>17. CASE Control!AnswerSaveAndExit
  <2>1. ~attached' /\ s_shutdownRequested' \in BOOLEAN /\ (s_shutdownRequested' \/ emulator = "down")
    BY <1>17, StopMachineRequests, Zenon DEF Control!AnswerSaveAndExit
  <2>2. UNCHANGED <<emulator, unsaved, exited, s_resetRequested>>
    BY <1>17, Zenon DEF Control!AnswerSaveAndExit, Control!DialogCloses
  <2>3. ~exited
    BY <1>17, Zenon DEF Control!AnswerSaveAndExit, Control!DialogCloses
  <2>4. delay' = delay \/ delay' = GracePolls
    BY <1>17, Zenon DEF Control!AnswerSaveAndExit, Control!ExitSoon
  <2> QED  BY <2>1, <2>2, <2>3, <2>4, SMT
<1>18. CASE Control!Exit
  BY <1>18, SMT DEF Control!Exit, Control!Blocked
<1>19. CASE UNCHANGED Control!vars
  BY <1>19, SMT DEF Control!vars
<1> QED
  BY <1>1, <1>2, <1>3, <1>4, <1>5, <1>6, <1>7, <1>8, <1>9, <1>10, <1>11, <1>12, <1>13, <1>14,
    <1>15, <1>16, <1>17, <1>18, <1>19, Zenon DEF Control!Next, Control!Emulator,
    Control!Dispatcher

\* Every step keeps the modifier that the page shows and the keys on their way to the guest
\* in agreement: presses, ReleaseAllModifiers and the polls that deliver or drop keys.
LEMMA KeysStep ==
  ASSUME BoolsTyped, RangesTyped, KeysTyped, KeysSound, [Control!Next]_(Control!vars)
  PROVE  KeysSound'
<1> USE ConstantsAssumption
    DEF Control!ConstantsOK, BoolsTyped, RangesTyped, KeysSound, KeysTyped, Control!Never, Control!None, Control!Choice,
        Control!page, Control!requests, Control!panic, Control!thread, Control!keys
<1>1. CASE Control!handle_events
  BY <1>1, SMT DEF Control!handle_events, Control!PollReset, Control!PollShutdown,
    Control!PollPause, Control!DeliverKeys, Control!Elapsed, Control!ShutdownAfterReset,
    Control!KeysAfterReset
<1>2. CASE Control!PanicAnswered
  BY <1>2, SMT DEF Control!PanicAnswered, Control!UnsavedAfter
<1>3. CASE Control!Resume
  BY <1>3, SMT DEF Control!Resume, Control!DeliverKeys
<1>4. CASE Control!GuestWrites
  BY <1>4, SMT DEF Control!GuestWrites
<1>5. CASE Control!GuestPowersOff
  BY <1>5, SMT DEF Control!GuestPowersOff, Control!Notified
<1>6. CASE Control!GuestPanics
  BY <1>6, SMT DEF Control!GuestPanics, Control!Notified, Control!UnresolvedAtFirst
<1>7. CASE Control!pauseButton_Click
  BY <1>7, SMT DEF Control!pauseButton_Click, Control!UserMay
<1>8. CASE Control!KeyButton_PointerPressed
  BY <1>8, SMT DEF Control!KeyButton_PointerPressed, Control!UserMay
<1>9. CASE Control!resetButton_Click
  BY <1>9, ReleaseKeepsKeys, Zenon DEF Control!resetButton_Click
<1>10. CASE Control!shutdownButton_Click
  BY <1>10, SMT DEF Control!shutdownButton_Click, Control!UserMay, Control!StopMachine,
    Control!ExitSoon, Control!ReleaseAllModifiers, Control!Highlighted
<1>11. CASE Control!saveLogButton_Click
  BY <1>11, SMT DEF Control!saveLogButton_Click, Control!UserMay
<1>12. CASE Control!ContinueFileSavePicker
  BY <1>12, SMT DEF Control!ContinueFileSavePicker, Control!ExitSoon
<1>13. CASE Control!RunStop
  BY <1>13, SMT DEF Control!RunStop, Control!StopMachine, Control!ExitSoon,
    Control!ReleaseAllModifiers, Control!Highlighted
<1>14. CASE Control!RunPanic
  BY <1>14, SMT DEF Control!RunPanic, Control!ResolvePanic
<1>15. CASE \E choice \in {0, 1} : Control!AnswerContinue(choice)
  BY <1>15, SMT DEF Control!AnswerContinue, Control!DialogCloses, Control!ResolvePanic
<1>16. CASE Control!AnswerDie
  BY <1>16, SMT DEF Control!AnswerDie, Control!DialogCloses, Control!ResolvePanic,
    Control!StopMachine, Control!ExitSoon, Control!ReleaseAllModifiers, Control!Highlighted
<1>17. CASE Control!AnswerSaveAndExit
  BY <1>17, SMT DEF Control!AnswerSaveAndExit, Control!DialogCloses, Control!ResolvePanic,
    Control!StopMachine, Control!ReleaseAllModifiers, Control!Highlighted
<1>18. CASE Control!Exit
  BY <1>18, SMT DEF Control!Exit, Control!Blocked
<1>19. CASE UNCHANGED Control!vars
  BY <1>19, SMT DEF Control!vars
<1> QED
  BY <1>1, <1>2, <1>3, <1>4, <1>5, <1>6, <1>7, <1>8, <1>9, <1>10, <1>11, <1>12, <1>13, <1>14,
    <1>15, <1>16, <1>17, <1>18, <1>19, Zenon DEF Control!Next, Control!Emulator,
    Control!Dispatcher

\* The key queue stays within its bound: no button queues a key beyond MaxKeys, and the release
\* of a modifier adds one at most.
LEMMA KeysTypeStep ==
  ASSUME BoolsTyped, KeysTyped, KeysSound, [Control!Next]_(Control!vars)
  PROVE  KeysTyped'
<1> USE ConstantsAssumption
    DEF Control!ConstantsOK, KeysTyped, Control!Never, Control!None, Control!Choice,
        Control!page, Control!requests, Control!panic, Control!thread, Control!keys
<1>1. CASE Control!handle_events
  <2>1. s_keyQueue' = s_keyQueue \/ s_keyQueue' = <<>>
    BY <1>1, Zenon DEF Control!handle_events, Control!PollReset, Control!PollShutdown, Control!PollPause,
      Control!DeliverKeys, Control!KeysAfterReset
  <2>2. CASE s_keyQueue' = <<>>
    BY <2>2, SMT DEF KeysTyped
  <2>3. CASE s_keyQueue' = s_keyQueue
    BY <2>3, Zenon DEF KeysTyped
  <2> QED  BY <2>1, <2>2, <2>3, Zenon
<1>2. CASE Control!PanicAnswered
  BY <1>2, SMT DEF Control!PanicAnswered, Control!UnsavedAfter
<1>3. CASE Control!Resume
  BY <1>3, SMT DEF Control!Resume, Control!DeliverKeys
<1>4. CASE Control!GuestWrites
  BY <1>4, SMT DEF Control!GuestWrites
<1>5. CASE Control!GuestPowersOff
  BY <1>5, SMT DEF Control!GuestPowersOff, Control!Notified
<1>6. CASE Control!GuestPanics
  BY <1>6, SMT DEF Control!GuestPanics, Control!Notified, Control!UnresolvedAtFirst
<1>7. CASE Control!pauseButton_Click
  BY <1>7, SMT DEF Control!pauseButton_Click, Control!UserMay
<1>8. CASE Control!KeyButton_PointerPressed
  <2>1. s_keyQueue' = s_keyQueue \/ s_keyQueue' = Append(s_keyQueue, ~_modifierToggleState)
    BY <1>8, Zenon DEF Control!KeyButton_PointerPressed
  <2>2. (~_modifierToggleState) \in BOOLEAN /\ s_keyQueue \in Seq(BOOLEAN)
    BY Zenon DEF KeysTyped
  <2>3. s_keyQueue' \in Seq(BOOLEAN) /\ (s_keyQueue' = s_keyQueue \/ Len(s_keyQueue') = Len(s_keyQueue) + 1)
    BY <2>1, <2>2, AppendedKey, Zenon
  <2> QED  BY <1>8, <2>3, SMT DEF KeysTyped, Control!KeyButton_PointerPressed
<1>9. CASE Control!resetButton_Click
  BY <1>9, ReleaseKeepsKeys, Zenon DEF Control!resetButton_Click
<1>10. CASE Control!shutdownButton_Click
  BY <1>10, StopMachineKeepsKeys, Zenon DEF Control!shutdownButton_Click
<1>11. CASE Control!saveLogButton_Click
  BY <1>11, SMT DEF Control!saveLogButton_Click, Control!UserMay
<1>12. CASE Control!ContinueFileSavePicker
  BY <1>12, SMT DEF Control!ContinueFileSavePicker, Control!ExitSoon
<1>13. CASE Control!RunStop
  BY <1>13, StopMachineKeepsKeys, Zenon DEF Control!RunStop
<1>14. CASE Control!RunPanic
  BY <1>14, SMT DEF Control!RunPanic, Control!ResolvePanic
<1>15. CASE \E choice \in {0, 1} : Control!AnswerContinue(choice)
  BY <1>15, SMT DEF Control!AnswerContinue, Control!DialogCloses, Control!ResolvePanic
<1>16. CASE Control!AnswerDie
  BY <1>16, StopMachineKeepsKeys, Zenon DEF Control!AnswerDie
<1>17. CASE Control!AnswerSaveAndExit
  BY <1>17, StopMachineKeepsKeys, Zenon DEF Control!AnswerSaveAndExit
<1>18. CASE Control!Exit
  BY <1>18, SMT DEF Control!Exit, Control!Blocked
<1>19. CASE UNCHANGED Control!vars
  BY <1>19, SMT DEF Control!vars
<1> QED
  BY <1>1, <1>2, <1>3, <1>4, <1>5, <1>6, <1>7, <1>8, <1>9, <1>10, <1>11, <1>12, <1>13, <1>14,
    <1>15, <1>16, <1>17, <1>18, <1>19, Zenon DEF Control!Next, Control!Emulator,
    Control!Dispatcher

\* The dispatcher's queue holds one work item of each kind at most, so it is never longer than two.
LEMMA QueueTypeStep ==
  ASSUME BoolsTyped, RangesTyped, QueueTyped, QueueSound, [Control!Next]_(Control!vars)
  PROVE  QueueTyped'
<1> USE ConstantsAssumption
    DEF Control!ConstantsOK, BoolsTyped, RangesTyped, QueueSound, QueueTyped, Control!Never, Control!None, Control!Choice,
        Control!page, Control!requests, Control!panic, Control!thread, Control!keys
<1>1. CASE Control!handle_events
  BY <1>1, SMT DEF Control!handle_events, Control!PollReset, Control!PollShutdown,
    Control!PollPause, Control!DeliverKeys, Control!Elapsed, Control!ShutdownAfterReset,
    Control!KeysAfterReset
<1>2. CASE Control!PanicAnswered
  BY <1>2, SMT DEF Control!PanicAnswered, Control!UnsavedAfter
<1>3. CASE Control!Resume
  BY <1>3, SMT DEF Control!Resume, Control!DeliverKeys
<1>4. CASE Control!GuestWrites
  BY <1>4, SMT DEF Control!GuestWrites
<1>5. CASE Control!GuestPowersOff
  BY <1>5, SMT DEF Control!GuestPowersOff, Control!Notified
<1>6. CASE Control!GuestPanics
  BY <1>6, SMT DEF Control!GuestPanics, Control!Notified, Control!UnresolvedAtFirst
<1>7. CASE Control!pauseButton_Click
  BY <1>7, SMT DEF Control!pauseButton_Click, Control!UserMay
<1>8. CASE Control!KeyButton_PointerPressed
  BY <1>8, SMT DEF Control!KeyButton_PointerPressed, Control!UserMay
<1>9. CASE Control!resetButton_Click
  BY <1>9, SMT DEF Control!resetButton_Click, Control!UserMay, Control!ReleaseAllModifiers,
    Control!Highlighted
<1>10. CASE Control!shutdownButton_Click
  BY <1>10, SMT DEF Control!shutdownButton_Click, Control!UserMay, Control!StopMachine,
    Control!ExitSoon, Control!ReleaseAllModifiers, Control!Highlighted
<1>11. CASE Control!saveLogButton_Click
  BY <1>11, SMT DEF Control!saveLogButton_Click, Control!UserMay
<1>12. CASE Control!ContinueFileSavePicker
  BY <1>12, SMT DEF Control!ContinueFileSavePicker, Control!ExitSoon
<1>13. CASE Control!RunStop
  BY <1>13, SMT DEF Control!RunStop, Control!StopMachine, Control!ExitSoon,
    Control!ReleaseAllModifiers, Control!Highlighted
<1>14. CASE Control!RunPanic
  BY <1>14, SMT DEF Control!RunPanic, Control!ResolvePanic
<1>15. CASE \E choice \in {0, 1} : Control!AnswerContinue(choice)
  BY <1>15, SMT DEF Control!AnswerContinue, Control!DialogCloses, Control!ResolvePanic
<1>16. CASE Control!AnswerDie
  BY <1>16, SMT DEF Control!AnswerDie, Control!DialogCloses, Control!ResolvePanic,
    Control!StopMachine, Control!ExitSoon, Control!ReleaseAllModifiers, Control!Highlighted
<1>17. CASE Control!AnswerSaveAndExit
  BY <1>17, SMT DEF Control!AnswerSaveAndExit, Control!DialogCloses, Control!ResolvePanic,
    Control!StopMachine, Control!ReleaseAllModifiers, Control!Highlighted
<1>18. CASE Control!Exit
  BY <1>18, SMT DEF Control!Exit, Control!Blocked
<1>19. CASE UNCHANGED Control!vars
  BY <1>19, SMT DEF Control!vars
<1> QED
  BY <1>1, <1>2, <1>3, <1>4, <1>5, <1>6, <1>7, <1>8, <1>9, <1>10, <1>11, <1>12, <1>13, <1>14,
    <1>15, <1>16, <1>17, <1>18, <1>19, Zenon DEF Control!Next, Control!Emulator,
    Control!Dispatcher

\* The flags that the page and the emulator's thread share stay Booleans in every step.
LEMMA BoolsStep ==
  ASSUME KeysTyped, BoolsTyped, [Control!Next]_(Control!vars)
  PROVE  BoolsTyped'
<1> USE ConstantsAssumption
    DEF Control!ConstantsOK, BoolsTyped, Control!Never, Control!None, Control!Choice,
        Control!page, Control!requests, Control!panic, Control!thread, Control!keys
<1>0. BoolsTyped
  OBVIOUS
<1>1. CASE Control!handle_events
  <2>1. pressed' \in BOOLEAN
    BY <1>1, DeliverType, Zenon DEF Control!handle_events, Control!PollReset, Control!PollShutdown, Control!PollPause
  <2> QED  BY <1>1, <2>1, Zenon DEF Control!handle_events, Control!PollReset, Control!PollShutdown, Control!PollPause, Control!ShutdownAfterReset
<1>2. CASE Control!PanicAnswered
  BY <1>2, Zenon DEF Control!PanicAnswered, Control!UnsavedAfter
<1>3. CASE Control!Resume
  BY <1>3, DeliverType, Zenon DEF Control!Resume
<1>4. CASE Control!GuestWrites
  BY <1>4, Zenon DEF Control!GuestWrites
<1>5. CASE Control!GuestPowersOff
  BY <1>5, Zenon DEF Control!GuestPowersOff, Control!Notified
<1>6. CASE Control!GuestPanics
  BY <1>6, Zenon DEF Control!GuestPanics, Control!Notified, Control!UnresolvedAtFirst
<1>7. CASE Control!pauseButton_Click
  BY <1>7, Zenon DEF Control!pauseButton_Click, Control!UserMay
<1>8. CASE Control!KeyButton_PointerPressed
  BY <1>8, Zenon DEF Control!KeyButton_PointerPressed, Control!UserMay
<1>9. CASE Control!resetButton_Click
  BY <1>9, Zenon DEF Control!resetButton_Click, Control!UserMay, Control!ReleaseAllModifiers,
    Control!Highlighted
<1>10. CASE Control!shutdownButton_Click
  BY <1>10, Zenon DEF Control!shutdownButton_Click, Control!UserMay, Control!StopMachine,
    Control!ExitSoon, Control!ReleaseAllModifiers, Control!Highlighted
<1>11. CASE Control!saveLogButton_Click
  BY <1>11, Zenon DEF Control!saveLogButton_Click, Control!UserMay
<1>12. CASE Control!ContinueFileSavePicker
  BY ONLY <1>0, <1>12, Zenon DEF BoolsTyped, Control!keys, Control!thread, Control!panic, Control!requests,
    Control!ContinueFileSavePicker, Control!ExitSoon
<1>13. CASE Control!RunStop
  BY <1>13, Zenon DEF Control!RunStop, Control!StopMachine, Control!ExitSoon,
    Control!ReleaseAllModifiers, Control!Highlighted
<1>14. CASE Control!RunPanic
  BY <1>14, Zenon DEF Control!RunPanic, Control!ResolvePanic
<1>15. CASE \E choice \in {0, 1} : Control!AnswerContinue(choice)
  BY <1>15, Zenon DEF Control!AnswerContinue, Control!DialogCloses, Control!ResolvePanic
<1>16. CASE Control!AnswerDie
  BY <1>16, Zenon DEF Control!AnswerDie, Control!DialogCloses, Control!ResolvePanic,
    Control!StopMachine, Control!ExitSoon, Control!ReleaseAllModifiers, Control!Highlighted
<1>17. CASE Control!AnswerSaveAndExit
  BY <1>17, Zenon DEF Control!AnswerSaveAndExit, Control!DialogCloses, Control!ResolvePanic,
    Control!StopMachine, Control!ReleaseAllModifiers, Control!Highlighted
<1>18. CASE Control!Exit
  BY ONLY <1>0, <1>18, Zenon DEF BoolsTyped, Control!keys, Control!thread, Control!panic, Control!requests,
    Control!Exit, Control!Blocked
<1>19. CASE UNCHANGED Control!vars
  <2>1. UNCHANGED <<attached, _paused, dialog, exited, s_resetRequested, s_shutdownRequested, s_paused, m_panicResolved,
                    unsaved, muted, _modifierToggleState, pressed>>
    BY <1>19, SMT DEF Control!vars
  <2> QED  BY ONLY <1>0, <2>1, SMT DEF BoolsTyped
<1> QED
  BY <1>1, <1>2, <1>3, <1>4, <1>5, <1>6, <1>7, <1>8, <1>9, <1>10, <1>11, <1>12, <1>13, <1>14,
    <1>15, <1>16, <1>17, <1>18, <1>19, Zenon DEF Control!Next, Control!Emulator,
    Control!Dispatcher

\* The picker, the delay, the user's choice and the state of the emulator keep their ranges.
LEMMA RangesStep ==
  ASSUME BoolsTyped, RangesTyped, [Control!Next]_(Control!vars)
  PROVE  RangesTyped'
<1> USE ConstantsAssumption
    DEF Control!ConstantsOK, BoolsTyped, RangesTyped, Control!Never, Control!None, Control!Choice,
        Control!page, Control!requests, Control!panic, Control!thread, Control!keys
<1>1. CASE Control!handle_events
  BY <1>1, SMT DEF Control!handle_events, Control!PollReset, Control!PollShutdown,
    Control!PollPause, Control!DeliverKeys, Control!Elapsed, Control!ShutdownAfterReset,
    Control!KeysAfterReset
<1>2. CASE Control!PanicAnswered
  BY <1>2, SMT DEF Control!PanicAnswered, Control!UnsavedAfter
<1>3. CASE Control!Resume
  BY <1>3, SMT DEF Control!Resume, Control!DeliverKeys
<1>4. CASE Control!GuestWrites
  BY <1>4, SMT DEF Control!GuestWrites
<1>5. CASE Control!GuestPowersOff
  BY <1>5, SMT DEF Control!GuestPowersOff, Control!Notified
<1>6. CASE Control!GuestPanics
  BY <1>6, SMT DEF Control!GuestPanics, Control!Notified, Control!UnresolvedAtFirst
<1>7. CASE Control!pauseButton_Click
  BY <1>7, SMT DEF Control!pauseButton_Click, Control!UserMay
<1>8. CASE Control!KeyButton_PointerPressed
  BY <1>8, SMT DEF Control!KeyButton_PointerPressed, Control!UserMay
<1>9. CASE Control!resetButton_Click
  BY <1>9, SMT DEF Control!resetButton_Click, Control!UserMay, Control!ReleaseAllModifiers,
    Control!Highlighted
<1>10. CASE Control!shutdownButton_Click
  BY <1>10, SMT DEF Control!shutdownButton_Click, Control!UserMay, Control!StopMachine,
    Control!ExitSoon, Control!ReleaseAllModifiers, Control!Highlighted
<1>11. CASE Control!saveLogButton_Click
  BY <1>11, SMT DEF Control!saveLogButton_Click, Control!UserMay
<1>12. CASE Control!ContinueFileSavePicker
  BY <1>12, SMT DEF Control!ContinueFileSavePicker, Control!ExitSoon
<1>13. CASE Control!RunStop
  BY <1>13, SMT DEF Control!RunStop, Control!StopMachine, Control!ExitSoon,
    Control!ReleaseAllModifiers, Control!Highlighted
<1>14. CASE Control!RunPanic
  BY <1>14, SMT DEF Control!RunPanic, Control!ResolvePanic
<1>15. CASE \E choice \in {0, 1} : Control!AnswerContinue(choice)
  BY <1>15, SMT DEF Control!AnswerContinue, Control!DialogCloses, Control!ResolvePanic
<1>16. CASE Control!AnswerDie
  BY <1>16, SMT DEF Control!AnswerDie, Control!DialogCloses, Control!ResolvePanic,
    Control!StopMachine, Control!ExitSoon, Control!ReleaseAllModifiers, Control!Highlighted
<1>17. CASE Control!AnswerSaveAndExit
  BY <1>17, SMT DEF Control!AnswerSaveAndExit, Control!DialogCloses, Control!ResolvePanic,
    Control!StopMachine, Control!ReleaseAllModifiers, Control!Highlighted
<1>18. CASE Control!Exit
  BY <1>18, SMT DEF Control!Exit, Control!Blocked
<1>19. CASE UNCHANGED Control!vars
  BY <1>19, SMT DEF Control!vars
<1> QED
  BY <1>1, <1>2, <1>3, <1>4, <1>5, <1>6, <1>7, <1>8, <1>9, <1>10, <1>11, <1>12, <1>13, <1>14,
    <1>15, <1>16, <1>17, <1>18, <1>19, Zenon DEF Control!Next, Control!Emulator,
    Control!Dispatcher

\* The inductive invariant of the page and the emulator's thread.
ControlIInv == BoolsTyped /\ RangesTyped /\ KeysTyped /\ QueueTyped /\ QueueSound /\ StopSound /\ KeysSound

\* The invariant holds when the page has been opened and its emulator runs.
LEMMA ControlInit ==
  Control!Init => ControlIInv
<1> SUFFICES ASSUME Control!Init PROVE ControlIInv
  OBVIOUS
<1> USE ConstantsAssumption DEF Control!ConstantsOK, Control!Init, Control!Never, Control!None, Control!Choice
<1>1. BoolsTyped /\ StopSound
  BY Zenon DEF BoolsTyped, StopSound
<1>2. RangesTyped /\ KeysTyped /\ QueueTyped /\ QueueSound
  BY SMT DEF RangesTyped, KeysTyped, QueueTyped, QueueSound
<1>3. KeysSound
  BY Zenon DEF KeysSound
<1> QED  BY <1>1, <1>2, <1>3, Zenon DEF ControlIInv

\* Every action of the page, of the user, of the guest and of the emulator's thread keeps the
\* invariant.
LEMMA ControlStep ==
  ASSUME ControlIInv, [Control!Next]_(Control!vars)
  PROVE  ControlIInv'
<1> USE DEF ControlIInv
<1>1. BoolsTyped' /\ RangesTyped'
  BY BoolsStep, RangesStep, Zenon
<1>2. KeysTyped' /\ KeysSound'
  BY KeysTypeStep, KeysStep, Zenon
<1>3. QueueTyped' /\ QueueSound' /\ StopSound'
  BY QueueTypeStep, QueueStep, StopStep, Zenon DEF QueueTyped
<1> QED  BY <1>1, <1>2, <1>3, Zenon

\* What the run checks of the page and the emulator's thread follows from the invariant.
LEMMA ControlSound ==
  ControlIInv => Control!TypeOK /\ Control!OnlyWaitingLoses /\ Control!DialogMatchesPanic /\ Control!ModifierAgrees
<1> SUFFICES ASSUME ControlIInv
             PROVE  Control!TypeOK /\ Control!OnlyWaitingLoses /\ Control!DialogMatchesPanic /\ Control!ModifierAgrees
  OBVIOUS
<1> USE DEF ControlIInv
<1>1. Control!TypeOK
  BY Zenon DEF Control!TypeOK, BoolsTyped, RangesTyped, KeysTyped, QueueTyped, Control!None
<1>2. Control!OnlyWaitingLoses
  BY Zenon DEF Control!OnlyWaitingLoses, StopSound
<1>3. Control!DialogMatchesPanic
  BY Zenon DEF Control!DialogMatchesPanic, QueueSound
<1>4. Control!ModifierAgrees
  BY Zenon DEF Control!ModifierAgrees, KeysSound
<1> QED  BY <1>1, <1>2, <1>3, <1>4

-----------------------------------------------------------------------------
(* The loop of the CPU (CpuEvents).                                        *)

\* What the CPU keeps of its events and what the history variables hold.
Cpu ==
  [pc : {"boundary", "halted", "execute", "deliver"}, If : BOOLEAN, TF : BOOLEAN, INTR : BOOLEAN, HRQ : BOOLEAN,
   async : 0 .. 2, halt : BOOLEAN, trap : SUBSET {"step", "task"}, inhibit : SUBSET {"interrupts", "debug"},
   kind : {"none", "irq", "soft", "exception", "double"}, errorno : 0 .. 2, first : Events!Class,
   mixed : BOOLEAN, saved : BOOLEAN]

HistoryTyped ==
  /\ owed \in {"no", "yes", "later", "hlt"} /\ shadow \in BOOLEAN
  /\ chain \in 0 .. 2 /\ began \in {"none", "irq", "soft", "exception"}
  /\ hlda \in BOOLEAN /\ events \in 0 .. MaxEvents

\* What is to be looked at is noted in async_event at all times, not only at a
\* boundary.
AsyncSound == Events!Pending(cpu) \/ cpu.halt \/ cpu.inhibit # {} => cpu.async # 0

\* HLT and the inhibits last to the next boundary, the traps to the next delivery.
PlaceSound ==
  /\ cpu.pc = "deliver" <=> cpu.kind # "none"
  /\ cpu.pc # "boundary" => ~cpu.halt /\ cpu.inhibit = {}
  /\ cpu.pc \in {"halted", "deliver"} => cpu.trap = {}

\* An instruction that begins with TF has its trap noted, and a trap that is owed
\* is due at the boundary.
StepSound ==
  /\ cpu.pc = "execute" /\ cpu.TF => "step" \in cpu.trap
  /\ cpu.pc = "boundary" /\ owed = "yes" => "step" \in cpu.trap /\ "debug" \notin cpu.inhibit /\ ~cpu.halt
  /\ cpu.pc # "boundary" => owed # "yes"

ShadowSound ==
  /\ shadow => cpu.pc \in {"boundary", "execute"}
  /\ shadow /\ cpu.pc = "boundary" => "interrupts" \in cpu.inhibit /\ ~cpu.halt

\* The errors that are counted are those raised within each other, and none
\* outside a delivery.
ChainSound ==
  cpu.errorno = chain /\ (cpu.pc # "deliver" => chain = 0) /\ (cpu.kind \in {"irq", "soft"} => chain = 0)

\* An exception's delivery begins with whole frames and keeps a whole one.
FrameSound ==
  /\ cpu.pc # "deliver" => ~cpu.mixed
  /\ cpu.pc = "deliver" => began # "none"
  /\ cpu.pc = "deliver" /\ began = "exception" => chain > 0 /\ ~cpu.mixed /\ ~cpu.saved

\* The inductive invariant of the CPU's loop.
EventsIInv ==
  cpu \in Cpu /\ HistoryTyped /\ AsyncSound /\ PlaceSound /\ StepSound /\ ShadowSound /\ ChainSound /\ FrameSound

\* A delivery begins with traps and inhibits dropped, and with nothing else changed.
LEMMA InterruptIs ==
  ASSUME NEW k \in Cpu, NEW kind \in {"irq", "soft", "exception", "double"}
  PROVE  LET r == Events!interrupt(k, kind)
         IN  /\ r \in Cpu /\ r.pc = "deliver" /\ r.kind = kind /\ r.trap = {} /\ ~r.halt /\ r.inhibit = {}
             /\ r.If = k.If /\ r.TF = k.TF /\ r.INTR = k.INTR /\ r.HRQ = k.HRQ /\ r.async = k.async
             /\ r.errorno = k.errorno /\ r.mixed = k.mixed /\ r.saved = k.mixed
<1> DEFINE r == Events!interrupt(k, kind)
<1>1. /\ {} \in SUBSET {"step", "task"} /\ {} \in SUBSET {"interrupts", "debug"} /\ k.mixed \in BOOLEAN
      /\ kind \in {"none", "irq", "soft", "exception", "double"}
      /\ "deliver" \in {"boundary", "halted", "execute", "deliver"}
  BY SMT DEF Cpu
<1>2. r \in Cpu
  BY <1>1, Zenon DEF Cpu, Events!interrupt
<1>3. /\ r.pc = "deliver" /\ r.kind = kind /\ r.trap = {} /\ ~r.halt /\ r.inhibit = {}
      /\ r.If = k.If /\ r.TF = k.TF /\ r.INTR = k.INTR /\ r.HRQ = k.HRQ /\ r.async = k.async
      /\ r.errorno = k.errorno /\ r.mixed = k.mixed /\ r.saved = k.mixed
  BY SMT DEF Cpu, Events!interrupt
<1> QED  BY <1>2, <1>3, Zenon

\* A CPU that is reset is at a boundary, with only the requests of the devices left.
LEMMA ResetIs ==
  ASSUME NEW INTR \in BOOLEAN, NEW HRQ \in BOOLEAN, NEW r, r = Events!Reset(INTR, HRQ)
  PROVE      /\ r \in Cpu /\ r.pc = "boundary" /\ r.kind = "none" /\ r.trap = {} /\ ~r.halt /\ r.inhibit = {}
             /\ r.async = 2 /\ r.errorno = 0 /\ ~r.mixed /\ ~r.saved
  BY SMT DEF Cpu, Events!Reset, Events!Class

\* The first two exceptions are delivered, with whole frames again if one was being delivered;
\* the third resets the CPU.
LEMMA ExceptionIs ==
  ASSUME NEW k \in Cpu, NEW class \in Events!Class
  PROVE  LET r == Events!exception(k, class)
         IN  /\ k.errorno < 2 =>
                  /\ r \in Cpu /\ r.pc = "deliver" /\ r.kind \in {"exception", "double"}
                  /\ r.trap = {} /\ ~r.halt /\ r.inhibit = {}
                  /\ r.TF = k.TF /\ r.INTR = k.INTR /\ r.HRQ = k.HRQ /\ r.async = k.async
                  /\ r.errorno = k.errorno + 1
                  /\ r.mixed = (IF k.errorno > 0 THEN k.saved ELSE k.mixed) /\ r.saved = r.mixed
             /\ k.errorno = 2 => r = Events!Reset(k.INTR, k.HRQ)
<1> DEFINE n == k.errorno + 1
           kind == IF n = 2 /\ ~Events!is_exception_OK(k.first, class) THEN "double" ELSE "exception"
           j == [Events!Restored(k) EXCEPT !.errorno = n, !.first = IF n = 1 THEN class ELSE @]
<1>1. CASE k.errorno = 2
  BY <1>1, SMT DEF Events!exception
<1>2. CASE k.errorno < 2
  <2>1. Events!Restored(k) \in Cpu /\ n \in 0 .. 2
    BY <1>2, SMT DEF Events!Restored, Cpu
  <2>2. /\ j.TF = k.TF /\ j.INTR = k.INTR /\ j.HRQ = k.HRQ /\ j.async = k.async /\ j.errorno = n
        /\ j.mixed = (IF k.errorno > 0 THEN k.saved ELSE k.mixed)
    BY <2>1, SMT DEF Events!Restored, Cpu
  <2>3. j \in Cpu
    BY <2>1, Zenon DEF Cpu
  <2>4. Events!exception(k, class) = Events!interrupt(j, kind)
    BY <1>2, <2>1, SMT DEF Events!exception, Cpu
  <2> HIDE DEF j, kind
  <2>5. kind \in {"exception", "double"}
    BY Zenon DEF kind
  <2> QED  BY <1>2, <2>2, <2>4, <2>5, <2>3, InterruptIs, SMT DEF Cpu
<1>3. k.errorno \in 0 .. 2
  BY Zenon DEF Cpu
<1> QED  BY <1>1, <1>2, <1>3, SMT

\* The end of handleAsyncEvent clears async_event only when nothing is left to be looked at, and
\* notes the trap of an instruction that begins with TF.
LEMMA TailIs ==
  ASSUME NEW k \in Cpu
  PROVE  LET r == Events!Tail(k)
         IN  /\ r \in Cpu /\ r.pc = "execute" /\ r.inhibit = {} /\ r.kind = k.kind /\ r.halt = k.halt
             /\ r.If = k.If /\ r.TF = k.TF /\ r.errorno = k.errorno /\ r.mixed = k.mixed /\ r.saved = k.saved
             /\ r.TF => "step" \in r.trap
             /\ Events!Pending(r) => Events!Pending(k) /\ (k.async # 0 => r.async # 0)
<1> DEFINE r == Events!Tail(k)
<1>1. k.trap \in SUBSET {"step", "task"} /\ Events!StepNoted(k) \in SUBSET {"step", "task"}
  BY SMT DEF Cpu, Events!StepNoted
<1>2. {} \in SUBSET {"interrupts", "debug"} /\ 0 \in 0 .. 2
      /\ "execute" \in {"boundary", "halted", "execute", "deliver"}
  BY SMT
<1>3. r \in Cpu
  BY <1>1, <1>2, Zenon DEF Cpu, Events!Tail
<1>4. /\ r.pc = "execute" /\ r.inhibit = {} /\ r.kind = k.kind /\ r.halt = k.halt
      /\ r.If = k.If /\ r.TF = k.TF /\ r.errorno = k.errorno /\ r.mixed = k.mixed /\ r.saved = k.saved
  BY SMT DEF Cpu, Events!Tail
<1>5. r.TF => "step" \in r.trap
  BY SMT DEF Cpu, Events!Tail, Events!StepNoted
<1>6. Events!Pending(r) => Events!Pending(k) /\ (k.async # 0 => r.async # 0)
  BY SMT DEF Cpu, Events!Tail, Events!Pending, Events!StepNoted
<1> QED  BY <1>3, <1>4, <1>5, <1>6, Zenon

\* The invariant holds of a CPU that has been reset by hardware.
LEMMA EventsInit ==
  Events!Init => EventsIInv
<1> SUFFICES ASSUME Events!Init PROVE EventsIInv
  OBVIOUS
<1>1. MaxEvents \in Nat
  BY ConstantsAssumption DEF Events!ConstantsOK
<1>2. /\ cpu \in Cpu /\ cpu.pc = "boundary" /\ cpu.kind = "none" /\ cpu.trap = {} /\ ~cpu.halt /\ cpu.inhibit = {}
      /\ cpu.async = 2 /\ cpu.errorno = 0 /\ ~cpu.mixed /\ ~cpu.saved
  BY ResetIs, Zenon DEF Events!Init
<1>3. owed = "no" /\ shadow = FALSE /\ chain = 0 /\ began = "none" /\ hlda = FALSE /\ events = 0
  BY Zenon DEF Events!Init
<1>4. HistoryTyped
  <2>1. chain \in 0 .. 2 /\ events \in 0 .. MaxEvents
    BY <1>1, <1>3, SMT
  <2> QED  BY <1>3, <2>1, Zenon DEF HistoryTyped
<1>5. AsyncSound /\ PlaceSound /\ StepSound
  BY <1>2, <1>3, SMT DEF AsyncSound, PlaceSound, StepSound
<1>6. ShadowSound /\ ChainSound /\ FrameSound
  BY <1>2, <1>3, SMT DEF ShadowSound, ChainSound, FrameSound
<1> QED  BY <1>2, <1>4, <1>5, <1>6, Zenon DEF EventsIInv

\* handleAsyncEvent, at a boundary or where the HALT loop ends, keeps the invariant: whether it
\* takes a trap, an interrupt or gives the bus away, and whatever it leaves for the next boundary.
LEMMA LooksStep ==
  ASSUME NEW k \in Cpu, k.pc = "boundary", ~k.halt, k.kind = "none", k.errorno = 0, ~k.mixed, k.async # 0,
         chain = 0, HistoryTyped,
         owed = "yes" => "step" \in k.trap /\ "debug" \notin k.inhibit,
         shadow => "interrupts" \in k.inhibit,
         Events!Looks(k)
  PROVE  EventsIInv'
<1> USE DEF HistoryTyped
<1>1. MaxEvents \in Nat
  BY ConstantsAssumption DEF Events!ConstantsOK
<1>2. CASE Events!TrapDue(k)
  <2>1. cpu' = Events!exception(k, "benign") /\ chain' = chain + 1 /\ began' = "exception" /\ owed' = "no"
        /\ shadow' = FALSE /\ UNCHANGED <<hlda, events>>
    BY <1>2, Zenon DEF Events!Looks
  <2>2. /\ cpu' \in Cpu /\ cpu'.pc = "deliver" /\ cpu'.kind \in {"exception", "double"}
        /\ cpu'.trap = {} /\ ~cpu'.halt /\ cpu'.inhibit = {} /\ cpu'.TF = k.TF /\ cpu'.INTR = k.INTR
        /\ cpu'.HRQ = k.HRQ /\ cpu'.async = k.async /\ cpu'.errorno = 1 /\ ~cpu'.mixed /\ ~cpu'.saved
    BY <2>1, ExceptionIs, SMT DEF Events!Class
  <2>3. HistoryTyped'
    <3>1. chain' \in 0 .. 2
      BY <2>1, SMT
    <3> QED  BY <2>1, <3>1, Zenon
  <2>4. AsyncSound' /\ PlaceSound' /\ StepSound'
    BY <2>1, <2>2, SMT DEF AsyncSound, PlaceSound, StepSound
  <2>5. ShadowSound' /\ ChainSound' /\ FrameSound'
    BY <2>1, <2>2, SMT DEF ShadowSound, ChainSound, FrameSound
  <2> QED  BY <2>2, <2>3, <2>4, <2>5, Zenon DEF EventsIInv
<1>3. CASE ~Events!TrapDue(k) /\ ~Events!Inhibited(k) /\ k.INTR /\ k.If
  <2>1. PICK again \in BOOLEAN :
          /\ cpu' = Events!interrupt([k EXCEPT !.errorno = 0, !.INTR = again, !.async = IF again THEN 1 ELSE @], "irq")
          /\ IF again THEN Events!Counted ELSE Events!Uncounted
          /\ began' = "irq" /\ UNCHANGED <<owed, shadow, chain, hlda>>
    BY <1>3, Zenon DEF Events!Looks
  <2> DEFINE j == [k EXCEPT !.errorno = 0, !.INTR = again, !.async = IF again THEN 1 ELSE @]
  <2>2. j \in Cpu
    <3>1. 0 \in 0 .. 2 /\ (IF again THEN 1 ELSE k.async) \in 0 .. 2
      BY SMT DEF Cpu
    <3> DEFINE a == IF again THEN 1 ELSE k.async
    <3>2. a \in 0 .. 2 /\ 0 \in 0 .. 2 /\ k \in Cpu /\ again \in BOOLEAN
      BY <3>1
    <3> HIDE DEF a
    <3>3. [k EXCEPT !.errorno = 0, !.INTR = again, !.async = a] \in Cpu
      BY ONLY <3>2, Zenon DEF Cpu
    <3> QED  BY <3>3 DEF a
  <2>3. j.errorno = 0 /\ j.async # 0 /\ j.mixed = k.mixed /\ j.TF = k.TF /\ j.HRQ = k.HRQ
    BY SMT DEF Cpu
  <2>4. /\ cpu' \in Cpu /\ cpu'.pc = "deliver" /\ cpu'.kind = "irq" /\ cpu'.trap = {} /\ ~cpu'.halt
        /\ cpu'.inhibit = {} /\ cpu'.async # 0 /\ cpu'.errorno = 0 /\ ~cpu'.mixed /\ ~cpu'.saved
    <3> HIDE DEF j
    <3>1. cpu' = Events!interrupt(j, "irq") /\ "irq" \in {"irq", "soft", "exception", "double"}
      BY <2>1, SMT DEF j
    <3>2. LET r == Events!interrupt(j, "irq")
          IN  /\ r \in Cpu /\ r.pc = "deliver" /\ r.kind = "irq" /\ r.trap = {} /\ ~r.halt /\ r.inhibit = {}
              /\ r.async = j.async /\ r.errorno = j.errorno /\ r.mixed = j.mixed /\ r.saved = j.mixed
      BY ONLY <2>2, <3>1, InterruptIs, Zenon
    <3> QED  BY <2>3, <3>1, <3>2, Zenon
  <2>5. HistoryTyped'
    BY <1>1, <2>1, SMT DEF Events!Counted, Events!Uncounted
  <2>6. owed # "yes"
    BY <1>3, SMT DEF Events!TrapDue
  <2>7. ~shadow
    BY <1>3, Zenon DEF Events!Inhibited
  <2>8. AsyncSound' /\ PlaceSound' /\ StepSound'
    BY <2>1, <2>4, <2>6, SMT DEF AsyncSound, PlaceSound, StepSound
  <2>9. ShadowSound' /\ ChainSound' /\ FrameSound'
    BY <2>1, <2>4, <2>7, SMT DEF ShadowSound, ChainSound, FrameSound
  <2> QED  BY <2>4, <2>5, <2>8, <2>9, Zenon DEF EventsIInv
<1>4. CASE ~Events!TrapDue(k) /\ ~(~Events!Inhibited(k) /\ k.INTR /\ k.If)
  <2>1. PICK j \in Cpu :
          /\ cpu' = Events!Tail(j) /\ hlda' \in BOOLEAN /\ UNCHANGED <<owed, shadow, chain, began, events>>
          /\ ~j.halt /\ j.kind = "none" /\ j.errorno = 0 /\ ~j.mixed /\ j.async # 0
    <3>1. CASE cpu' = Events!Tail(k) /\ UNCHANGED <<owed, shadow, chain, began, hlda, events>>
      BY <3>1, Zenon
    <3>2. ASSUME NEW more \in BOOLEAN, cpu' = Events!Tail([k EXCEPT !.HRQ = more]), hlda' = ~hlda,
                 UNCHANGED <<owed, shadow, chain, began, events>>
          PROVE  \E j \in Cpu :
                   /\ cpu' = Events!Tail(j) /\ hlda' \in BOOLEAN /\ UNCHANGED <<owed, shadow, chain, began, events>>
                   /\ ~j.halt /\ j.kind = "none" /\ j.errorno = 0 /\ ~j.mixed /\ j.async # 0
      <4> DEFINE j == [k EXCEPT !.HRQ = more]
      <4>1. j \in Cpu
        BY Zenon DEF Cpu
      <4>2. ~j.halt /\ j.kind = "none" /\ j.errorno = 0 /\ ~j.mixed /\ j.async # 0
        BY SMT DEF Cpu
      <4> QED  BY <3>2, <4>1, <4>2, Zenon
    <3> QED  BY <1>4, <3>1, <3>2, Zenon DEF Events!Looks
  <2>2. /\ cpu' \in Cpu /\ cpu'.pc = "execute" /\ cpu'.inhibit = {} /\ cpu'.kind = "none" /\ ~cpu'.halt
        /\ cpu'.errorno = 0 /\ ~cpu'.mixed /\ (cpu'.TF => "step" \in cpu'.trap)
        /\ (Events!Pending(cpu') => cpu'.async # 0)
    BY <2>1, TailIs, Zenon
  <2>3. HistoryTyped'
    BY <2>1, Zenon
  <2>4. owed # "yes"
    BY <1>4, SMT DEF Events!TrapDue
  <2>5. AsyncSound'
    BY <2>2, Zenon DEF AsyncSound, Events!Pending
  <2>6. PlaceSound' /\ StepSound'
    BY <2>1, <2>2, <2>4, SMT DEF PlaceSound, StepSound
  <2>7. ShadowSound' /\ ChainSound' /\ FrameSound'
    BY <2>1, <2>2, SMT DEF ShadowSound, ChainSound, FrameSound
  <2> QED  BY <2>2, <2>3, <2>5, <2>6, <2>7, Zenon DEF EventsIInv
<1> QED  BY <1>2, <1>3, <1>4, Zenon

\* An instruction that completes keeps the invariant, if what it leaves to be looked at is
\* noted in async_event, and it neither drops the trap of its own step nor ends the shadow it casts.
LEMMA CompletesStep ==
  ASSUME EventsIInv, cpu.pc = "execute", NEW k \in Cpu, NEW owes \in {"no", "yes", "later", "hlt"}, NEW holds \in BOOLEAN,
         Events!Completes(k, owes, holds), events' \in 0 .. MaxEvents,
         k.kind = cpu.kind, k.errorno = cpu.errorno, k.mixed = cpu.mixed,
         Events!Pending(k) \/ k.halt \/ k.inhibit # {} => k.async # 0,
         cpu.TF /\ owes = "yes" => k.trap = cpu.trap /\ "debug" \notin k.inhibit /\ ~k.halt,
         holds => "interrupts" \in k.inhibit /\ ~k.halt
  PROVE  EventsIInv'
<1> USE DEF EventsIInv
<1> DEFINE r == [k EXCEPT !.pc = "boundary"]
<1>1. /\ cpu' = r /\ owed' = (IF cpu.TF THEN owes ELSE "no") /\ shadow' = holds
      /\ UNCHANGED <<chain, began, hlda>>
  BY Zenon DEF Events!Completes
<1>2. r \in Cpu
  <2>1. "boundary" \in {"boundary", "halted", "execute", "deliver"}
    BY SMT
  <2> QED  BY <2>1, Zenon DEF Cpu
<1>3. /\ r.pc = "boundary" /\ r.kind = k.kind /\ r.trap = k.trap /\ r.halt = k.halt /\ r.inhibit = k.inhibit
      /\ r.async = k.async /\ r.errorno = k.errorno /\ r.mixed = k.mixed
      /\ (Events!Pending(r) => Events!Pending(k))
  BY SMT DEF Cpu, Events!Pending
<1> HIDE DEF r
<1>4. HistoryTyped'
  BY <1>1, Zenon DEF HistoryTyped
<1>5. AsyncSound'
  BY <1>1, <1>3, Zenon DEF AsyncSound
<1>6. cpu.kind = "none" /\ cpu.errorno = 0 /\ ~cpu.mixed /\ chain = 0 /\ (cpu.TF => "step" \in cpu.trap)
  BY SMT DEF PlaceSound, ChainSound, FrameSound, StepSound
<1>7. PlaceSound' /\ StepSound'
  BY <1>1, <1>3, <1>6, SMT DEF PlaceSound, StepSound
<1>8. ShadowSound'
  BY <1>1, <1>3, Zenon DEF ShadowSound
<1>9. ChainSound' /\ FrameSound'
  BY <1>1, <1>3, <1>6, SMT DEF ChainSound, FrameSound
<1> QED  BY <1>1, <1>2, <1>4, <1>5, <1>7, <1>8, <1>9, Zenon

\* A reset keeps the invariant: async_event stays set, and what is requested is looked at after it.
LEMMA ResetStep ==
  ASSUME EventsIInv, cpu.pc \in {"boundary", "halted", "execute"},
         cpu' = Events!Reset(cpu.INTR, cpu.HRQ), owed' = "no", shadow' = FALSE, UNCHANGED <<chain, began, hlda>>,
         events' \in 0 .. MaxEvents
  PROVE  EventsIInv'
<1> USE DEF EventsIInv
<1>1. /\ cpu' \in Cpu /\ cpu'.pc = "boundary" /\ cpu'.kind = "none" /\ cpu'.trap = {} /\ ~cpu'.halt /\ cpu'.inhibit = {}
      /\ cpu'.async = 2 /\ cpu'.errorno = 0 /\ ~cpu'.mixed /\ ~cpu'.saved
  <2>1. cpu.INTR \in BOOLEAN /\ cpu.HRQ \in BOOLEAN
    BY SMT DEF Cpu
  <2>2. cpu' = Events!Reset(cpu.INTR, cpu.HRQ)
    OBVIOUS
  <2> QED  BY ONLY <2>1, <2>2, ResetIs, SMT
<1>2. chain = 0
  BY SMT DEF ChainSound
<1>3. HistoryTyped'
  BY Zenon DEF HistoryTyped
<1>4. AsyncSound' /\ PlaceSound' /\ StepSound'
  BY <1>1, SMT DEF AsyncSound, PlaceSound, StepSound
<1>5. ShadowSound' /\ ChainSound' /\ FrameSound'
  BY <1>1, <1>2, SMT DEF ShadowSound, ChainSound, FrameSound
<1> QED  BY <1>1, <1>3, <1>4, <1>5, Zenon

\* A device that changes its request keeps the invariant, if it notes a new one in async_event.
LEMMA SignalStep ==
  ASSUME EventsIInv, cpu.pc \in {"boundary", "halted"}, NEW k \in Cpu, cpu' = k, UNCHANGED <<owed, shadow, chain, began, hlda>>,
         events' \in 0 .. MaxEvents,
         k.pc = cpu.pc, k.kind = cpu.kind, k.trap = cpu.trap, k.halt = cpu.halt, k.inhibit = cpu.inhibit,
         k.errorno = cpu.errorno, k.mixed = cpu.mixed,
         Events!Pending(k) \/ k.halt \/ k.inhibit # {} => k.async # 0
  PROVE  EventsIInv'
<1> USE DEF EventsIInv
<1>1. HistoryTyped'
  BY Zenon DEF HistoryTyped
<1>2. AsyncSound'
  BY Zenon DEF AsyncSound
<1>3. PlaceSound' /\ StepSound'
  BY SMT DEF PlaceSound, StepSound
<1>4. ShadowSound'
  BY Zenon DEF ShadowSound
<1>5. ChainSound' /\ FrameSound'
  BY SMT DEF ChainSound, FrameSound
<1> QED  BY <1>1, <1>2, <1>3, <1>4, <1>5, Zenon

\* Entering a handler keeps the invariant: the frame is whole and no exception is unresolved, and
\* an interrupt's first instruction begins with nothing forgotten.
LEMMA DeliveredStep ==
  ASSUME EventsIInv, Events!Delivered
  PROVE  EventsIInv'
<1> USE DEF EventsIInv
<1>1. PICK flag \in BOOLEAN :
        LET k == [cpu EXCEPT !.If = flag, !.TF = FALSE, !.mixed = FALSE]
        IN  cpu' = CASE cpu.kind = "irq" -> Events!Tail([k EXCEPT !.kind = "none"])
                     [] cpu.kind = "soft" -> [k EXCEPT !.pc = "boundary", !.kind = "none"]
                     [] OTHER -> Events!Resumed(k)
  <2>1. cpu.If \in BOOLEAN
    BY SMT DEF Cpu
  <2> QED  BY <2>1, Zenon DEF Events!Delivered
<1> DEFINE k == [cpu EXCEPT !.If = flag, !.TF = FALSE, !.mixed = FALSE]
<1>2. k \in Cpu
  BY Zenon DEF Cpu
<1>3. /\ ~k.mixed /\ k.kind = cpu.kind /\ k.pc = "deliver" /\ k.errorno = cpu.errorno /\ ~k.TF
      /\ k.trap = {} /\ ~k.halt /\ k.inhibit = {} /\ k.async = cpu.async
      /\ k.INTR = cpu.INTR /\ k.HRQ = cpu.HRQ
  BY SMT DEF Cpu, Events!Delivered, PlaceSound
<1>4. Events!Pending(k) => k.async # 0
  BY <1>3, Zenon DEF Events!Pending, AsyncSound
<1> HIDE DEF k
<1>5. /\ cpu.pc = "deliver" /\ chain' = 0 /\ began' = "none" /\ owed' = (IF cpu.kind = "irq" THEN owed ELSE "no")
      /\ shadow' = (shadow /\ cpu.kind = "irq") /\ UNCHANGED <<hlda, events>>
  BY Zenon DEF Events!Delivered, Events!Uncounted
<1>6. shadow' = FALSE /\ owed' # "yes" /\ cpu.errorno = chain
  <2>1. ~shadow
    BY <1>5, SMT DEF ShadowSound
  <2>2. shadow' = FALSE
    BY <1>5, <2>1, Zenon
  <2>3. owed' # "yes" /\ cpu.errorno = chain
    BY <1>5, SMT DEF StepSound, ChainSound
  <2> QED  BY <2>2, <2>3
<1>7. HistoryTyped'
  <2>1. chain' \in 0 .. 2
    BY <1>5, SMT
  <2> QED  BY <1>5, <1>6, <2>1, Zenon DEF HistoryTyped
<1>8. CASE cpu.kind = "irq"
  <2> DEFINE j == [k EXCEPT !.kind = "none"]
  <2>1. j \in Cpu
    <3>1. "none" \in {"none", "irq", "soft", "exception", "double"}
      BY SMT
    <3> QED  BY <1>2, <3>1, Zenon DEF Cpu
  <2>2. /\ j.kind = "none" /\ ~j.mixed /\ ~j.halt /\ j.errorno = 0 /\ j.async = k.async
        /\ j.INTR = k.INTR /\ j.HRQ = k.HRQ /\ j.TF = k.TF /\ j.trap = k.trap
    BY <1>2, <1>3, <1>6, <1>8, SMT DEF Cpu, ChainSound
  <2>3. cpu' = Events!Tail(j)
    BY <1>1, <1>8, Zenon DEF k
  <2>4. Events!Pending(j) => j.async # 0
    BY <1>4, <2>2, Zenon DEF Events!Pending
  <2> HIDE DEF j
  <2>5. /\ cpu' \in Cpu /\ cpu'.pc = "execute" /\ cpu'.inhibit = {} /\ cpu'.kind = "none" /\ ~cpu'.halt
        /\ cpu'.errorno = 0 /\ ~cpu'.mixed /\ (cpu'.TF => "step" \in cpu'.trap)
        /\ (Events!Pending(cpu') => cpu'.async # 0)
    BY <2>1, <2>2, <2>3, <2>4, TailIs, Zenon
  <2>6. AsyncSound'
    BY <2>5, Zenon DEF AsyncSound
  <2>7. PlaceSound' /\ StepSound'
    BY <1>6, <2>5, SMT DEF PlaceSound, StepSound
  <2>8. ShadowSound' /\ ChainSound' /\ FrameSound'
    BY <1>5, <1>6, <2>5, SMT DEF ShadowSound, ChainSound, FrameSound
  <2> QED  BY <1>7, <2>5, <2>6, <2>7, <2>8, Zenon
<1>9. CASE cpu.kind # "irq"
  <2>1. owed' = "no"
    BY <1>5, <1>9, Zenon
  <2>2. /\ cpu' \in Cpu /\ cpu'.pc = "boundary" /\ cpu'.kind = "none" /\ cpu'.trap = {} /\ cpu'.inhibit = {} /\ ~cpu'.halt
        /\ ~cpu'.mixed /\ cpu'.errorno = 0 /\ cpu'.async = k.async
        /\ (Events!Pending(cpu') => Events!Pending(k))
    <3>1. "none" \in {"none", "irq", "soft", "exception", "double"} /\ 0 \in 0 .. 2
          /\ "boundary" \in {"boundary", "halted", "execute", "deliver"}
      BY SMT
    <3>2. CASE cpu.kind = "soft"
      <4>1. cpu' = [k EXCEPT !.pc = "boundary", !.kind = "none"]
        BY <1>1, <3>2, SMT DEF k
      <4>2. cpu' \in Cpu
        BY <1>2, <3>1, <4>1, Zenon DEF Cpu
      <4> QED  BY <1>2, <1>3, <1>6, <3>2, <4>1, <4>2, SMT DEF Cpu, ChainSound, Events!Pending
    <3>3. CASE cpu.kind # "soft"
      <4>1. cpu' = [k EXCEPT !.pc = "boundary", !.kind = "none", !.errorno = 0]
        BY <1>1, <1>9, <3>3, SMT DEF k, Events!Resumed
      <4>2. cpu' \in Cpu
        BY <1>2, <3>1, <4>1, Zenon DEF Cpu
      <4> QED  BY <1>2, <1>3, <4>1, <4>2, SMT DEF Cpu, Events!Pending
    <3> QED  BY <3>2, <3>3
  <2>3. AsyncSound'
    BY <1>4, <2>2, Zenon DEF AsyncSound
  <2>4. PlaceSound' /\ StepSound'
    BY <2>1, <2>2, SMT DEF PlaceSound, StepSound
  <2>5. ShadowSound' /\ ChainSound' /\ FrameSound'
    BY <1>5, <1>6, <2>2, SMT DEF ShadowSound, ChainSound, FrameSound
  <2> QED  BY <1>7, <2>2, <2>3, <2>4, <2>5, Zenon
<1> QED  BY <1>8, <1>9

\* A delivery that fails keeps the invariant: the second exception is counted, the third resets
\* the CPU, and an exception's frame goes back to the CS and SS it began with.
LEMMA DeliveryFailsStep ==
  ASSUME EventsIInv, Events!DeliveryFails
  PROVE  EventsIInv'
<1> USE DEF EventsIInv
<1>1. MaxEvents \in Nat
  BY ConstantsAssumption DEF Events!ConstantsOK
<1>2. /\ cpu.pc = "deliver" /\ Events!Counted /\ owed' = "no" /\ shadow' = FALSE /\ UNCHANGED hlda
  BY Zenon DEF Events!DeliveryFails
<1>3. PICK loaded \in BOOLEAN, class \in {"contributory", "page"} :
        /\ cpu' = Events!exception([cpu EXCEPT !.mixed = @ \/ loaded], class)
        /\ IF cpu'.pc = "boundary" THEN chain' = 0 /\ began' = "none" ELSE chain' = chain + 1 /\ UNCHANGED began
  BY Zenon DEF Events!DeliveryFails
<1> DEFINE k == [cpu EXCEPT !.mixed = @ \/ loaded]
<1>4. k \in Cpu /\ class \in Events!Class
  <2>1. cpu.mixed \/ loaded \in BOOLEAN
    BY SMT DEF Cpu
  <2>2. class \in Events!Class
    BY SMT DEF Events!Class
  <2> QED  BY <2>1, <2>2, Zenon DEF Cpu
<1>5. /\ k.errorno = cpu.errorno /\ k.TF = cpu.TF /\ k.INTR = cpu.INTR /\ k.HRQ = cpu.HRQ /\ k.async = cpu.async
      /\ k.saved = cpu.saved
  BY SMT DEF Cpu
<1> HIDE DEF k
<1>6. events' \in 0 .. MaxEvents
  BY <1>1, <1>2, SMT DEF Events!Counted, HistoryTyped
<1>7. cpu.errorno = chain /\ began # "none" /\ cpu.errorno \in 0 .. 2
  BY <1>2, SMT DEF ChainSound, FrameSound, Cpu
<1>8. CASE k.errorno < 2
  <2>1. /\ cpu' \in Cpu /\ cpu'.pc = "deliver" /\ cpu'.kind \in {"exception", "double"}
        /\ cpu'.trap = {} /\ ~cpu'.halt /\ cpu'.inhibit = {}
        /\ cpu'.TF = k.TF /\ cpu'.INTR = k.INTR /\ cpu'.HRQ = k.HRQ /\ cpu'.async = k.async
        /\ cpu'.errorno = k.errorno + 1
        /\ cpu'.mixed = (IF k.errorno > 0 THEN k.saved ELSE k.mixed) /\ cpu'.saved = cpu'.mixed
    <3>1. cpu' = Events!exception(k, class)
      BY <1>3, Zenon DEF k
    <3> QED  BY <1>4, <1>8, <3>1, ExceptionIs, SMT
  <2>2. chain' = chain + 1 /\ began' = began
    BY <1>3, <2>1, SMT
  <2>3. HistoryTyped'
    <3>1. chain' \in 0 .. 2
      BY <1>5, <1>7, <1>8, <2>2, SMT
    <3> QED  BY <1>2, <1>6, <2>2, <3>1, Zenon DEF HistoryTyped
  <2>4. began = "exception" => ~cpu'.mixed /\ ~cpu'.saved
    BY <1>2, <1>5, <1>7, <2>1, SMT DEF FrameSound
  <2>5. AsyncSound'
    BY <1>5, <2>1, Zenon DEF AsyncSound, Events!Pending, PlaceSound
  <2>6. PlaceSound' /\ StepSound'
    BY <1>2, <2>1, SMT DEF PlaceSound, StepSound
  <2>7. ShadowSound' /\ ChainSound'
    BY <1>2, <1>5, <1>7, <2>1, <2>2, SMT DEF ShadowSound, ChainSound
  <2>8. FrameSound'
    BY <1>5, <1>7, <2>1, <2>2, <2>4, SMT DEF FrameSound
  <2> QED  BY <2>1, <2>3, <2>5, <2>6, <2>7, <2>8, Zenon
<1>9. CASE k.errorno = 2
  <2>1. cpu' = Events!Reset(k.INTR, k.HRQ)
    BY <1>3, <1>4, <1>9, ExceptionIs, Zenon DEF k
  <2>2. k.INTR \in BOOLEAN /\ k.HRQ \in BOOLEAN
    BY <1>4, SMT DEF Cpu
  <2>3. /\ cpu' \in Cpu /\ cpu'.pc = "boundary" /\ cpu'.kind = "none" /\ cpu'.trap = {} /\ ~cpu'.halt /\ cpu'.inhibit = {}
        /\ cpu'.async = 2 /\ cpu'.errorno = 0 /\ ~cpu'.mixed /\ ~cpu'.saved
    BY ONLY <2>1, <2>2, ResetIs, SMT
  <2>4. chain' = 0 /\ began' = "none"
    BY <1>3, <2>3, SMT
  <2>5. HistoryTyped'
    <3>1. chain' \in 0 .. 2
      BY <2>4, SMT
    <3> QED  BY <1>2, <1>6, <2>4, <3>1, Zenon DEF HistoryTyped
  <2>6. AsyncSound' /\ PlaceSound' /\ StepSound'
    BY <1>2, <2>3, SMT DEF AsyncSound, PlaceSound, StepSound
  <2>7. ShadowSound' /\ ChainSound' /\ FrameSound'
    BY <1>2, <2>3, <2>4, SMT DEF ShadowSound, ChainSound, FrameSound
  <2> QED  BY <2>3, <2>5, <2>6, <2>7, Zenon
<1> QED  BY <1>5, <1>7, <1>8, <1>9, SMT


\* Every instruction of the guest that ends at the next boundary keeps the invariant: each of
\* those that set the event state notes it in async_event.
LEMMA InstructionStep ==
  ASSUME EventsIInv,
         \/ Events!AnyOther \/ Events!CLI \/ Events!STI \/ Events!LoadSS \/ Events!LoadFlags
         \/ Events!HLT \/ Events!task_switch
  PROVE  EventsIInv'
<1>1. cpu \in Cpu /\ HistoryTyped /\ AsyncSound /\ PlaceSound
  BY Zenon DEF EventsIInv
<1>2. events' \in 0 .. MaxEvents /\ cpu.pc = "execute"
  <2>1. MaxEvents \in Nat
    BY ConstantsAssumption DEF Events!ConstantsOK
  <2>2. (Events!Counted \/ Events!Uncounted) /\ cpu.pc = "execute"
    BY Zenon DEF Events!AnyOther, Events!CLI, Events!STI, Events!LoadSS, Events!LoadFlags, Events!HLT, Events!task_switch
  <2> QED  BY <1>1, <2>1, <2>2, SMT DEF Events!Counted, Events!Uncounted, HistoryTyped
<1>3. /\ ~cpu.halt /\ cpu.inhibit = {}
  BY <1>2, <1>1, SMT DEF PlaceSound
<1>4. Events!Pending(cpu) => cpu.async # 0
  BY <1>1, Zenon DEF AsyncSound
<1>5. /\ 1 \in 0 .. 2 /\ {} \in SUBSET {"step", "task"} /\ {"task"} \in SUBSET {"step", "task"}
      /\ {} \in SUBSET {"interrupts", "debug"}
      /\ (cpu.inhibit \union {"interrupts"}) \in SUBSET {"interrupts", "debug"}
      /\ (cpu.inhibit \union {"interrupts", "debug"}) \in SUBSET {"interrupts", "debug"}
  BY <1>3, SMT
<1>6. CASE Events!AnyOther
  <2>1. Events!Completes(cpu, "yes", FALSE)
    BY <1>6, Zenon DEF Events!AnyOther
  <2>2. /\ "yes" \in {"no", "yes", "later", "hlt"} /\ FALSE \in BOOLEAN
        /\ Events!Pending(cpu) \/ cpu.halt \/ cpu.inhibit # {} => cpu.async # 0
        /\ "debug" \notin cpu.inhibit
    BY <1>3, <1>4, SMT
  <2> QED  BY <1>1, <1>2, <1>3, <2>1, <2>2, CompletesStep, Zenon
<1>7. CASE Events!CLI
  <2> DEFINE k == [cpu EXCEPT !.If = FALSE]
  <2>1. k \in Cpu
    BY <1>1, Zenon DEF Cpu
  <2>2. /\ k.kind = cpu.kind /\ k.errorno = cpu.errorno /\ k.mixed = cpu.mixed /\ k.trap = cpu.trap
        /\ ~k.halt /\ k.inhibit = {} /\ (Events!Pending(k) => k.async # 0)
    BY <1>1, <1>3, <1>4, SMT DEF Cpu, Events!Pending
  <2>3. Events!Completes(k, "yes", FALSE)
    BY <1>7, Zenon DEF Events!CLI
  <2> HIDE DEF k
  <2>4. /\ "yes" \in {"no", "yes", "later", "hlt"} /\ FALSE \in BOOLEAN
        /\ Events!Pending(k) \/ k.halt \/ k.inhibit # {} => k.async # 0
        /\ cpu.TF /\ "yes" = "yes" => k.trap = cpu.trap /\ "debug" \notin k.inhibit /\ ~k.halt
        /\ FALSE => "interrupts" \in k.inhibit /\ ~k.halt
    BY <2>2, SMT
  <2> QED  BY <1>2, <2>1, <2>2, <2>3, <2>4, CompletesStep, Zenon
<1>8. CASE Events!STI
  <2> DEFINE k == [cpu EXCEPT !.If = TRUE, !.inhibit = @ \union {"interrupts"}, !.async = 1]
  <2>1. k \in Cpu
    BY <1>1, <1>5, Zenon DEF Cpu
  <2>2. /\ k.kind = cpu.kind /\ k.errorno = cpu.errorno /\ k.mixed = cpu.mixed /\ k.trap = cpu.trap
        /\ ~k.halt /\ k.inhibit = {"interrupts"} /\ k.async = 1
    BY <1>1, <1>3, SMT DEF Cpu
  <2>3. Events!Completes(k, "yes", TRUE)
    <3>1. Events!Noticed([cpu EXCEPT !.If = TRUE, !.inhibit = @ \union {"interrupts"}]) = k
      BY <1>1, SMT DEF Events!Noticed, Cpu
    <3> QED  BY <1>8, <3>1, Zenon DEF Events!STI
  <2> HIDE DEF k
  <2>4. /\ "yes" \in {"no", "yes", "later", "hlt"} /\ TRUE \in BOOLEAN
        /\ Events!Pending(k) \/ k.halt \/ k.inhibit # {} => k.async # 0
        /\ cpu.TF /\ "yes" = "yes" => k.trap = cpu.trap /\ "debug" \notin k.inhibit /\ ~k.halt
        /\ TRUE => "interrupts" \in k.inhibit /\ ~k.halt
    BY <2>2, SMT
  <2> QED  BY <1>2, <2>1, <2>2, <2>3, <2>4, CompletesStep, Zenon
<1>9. CASE Events!LoadSS
  <2> DEFINE k == [cpu EXCEPT !.inhibit = @ \union {"interrupts", "debug"}, !.async = 1]
  <2>1. k \in Cpu
    BY <1>1, <1>5, Zenon DEF Cpu
  <2>2. /\ k.kind = cpu.kind /\ k.errorno = cpu.errorno /\ k.mixed = cpu.mixed /\ k.trap = cpu.trap
        /\ ~k.halt /\ "interrupts" \in k.inhibit /\ k.async = 1
    BY <1>1, <1>3, SMT DEF Cpu
  <2>3. Events!Completes(k, "later", TRUE)
    <3>1. Events!Noticed([cpu EXCEPT !.inhibit = @ \union {"interrupts", "debug"}]) = k
      BY <1>1, SMT DEF Events!Noticed, Cpu
    <3> QED  BY <1>9, <3>1, Zenon DEF Events!LoadSS
  <2> HIDE DEF k
  <2>4. /\ "later" \in {"no", "yes", "later", "hlt"} /\ TRUE \in BOOLEAN
        /\ Events!Pending(k) \/ k.halt \/ k.inhibit # {} => k.async # 0
        /\ cpu.TF /\ "later" = "yes" => k.trap = cpu.trap /\ "debug" \notin k.inhibit /\ ~k.halt
        /\ TRUE => "interrupts" \in k.inhibit /\ ~k.halt
    BY <2>2, SMT
  <2> QED  BY <1>2, <2>1, <2>2, <2>3, <2>4, CompletesStep, Zenon
<1>10. CASE Events!LoadFlags
  <2>1. PICK flag \in BOOLEAN, trace \in BOOLEAN : Events!Completes(Events!writeEFlags(cpu, flag, trace), "yes", FALSE)
    BY <1>10, Zenon DEF Events!LoadFlags
  <2> DEFINE k == Events!writeEFlags(cpu, flag, trace)
  <2>2. k \in Cpu
    BY <1>1, <1>5, Zenon DEF Cpu, Events!writeEFlags, Events!Noticed
  <2>3. /\ k.kind = cpu.kind /\ k.errorno = cpu.errorno /\ k.mixed = cpu.mixed /\ k.trap = cpu.trap
        /\ ~k.halt /\ k.inhibit = {} /\ (Events!Pending(k) => k.async # 0)
    BY <1>1, <1>3, <1>4, SMT DEF Cpu, Events!Pending, Events!writeEFlags, Events!Noticed
  <2> HIDE DEF k
  <2>4. /\ "yes" \in {"no", "yes", "later", "hlt"} /\ FALSE \in BOOLEAN
        /\ Events!Pending(k) \/ k.halt \/ k.inhibit # {} => k.async # 0
        /\ cpu.TF /\ "yes" = "yes" => k.trap = cpu.trap /\ "debug" \notin k.inhibit /\ ~k.halt
        /\ FALSE => "interrupts" \in k.inhibit /\ ~k.halt
    BY <2>3, SMT
  <2> QED  BY <1>2, <2>2, <2>3, <2>1, <2>4, CompletesStep, Zenon DEF k
<1>11. CASE Events!HLT
  <2> DEFINE k == [cpu EXCEPT !.halt = TRUE, !.async = 1]
  <2>1. k \in Cpu
    BY <1>1, <1>5, Zenon DEF Cpu
  <2>2. /\ k.kind = cpu.kind /\ k.errorno = cpu.errorno /\ k.mixed = cpu.mixed /\ k.trap = cpu.trap
        /\ k.inhibit = {} /\ k.async = 1
    BY <1>1, <1>3, SMT DEF Cpu
  <2>3. Events!Completes(k, "hlt", FALSE)
    <3>1. Events!Noticed([cpu EXCEPT !.halt = TRUE]) = k
      BY <1>1, SMT DEF Events!Noticed, Cpu
    <3> QED  BY <1>11, <3>1, Zenon DEF Events!HLT
  <2> HIDE DEF k
  <2>4. /\ "hlt" \in {"no", "yes", "later", "hlt"} /\ FALSE \in BOOLEAN
        /\ Events!Pending(k) \/ k.halt \/ k.inhibit # {} => k.async # 0
        /\ cpu.TF /\ "hlt" = "yes" => k.trap = cpu.trap /\ "debug" \notin k.inhibit /\ ~k.halt
        /\ FALSE => "interrupts" \in k.inhibit /\ ~k.halt
    BY <2>2, SMT
  <2> QED  BY <1>2, <2>1, <2>2, <2>3, <2>4, CompletesStep, Zenon
<1>12. CASE Events!task_switch
  <2> DEFINE j == [cpu EXCEPT !.trap = {}, !.inhibit = {}]
             w(flag, trace) == Events!writeEFlags(j, flag, trace)
  <2>1. PICK flag \in BOOLEAN, trace \in BOOLEAN, T \in BOOLEAN :
          Events!Completes(IF T THEN Events!Noticed([w(flag, trace) EXCEPT !.trap = {"task"}]) ELSE w(flag, trace), "no", FALSE)
    BY <1>12, Zenon DEF Events!task_switch
  <2>2. j \in Cpu
    BY <1>1, <1>5, Zenon DEF Cpu
  <2>3. /\ j.kind = cpu.kind /\ j.errorno = cpu.errorno /\ j.mixed = cpu.mixed
        /\ ~j.halt /\ j.inhibit = {} /\ (Events!Pending(j) => j.async # 0)
    BY <1>1, <1>3, <1>4, SMT DEF Cpu, Events!Pending
  <2> HIDE DEF j
  <2> DEFINE v == w(flag, trace)
             k == IF T THEN Events!Noticed([v EXCEPT !.trap = {"task"}]) ELSE v
  <2>4. v \in Cpu
    BY <1>5, <2>2, Zenon DEF Cpu, Events!writeEFlags, Events!Noticed
  <2>5. /\ v.kind = cpu.kind /\ v.errorno = cpu.errorno /\ v.mixed = cpu.mixed
        /\ ~v.halt /\ v.inhibit = {} /\ (Events!Pending(v) => v.async # 0)
    BY <2>2, <2>3, SMT DEF Cpu, Events!Pending, Events!writeEFlags, Events!Noticed
  <2> HIDE DEF v
  <2>6. k \in Cpu
    <3> DEFINE n == Events!Noticed([v EXCEPT !.trap = {"task"}])
    <3>1. n \in Cpu
      BY <1>5, <2>4, Zenon DEF Cpu, Events!Noticed
    <3> HIDE DEF n
    <3> QED  BY <2>4, <3>1 DEF n
  <2>7. /\ k.kind = cpu.kind /\ k.errorno = cpu.errorno /\ k.mixed = cpu.mixed
        /\ ~k.halt /\ k.inhibit = {} /\ (Events!Pending(k) => k.async # 0)
    BY <2>4, <2>5, SMT DEF Cpu, Events!Pending, Events!Noticed
  <2>8. Events!Completes(k, "no", FALSE)
    BY <2>1, Zenon DEF v
  <2> HIDE DEF k
  <2>9. /\ "no" \in {"no", "yes", "later", "hlt"} /\ FALSE \in BOOLEAN
        /\ Events!Pending(k) \/ k.halt \/ k.inhibit # {} => k.async # 0
        /\ cpu.TF /\ "no" = "yes" => k.trap = cpu.trap /\ "debug" \notin k.inhibit /\ ~k.halt
        /\ FALSE => "interrupts" \in k.inhibit /\ ~k.halt
    BY <2>7, SMT
  <2> QED  BY <1>2, <2>6, <2>7, <2>8, <2>9, CompletesStep, Zenon
<1> QED  BY <1>6, <1>7, <1>8, <1>9, <1>10, <1>11, <1>12, Zenon

\* The boundary of two instructions and the HALT loop keep the invariant: a boundary that looks at
\* nothing has nothing to look at.
LEMMA BoundaryStep ==
  ASSUME EventsIInv, Events!AtBoundary \/ Events!Awakens
  PROVE  EventsIInv'
<1>1. cpu \in Cpu /\ HistoryTyped /\ AsyncSound /\ PlaceSound /\ StepSound /\ ShadowSound /\ ChainSound /\ FrameSound
  BY Zenon DEF EventsIInv
<1>2. cpu.pc \in {"boundary", "halted"}
  BY SMT DEF Events!AtBoundary, Events!Awakens
<1>3. chain = 0 /\ cpu.errorno = 0 /\ ~cpu.mixed /\ cpu.kind = "none"
  BY <1>1, <1>2, SMT DEF PlaceSound, ChainSound, FrameSound
<1>4. CASE cpu.pc = "boundary" /\ cpu.async = 0
  <2> DEFINE k == [cpu EXCEPT !.pc = "execute"]
  <2>1. cpu' = k /\ UNCHANGED <<owed, shadow, chain, began, hlda, events>>
    BY <1>4, SMT DEF Events!AtBoundary, Events!Awakens
  <2>2. ~cpu.halt /\ cpu.inhibit = {} /\ cpu.trap = {} /\ ~cpu.TF /\ ~cpu.INTR /\ ~cpu.HRQ
    BY <1>1, <1>4, Zenon DEF AsyncSound, Events!Pending
  <2>3. k \in Cpu
    <3>1. "execute" \in {"boundary", "halted", "execute", "deliver"}
      BY SMT
    <3> QED  BY <1>1, <3>1, Zenon DEF Cpu
  <2>4. /\ k.pc = "execute" /\ k.kind = "none" /\ k.trap = {} /\ ~k.halt /\ k.inhibit = {} /\ ~k.TF /\ ~k.INTR /\ ~k.HRQ
        /\ k.errorno = 0 /\ ~k.mixed
    BY <1>1, <1>3, <2>2, SMT DEF Cpu
  <2>5. owed # "yes"
    BY <1>1, <1>4, <2>2, SMT DEF StepSound
  <2>6. ~shadow
    BY <1>1, <1>4, <2>2, SMT DEF ShadowSound
  <2> HIDE DEF k
  <2>7. HistoryTyped'
    BY <1>1, <2>1, Zenon DEF HistoryTyped
  <2>8. AsyncSound' /\ PlaceSound' /\ StepSound'
    BY <2>1, <2>4, <2>5, SMT DEF AsyncSound, PlaceSound, StepSound, Events!Pending
  <2>9. ShadowSound' /\ ChainSound' /\ FrameSound'
    BY <1>3, <2>1, <2>4, <2>6, SMT DEF ShadowSound, ChainSound, FrameSound
  <2> QED  BY <2>1, <2>3, <2>7, <2>8, <2>9, Zenon DEF EventsIInv
<1>5. CASE cpu.pc = "boundary" /\ cpu.async # 0 /\ cpu.halt
  <2> DEFINE k == [cpu EXCEPT !.pc = "halted", !.halt = FALSE, !.trap = {}, !.inhibit = {}]
  <2>1. cpu' = k /\ UNCHANGED <<owed, shadow, chain, began, hlda, events>>
    BY <1>5, SMT DEF Events!AtBoundary, Events!Awakens
  <2>2. k \in Cpu
    <3>1. /\ "halted" \in {"boundary", "halted", "execute", "deliver"}
          /\ {} \in SUBSET {"step", "task"} /\ {} \in SUBSET {"interrupts", "debug"}
      BY SMT
    <3> QED  BY <1>1, <3>1, Zenon DEF Cpu
  <2>3. /\ k.pc = "halted" /\ k.kind = "none" /\ k.trap = {} /\ ~k.halt /\ k.inhibit = {} /\ k.async # 0
        /\ k.errorno = 0 /\ ~k.mixed
    BY <1>1, <1>3, <1>5, SMT DEF Cpu
  <2>4. owed # "yes" /\ ~shadow
    BY <1>1, <1>5, Zenon DEF StepSound, ShadowSound
  <2> HIDE DEF k
  <2>5. HistoryTyped'
    BY <1>1, <2>1, Zenon DEF HistoryTyped
  <2>6. AsyncSound' /\ PlaceSound' /\ StepSound'
    BY <2>1, <2>3, <2>4, SMT DEF AsyncSound, PlaceSound, StepSound
  <2>7. ShadowSound' /\ ChainSound' /\ FrameSound'
    BY <1>3, <2>1, <2>3, <2>4, SMT DEF ShadowSound, ChainSound, FrameSound
  <2> QED  BY <2>1, <2>2, <2>5, <2>6, <2>7, Zenon DEF EventsIInv
<1>6. CASE cpu.pc = "boundary" /\ cpu.async # 0 /\ ~cpu.halt
  <2>1. Events!Looks(cpu)
    BY <1>6, SMT DEF Events!AtBoundary, Events!Awakens
  <2>2. /\ owed = "yes" => "step" \in cpu.trap /\ "debug" \notin cpu.inhibit
        /\ shadow => "interrupts" \in cpu.inhibit
    BY <1>1, <1>6, Zenon DEF StepSound, ShadowSound
  <2> QED  BY <1>1, <1>3, <1>6, <2>1, <2>2, LooksStep, Zenon
<1>7. CASE cpu.pc = "halted"
  <2> DEFINE k == [cpu EXCEPT !.pc = "boundary"]
  <2>1. Events!Looks(k) /\ ((cpu.INTR /\ cpu.If) \/ cpu.async = 2)
    BY <1>7, SMT DEF Events!AtBoundary, Events!Awakens
  <2>2. ~cpu.halt /\ owed # "yes" /\ ~shadow /\ cpu.async # 0
    BY <1>1, <1>7, <2>1, SMT DEF PlaceSound, StepSound, ShadowSound, AsyncSound, Events!Pending
  <2>3. k \in Cpu
    <3>1. "boundary" \in {"boundary", "halted", "execute", "deliver"}
      BY SMT
    <3> QED  BY <1>1, <3>1, Zenon DEF Cpu
  <2>4. k.pc = "boundary" /\ ~k.halt /\ k.kind = "none" /\ k.errorno = 0 /\ ~k.mixed /\ k.async # 0
    BY <1>1, <1>3, <2>2, SMT DEF Cpu
  <2> HIDE DEF k
  <2> QED  BY <1>1, <1>3, <2>1, <2>2, <2>3, <2>4, LooksStep, Zenon
<1> QED  BY <1>2, <1>4, <1>5, <1>6, <1>7, SMT

\* Software interrupts and faults keep the invariant: they begin with no exception unresolved.
LEMMA RaisesStep ==
  ASSUME EventsIInv, Events!SoftwareInterrupt \/ Events!Faults
  PROVE  EventsIInv'
<1>1. cpu \in Cpu /\ HistoryTyped /\ AsyncSound /\ PlaceSound /\ ChainSound /\ FrameSound
  BY Zenon DEF EventsIInv
<1>2. cpu.pc = "execute" /\ Events!Counted /\ owed' = "no" /\ shadow' = FALSE /\ UNCHANGED hlda
  BY Zenon DEF Events!SoftwareInterrupt, Events!Faults
<1>3. chain = 0 /\ cpu.errorno = 0 /\ ~cpu.mixed
  BY <1>1, <1>2, SMT DEF ChainSound, FrameSound
<1>4. events' \in 0 .. MaxEvents
  <2>1. MaxEvents \in Nat
    BY ConstantsAssumption DEF Events!ConstantsOK
  <2> QED  BY <1>1, <1>2, <2>1, SMT DEF Events!Counted, HistoryTyped
<1>5. /\ cpu' \in Cpu /\ cpu'.pc = "deliver" /\ cpu'.kind \in {"soft", "exception", "double"} /\ cpu'.trap = {}
      /\ ~cpu'.halt /\ cpu'.inhibit = {} /\ cpu'.TF = cpu.TF /\ cpu'.INTR = cpu.INTR /\ cpu'.HRQ = cpu.HRQ
      /\ cpu'.async = cpu.async /\ cpu'.errorno = chain' /\ ~cpu'.mixed /\ ~cpu'.saved
      /\ chain' \in 0 .. 2 /\ (cpu'.kind = "soft" => chain' = 0)
      /\ began' \in {"soft", "exception"} /\ (began' = "exception" => chain' = 1)
  <2>1. CASE Events!SoftwareInterrupt
    <3>1. cpu' = Events!interrupt(cpu, "soft") /\ began' = "soft" /\ chain' = chain
      BY <2>1, Zenon DEF Events!SoftwareInterrupt
    <3> QED  BY <1>1, <1>3, <3>1, InterruptIs, SMT
  <2>2. CASE Events!Faults
    <3>1. PICK class \in Events!Class : cpu' = Events!exception(cpu, class)
      BY <2>2, Zenon DEF Events!Faults
    <3>2. chain' = 1 /\ began' = "exception"
      BY <1>3, <2>2, SMT DEF Events!Faults
    <3> QED  BY <1>1, <1>3, <3>1, <3>2, ExceptionIs, SMT
  <2> QED  BY <2>1, <2>2
<1>6. HistoryTyped'
  <2>1. began' \in {"none", "irq", "soft", "exception"}
    BY <1>5, SMT
  <2> QED  BY <1>1, <1>2, <1>4, <1>5, <2>1, Zenon DEF HistoryTyped
<1>7. AsyncSound'
  BY <1>1, <1>5, Zenon DEF AsyncSound, Events!Pending
<1>8. PlaceSound' /\ StepSound'
  BY <1>2, <1>5, SMT DEF PlaceSound, StepSound
<1>9. ShadowSound' /\ ChainSound' /\ FrameSound'
  BY <1>2, <1>5, SMT DEF ShadowSound, ChainSound, FrameSound
<1> QED  BY <1>5, <1>6, <1>7, <1>8, <1>9, Zenon DEF EventsIInv

\* The lines of the interrupt controller and of the DMA controller keep the invariant.
LEMMA DeviceStep ==
  ASSUME EventsIInv, Events!set_INTR \/ Events!set_HRQ
  PROVE  EventsIInv'
<1>1. cpu \in Cpu /\ HistoryTyped /\ AsyncSound
  BY Zenon DEF EventsIInv
<1>2. cpu.pc \in {"boundary", "halted"} /\ Events!Counted /\ UNCHANGED <<owed, shadow, chain, began, hlda>>
  BY Zenon DEF Events!set_INTR, Events!set_HRQ, Events!Ticking
<1>3. events' \in 0 .. MaxEvents
  <2>1. MaxEvents \in Nat
    BY ConstantsAssumption DEF Events!ConstantsOK
  <2> QED  BY <1>1, <1>2, <2>1, SMT DEF Events!Counted, HistoryTyped
<1>4. 1 \in 0 .. 2
  BY SMT
<1> DEFINE Keeps(k) ==
             /\ k.pc = cpu.pc /\ k.kind = cpu.kind /\ k.trap = cpu.trap /\ k.halt = cpu.halt /\ k.inhibit = cpu.inhibit
             /\ k.errorno = cpu.errorno /\ k.mixed = cpu.mixed
<1>5. \E k \in Cpu : cpu' = k /\ Keeps(k) /\ (Events!Pending(k) \/ k.halt \/ k.inhibit # {} => k.async # 0)
  <2>1. CASE Events!set_INTR
    <3> DEFINE k == [cpu EXCEPT !.INTR = ~@, !.async = 1]
    <3>1. cpu' = k
      BY <1>1, <2>1, SMT DEF Events!set_INTR, Events!Noticed, Cpu
    <3>2. k \in Cpu
      BY <1>1, <1>4, Zenon DEF Cpu
    <3>3. Keeps(k)
      BY <1>1, SMT DEF Cpu
    <3>4. k.async # 0
      BY <1>1, SMT DEF Cpu
    <3> QED  BY <3>1, <3>2, <3>3, <3>4, Zenon
  <2>2. CASE Events!set_HRQ /\ ~cpu.HRQ
    <3> DEFINE k == [cpu EXCEPT !.HRQ = TRUE, !.async = 1]
    <3>1. cpu' = k
      BY <1>1, <2>2, SMT DEF Events!set_HRQ, Events!Noticed, Cpu
    <3>2. k \in Cpu
      BY <1>1, <1>4, Zenon DEF Cpu
    <3>3. Keeps(k)
      BY <1>1, SMT DEF Cpu
    <3>4. k.async # 0
      BY <1>1, SMT DEF Cpu
    <3> QED  BY <3>1, <3>2, <3>3, <3>4, Zenon
  <2>3. CASE Events!set_HRQ /\ cpu.HRQ
    <3> DEFINE k == [cpu EXCEPT !.HRQ = FALSE]
    <3>1. cpu' = k
      BY <2>3, Zenon DEF Events!set_HRQ
    <3>2. k \in Cpu
      BY <1>1, <1>4, Zenon DEF Cpu
    <3>3. Keeps(k)
      BY <1>1, SMT DEF Cpu
    <3>4. cpu.async # 0
      BY <1>1, <2>3, Zenon DEF AsyncSound, Events!Pending
    <3>5. k.async # 0
      BY <1>1, <3>4, SMT DEF Cpu
    <3> QED  BY <3>1, <3>2, <3>3, <3>5, Zenon
  <2> QED  BY <2>1, <2>2, <2>3
<1> QED  BY <1>2, <1>3, <1>5, SignalStep, Zenon

\* Every action of the CPU's loop and of the devices keeps the invariant.
LEMMA EventsStep ==
  ASSUME EventsIInv, [Events!Next]_(Events!vars)
  PROVE  EventsIInv'
<1>1. CASE Events!ResetByPort \/ Events!HostReset
  <2>1. /\ cpu.pc \in {"boundary", "halted", "execute"} /\ Events!Counted
        /\ cpu' = Events!Reset(cpu.INTR, cpu.HRQ) /\ owed' = "no" /\ shadow' = FALSE /\ UNCHANGED <<chain, began, hlda>>
    BY <1>1, SMT DEF Events!ResetByPort, Events!HostReset, Events!Ticking
  <2>2. events' \in 0 .. MaxEvents
    <3>1. MaxEvents \in Nat
      BY ConstantsAssumption DEF Events!ConstantsOK
    <3> QED  BY <2>1, <3>1, SMT DEF Events!Counted, EventsIInv, HistoryTyped
  <2> QED  BY <2>1, <2>2, ResetStep, Zenon
<1>2. CASE UNCHANGED Events!vars
  <2>1. UNCHANGED <<cpu, owed, shadow, chain, began, hlda, events>>
    BY <1>2, Zenon DEF Events!vars
  <2>2. cpu \in Cpu /\ HistoryTyped => cpu' \in Cpu /\ HistoryTyped'
    BY ONLY <2>1, Zenon DEF HistoryTyped
  <2>3. (AsyncSound => AsyncSound') /\ (PlaceSound => PlaceSound')
    BY ONLY <2>1, Zenon DEF AsyncSound, PlaceSound, Events!Pending
  <2>4. (StepSound => StepSound') /\ (ShadowSound => ShadowSound')
    BY ONLY <2>1, Zenon DEF StepSound, ShadowSound
  <2>5. (ChainSound => ChainSound') /\ (FrameSound => FrameSound')
    BY ONLY <2>1, Zenon DEF ChainSound, FrameSound
  <2> QED  BY <2>2, <2>3, <2>4, <2>5, Zenon DEF EventsIInv
<1>3. CASE Events!Delivered \/ Events!DeliveryFails
  BY <1>3, DeliveredStep, DeliveryFailsStep, Zenon
<1>4. CASE Events!AtBoundary \/ Events!Awakens
  BY <1>4, BoundaryStep, Zenon
<1>5. CASE \/ Events!AnyOther \/ Events!CLI \/ Events!STI \/ Events!LoadSS \/ Events!LoadFlags
           \/ Events!HLT \/ Events!task_switch
  BY <1>5, InstructionStep, Zenon
<1>6. CASE Events!SoftwareInterrupt \/ Events!Faults
  BY <1>6, RaisesStep, Zenon
<1>7. CASE Events!set_INTR \/ Events!set_HRQ
  BY <1>7, DeviceStep, Zenon
<1>8. \/ Events!Next
      \/ UNCHANGED Events!vars
  OBVIOUS
<1> QED  BY ONLY <1>1, <1>2, <1>3, <1>4, <1>5, <1>6, <1>7, <1>8, Zenon DEF Events!Next, Events!Runs

\* What the run checks of the CPU's loop follows from the invariant.
LEMMA EventsSound ==
  ASSUME EventsIInv
  PROVE  /\ Events!TypeOK /\ Events!NothingForgotten /\ Events!OnlyHltLosesStep /\ Events!ShadowHolds
         /\ Events!DoubleFaultIsReal /\ Events!OnlyInterruptsMixFrames
<1> USE DEF EventsIInv
<1>1. Events!TypeOK
  <2>1. /\ cpu.pc \in {"boundary", "halted", "execute", "deliver"}
        /\ cpu.async \in 0 .. 2 /\ cpu.errorno \in 0 .. 2 /\ cpu.first \in Events!Class
        /\ cpu.trap \subseteq {"step", "task"} /\ cpu.inhibit \subseteq {"interrupts", "debug"}
        /\ cpu.kind \in {"none", "irq", "soft", "exception", "double"}
    BY SMT DEF Cpu
  <2>2. {cpu.If, cpu.TF, cpu.INTR, cpu.HRQ, cpu.halt, cpu.mixed, cpu.saved} \subseteq BOOLEAN
    BY SMT DEF Cpu
  <2>3. chain \in 0 .. 3
    BY SMT DEF HistoryTyped
  <2> QED  BY <2>1, <2>2, <2>3, Zenon DEF Events!TypeOK, HistoryTyped
<1>2. Events!NothingForgotten
  BY Zenon DEF Events!NothingForgotten, AsyncSound
<1>3. Events!OnlyHltLosesStep
  BY SMT DEF Events!OnlyHltLosesStep, StepSound, PlaceSound
<1>4. Events!ShadowHolds
  BY SMT DEF Events!ShadowHolds, ShadowSound, PlaceSound
<1>5. Events!DoubleFaultIsReal
  BY Zenon DEF Events!DoubleFaultIsReal, ChainSound
<1>6. Events!OnlyInterruptsMixFrames
  BY SMT DEF Events!OnlyInterruptsMixFrames, FrameSound, HistoryTyped
<1> QED  BY <1>1, <1>2, <1>3, <1>4, <1>5, <1>6

-----------------------------------------------------------------------------
(* The interval timer (Pit).                                               *)

\* The timer's registers and the other variables.
Registers ==
  [mode : {0, 2, 3}, counter_max : 0 .. (Timer!Wrap - 1), counter : 0 .. (Timer!Wrap - 1),
   input : 0 .. (Timer!Wrap - 1), inputToggle : BOOLEAN, outputToggle : BOOLEAN, outputFull : BOOLEAN,
   GATE : BOOLEAN, OUT : BOOLEAN, active : BOOLEAN]

CountsTyped ==
  /\ timer \in Registers /\ pic \in Timer!IrqType({0}) /\ unit \in Units
  /\ writes \in 0 .. MaxCounts /\ ticks \in -1 .. Timer!Wrap

\* The first byte that is written of a count is one digit.
InputSound == timer.inputToggle => timer.input < Digit

\* A latched count has been read up to the byte that the pair says.
LatchSound ==
  /\ pair \in {"none", "latched", "low"}
  /\ pair = "latched" => timer.outputFull /\ ~timer.outputToggle
  /\ pair = "low" => timer.outputFull /\ timer.outputToggle

\* A one-shot whose output is low has counted down by its ticks, and its count has not
\* run out.
OneShotSound ==
  /\ ticks # -1 => timer.mode = 0
  /\ ticks \in 0 .. (Timer!Wrap - 1) /\ timer.GATE /\ ~timer.OUT =>
       /\ timer.active
       /\ IF timer.counter_max # 0 THEN timer.counter = timer.counter_max - ticks * Delta /\ timer.counter > 0
          ELSE IF ticks = 0 THEN timer.counter = 0
          ELSE timer.counter = Timer!Wrap - 1 - (ticks - 1) * Delta /\ timer.counter > 0

\* The inductive invariant of the timer.
TimerIInv == CountsTyped /\ InputSound /\ LatchSound /\ OneShotSound

\* Two digits make a count below the base squared: a count that the guest writes in two bytes
\* fits the timer's registers.
LEMMA DigitsOfCount ==
  ASSUME NEW low \in 0 .. (Digit - 1), NEW high \in 0 .. (Digit - 1)
  PROVE  /\ Timer!Wrap \in Nat /\ Timer!Wrap >= 4 /\ Digit - 1 < Timer!Wrap
         /\ low + Digit * high \in 0 .. (Timer!Wrap - 1)
<1>1. Digit \in Nat /\ Digit >= 2
  BY ConstantsAssumption, SMT DEF Timer!ConstantsOK
<1>2. Digit * Digit >= 2 * Digit
  BY <1>1, SMT
<1>3. Digit * high \in Nat /\ Digit * high <= Digit * (Digit - 1)
  BY <1>1, SMT
<1>4. Digit * (Digit - 1) = Digit * Digit - Digit /\ Digit * Digit \in Nat
  BY <1>1, SMT
<1> QED  BY <1>1, <1>2, <1>3, <1>4, SMT DEF Timer!Wrap

\* What a tick adds to the time that has passed.
LEMMA OneMoreTick ==
  ASSUME NEW n \in Int
  PROVE  n * Delta \in Int /\ (n + 1) * Delta = n * Delta + Delta /\ 0 * Delta = 0 /\ (-1) * Delta = - Delta
<1>1. Delta \in Int
  <2>1. Delta \in 1 .. (Timer!Wrap - 1)
    BY ConstantsAssumption DEF Timer!ConstantsOK
  <2> QED  BY <2>1, SMT
<1> QED  BY <1>1, SMT

\* What the assumption on the constants says of the timer's.
LEMMA TimerConstants ==
  /\ Timer!Wrap \in Nat /\ Timer!Wrap >= 4 /\ Digit \in Nat /\ Digit >= 2 /\ Digit < Timer!Wrap
  /\ Delta \in 1 .. (Timer!Wrap - 1) /\ MaxCounts \in Nat /\ LowDigits \union HighDigits \subseteq 0 .. (Digit - 1)
<1>1. /\ Digit \in Nat /\ Digit >= 2 /\ MaxCounts \in Nat /\ LowDigits \union HighDigits \subseteq 0 .. (Digit - 1)
      /\ Delta \in 1 .. (Timer!Wrap - 1)
  BY ConstantsAssumption, SMT DEF Timer!ConstantsOK
<1>2. Digit * Digit \in Nat /\ Digit * Digit >= 2 * Digit
  BY <1>1, SMT
<1> QED  BY <1>1, <1>2, SMT DEF Timer!Wrap

\* The invariant holds of a timer that has been reset.
LEMMA TimerInit ==
  Timer!Init => TimerIInv
<1> SUFFICES ASSUME Timer!Init PROVE TimerIInv
  OBVIOUS
<1> USE TimerConstants
<1>1. 0 \in 0 .. (Timer!Wrap - 1) /\ 3 \in {0, 2, 3} /\ 0 \in 0 .. MaxCounts /\ -1 \in -1 .. Timer!Wrap
  BY SMT
<1>2. timer \in Registers
  BY <1>1, Zenon DEF Timer!Init, Registers
<1>3. pic \in Timer!IrqType({0})
  BY SMT DEF Timer!Init, Timer!NoIrq, Timer!IrqType
<1>4. CountsTyped
  BY <1>1, <1>2, <1>3, Zenon DEF Timer!Init, CountsTyped
<1>5. ~timer.inputToggle /\ pair = "none" /\ ticks = -1
  BY SMT DEF Timer!Init
<1> QED  BY <1>4, <1>5, SMT DEF TimerIInv, InputSound, LatchSound, OneShotSound

\* The control word keeps the invariant: it drops the byte that was written and ends the one-shot.
LEMMA SetModeStep ==
  ASSUME TimerIInv, NEW m \in {0, 2, 3}, Timer!SetMode(m)
  PROVE  TimerIInv'
<1> USE TimerConstants DEF TimerIInv
<1>1. timer \in Registers /\ 0 \in 0 .. (Timer!Wrap - 1) /\ -1 \in -1 .. Timer!Wrap
  BY SMT DEF CountsTyped
<1>2. timer' = [timer EXCEPT !.mode = m, !.input = 0, !.inputToggle = FALSE] /\ ticks' = -1 /\ UNCHANGED <<unit, pic, pair>>
  BY Zenon DEF Timer!SetMode
<1>3. timer' \in Registers
  BY <1>1, <1>2, Zenon DEF Registers
<1>4. writes' \in 0 .. MaxCounts
  BY SMT DEF Timer!SetMode, Timer!Written, CountsTyped
<1>5. ~timer'.inputToggle /\ timer'.outputFull = timer.outputFull /\ timer'.outputToggle = timer.outputToggle
  BY <1>1, <1>2, SMT DEF Registers
<1>6. CountsTyped'
  BY <1>1, <1>2, <1>3, <1>4, Zenon DEF CountsTyped
<1>7. LatchSound'
  BY <1>2, <1>5, Zenon DEF LatchSound
<1> QED  BY <1>2, <1>5, <1>6, <1>7, SMT DEF InputSound, OneShotSound

\* Writing a byte of a count keeps the invariant: a complete count ends the latched one, and in
\* mode 0 starts a one-shot that has not ticked.
LEMMA WriteStep ==
  ASSUME TimerIInv, NEW d \in LowDigits \union HighDigits, Timer!write_count_reg(d)
  PROVE  TimerIInv'
<1> USE TimerConstants DEF TimerIInv
<1>1. timer \in Registers /\ d \in 0 .. (Digit - 1) /\ Timer!Written /\ UNCHANGED <<unit, pic>>
  BY SMT DEF CountsTyped, Timer!write_count_reg
<1>2. writes' \in 0 .. MaxCounts
  BY <1>1, SMT DEF Timer!Written, CountsTyped
<1>3. CASE ~timer.inputToggle
  <2>1. timer' = [timer EXCEPT !.input = d, !.inputToggle = TRUE] /\ UNCHANGED <<ticks, pair>>
    BY <1>3, Zenon DEF Timer!write_count_reg
  <2>2. d \in 0 .. (Timer!Wrap - 1) /\ d < Digit
    BY <1>1, SMT
  <2>3. timer' \in Registers
    BY <1>1, <2>1, <2>2, Zenon DEF Registers
  <2>4. /\ timer'.input = d /\ timer'.mode = timer.mode /\ timer'.counter = timer.counter /\ timer'.counter_max = timer.counter_max
        /\ timer'.GATE = timer.GATE /\ timer'.OUT = timer.OUT /\ timer'.active = timer.active
        /\ timer'.outputFull = timer.outputFull /\ timer'.outputToggle = timer.outputToggle
    BY <1>1, <2>1, SMT DEF Registers
  <2>5. CountsTyped'
    BY <1>1, <1>2, <2>1, <2>3, Zenon DEF CountsTyped
  <2>6. InputSound' /\ LatchSound'
    BY <2>1, <2>2, <2>4, Zenon DEF InputSound, LatchSound
  <2>7. OneShotSound'
    BY <2>1, <2>4, Zenon DEF OneShotSound
  <2> QED  BY <2>5, <2>6, <2>7, Zenon
<1>4. CASE timer.inputToggle
  <2> DEFINE n == timer.input + Digit * d
             max == IF timer.mode = 3 THEN n - (n % 2) ELSE n
  <2>1. timer' = Timer!NewCount(timer, n) /\ ticks' = (IF timer.mode = 0 THEN 0 ELSE -1) /\ pair' = "none"
    BY <1>4, Zenon DEF Timer!write_count_reg
  <2>2. n \in 0 .. (Timer!Wrap - 1)
    <3>1. timer.input \in 0 .. (Digit - 1)
      BY <1>1, <1>4, SMT DEF InputSound, Registers
    <3> QED  BY <1>1, <3>1, DigitsOfCount, Zenon
  <2> HIDE DEF n
  <2>3. max \in 0 .. (Timer!Wrap - 1)
    BY <2>2, SMT
  <2> DEFINE u == [timer EXCEPT !.counter_max = max, !.input = n, !.inputToggle = FALSE, !.outputFull = FALSE]
  <2>4. u \in Registers
    BY <1>1, <2>2, <2>3, Zenon DEF Registers
  <2>5. timer' = (IF timer.mode = 0
                  THEN [u EXCEPT !.counter = max, !.active = TRUE, !.OUT = IF timer.GATE THEN FALSE ELSE u.OUT]
                  ELSE IF timer.GATE /\ ~timer.active THEN [u EXCEPT !.counter = max, !.active = TRUE, !.OUT = TRUE]
                  ELSE u)
    BY <2>1, Zenon DEF Timer!NewCount
  <2>6. ~u.inputToggle /\ u.counter_max = max /\ u.GATE = timer.GATE /\ u.mode = timer.mode
    BY <1>1, SMT DEF Registers
  <2> HIDE DEF u, max
  <2>7. timer' \in Registers
    <3>1. [u EXCEPT !.counter = max, !.active = TRUE, !.OUT = IF timer.GATE THEN FALSE ELSE u.OUT] \in Registers
      BY ONLY <2>3, <2>4, Zenon DEF Registers
    <3>2. [u EXCEPT !.counter = max, !.active = TRUE, !.OUT = TRUE] \in Registers
      BY ONLY <2>3, <2>4, Zenon DEF Registers
    <3> QED  BY ONLY <2>4, <2>5, <3>1, <3>2, Zenon
  <2>8. /\ ~timer'.inputToggle /\ timer'.mode = timer.mode
        /\ (timer.mode = 0 => timer'.counter_max = max /\ timer'.counter = max /\ timer'.active)
    BY <2>4, <2>5, <2>6, SMT DEF Registers
  <2>9. ticks' \in {-1, 0} /\ ticks' \in -1 .. Timer!Wrap
    BY <2>1, SMT
  <2>10. CountsTyped'
    BY <1>1, <1>2, <2>7, <2>9, Zenon DEF CountsTyped
  <2>11. InputSound' /\ LatchSound'
    BY <2>1, <2>8, SMT DEF InputSound, LatchSound
  <2>12. OneShotSound'
    BY <2>1, <2>3, <2>8, OneMoreTick, SMT DEF OneShotSound
  <2> QED  BY <2>10, <2>11, <2>12, Zenon
<1> QED  BY <1>3, <1>4

\* The latch command and the reads keep the invariant: a count that is latched is not latched
\* again before its second byte is read.
LEMMA LatchStep ==
  ASSUME TimerIInv, Timer!latch \/ Timer!read_counter
  PROVE  TimerIInv'
<1> USE TimerConstants DEF TimerIInv
<1>1. timer \in Registers /\ UNCHANGED <<unit, pic, writes, ticks>>
  BY Zenon DEF CountsTyped, Timer!latch, Timer!read_counter
<1>2. PICK toggle \in BOOLEAN, full \in BOOLEAN :
        /\ timer' = [timer EXCEPT !.outputToggle = toggle, !.outputFull = full]
        /\ pair' \in {"none", "latched", "low"}
        /\ pair' = "latched" => full /\ ~toggle
        /\ pair' = "low" => full /\ toggle
  <2>1. CASE Timer!latch
    <3>1. timer' = [timer EXCEPT !.outputToggle = FALSE, !.outputFull = TRUE] /\ pair' = "latched"
      BY <2>1, Zenon DEF Timer!latch
    <3>2. "latched" \in {"none", "latched", "low"} /\ "latched" # "low"
      BY SMT
    <3> QED  BY <3>1, <3>2, Zenon
  <2>2. CASE Timer!read_counter
    <3> DEFINE toggle == ~timer.outputToggle
               full == timer.outputFull /\ ~timer.outputToggle
    <3>1. timer' = [timer EXCEPT !.outputToggle = toggle, !.outputFull = full]
      BY <2>2, Zenon DEF Timer!read_counter
    <3>2. /\ pair' \in {"none", "latched", "low"}
          /\ pair' = "latched" => FALSE
          /\ pair' = "low" => timer.outputFull /\ ~timer.outputToggle
      <4>1. CASE pair = "none"
        <5>1. pair' = "none"
          BY <2>2, <4>1, SMT DEF Timer!read_counter
        <5> QED  BY <5>1, SMT
      <4>2. CASE pair = "latched"
        <5>1. timer.outputFull /\ ~timer.outputToggle
          BY <4>2, Zenon DEF LatchSound
        <5>2. pair' = "low"
          BY <2>2, <4>2, <5>1, SMT DEF Timer!read_counter
        <5> QED  BY <5>1, <5>2, SMT
      <4>3. CASE pair = "low"
        <5>1. timer.outputToggle
          BY <4>3, Zenon DEF LatchSound
        <5>2. pair' = "none"
          BY <2>2, <4>3, <5>1, SMT DEF Timer!read_counter
        <5> QED  BY <5>2, SMT
      <4> QED  BY <4>1, <4>2, <4>3, SMT DEF LatchSound
    <3> QED  BY <3>1, <3>2, Zenon
  <2> QED  BY <2>1, <2>2
<1>3. timer' \in Registers
  BY <1>1, <1>2, Zenon DEF Registers
<1>4. /\ timer'.inputToggle = timer.inputToggle /\ timer'.input = timer.input /\ timer'.mode = timer.mode
      /\ timer'.counter = timer.counter /\ timer'.counter_max = timer.counter_max
      /\ timer'.GATE = timer.GATE /\ timer'.OUT = timer.OUT /\ timer'.active = timer.active
      /\ timer'.outputFull = full /\ timer'.outputToggle = toggle
  BY <1>1, <1>2, SMT DEF Registers
<1>5. CountsTyped'
  BY <1>1, <1>3, Zenon DEF CountsTyped
<1>6. InputSound' /\ LatchSound'
  BY <1>2, <1>4, Zenon DEF InputSound, LatchSound
<1>7. OneShotSound'
  BY <1>1, <1>4, Zenon DEF OneShotSound
<1> QED  BY <1>5, <1>6, <1>7, Zenon

\* Raising the gate starts a one-shot again from its count, lowering it ends the history of it.
LEMMA GateStep ==
  ASSUME TimerIInv, NEW v \in BOOLEAN, Timer!set_GATE(v)
  PROVE  TimerIInv'
<1> USE TimerConstants DEF TimerIInv
<1>1. timer \in Registers /\ UNCHANGED <<unit, pic, writes, pair>> /\ v # timer.GATE
  BY Zenon DEF CountsTyped, Timer!set_GATE
<1>2. /\ timer.counter_max \in 0 .. (Timer!Wrap - 1) /\ timer.active \in BOOLEAN /\ timer.OUT \in BOOLEAN
      /\ timer.counter \in 0 .. (Timer!Wrap - 1)
  BY <1>1, SMT DEF Registers
<1>3. timer' =
        IF v THEN [timer EXCEPT !.GATE = TRUE, !.counter = timer.counter_max,
                                !.active = timer.active \/ timer.mode # 0,
                                !.OUT = IF timer.mode # 0 THEN TRUE ELSE timer.OUT /\ ~timer.active]
        ELSE IF timer.mode = 0 THEN [timer EXCEPT !.GATE = FALSE]
        ELSE [timer EXCEPT !.GATE = FALSE, !.active = FALSE, !.OUT = TRUE]
  BY Zenon DEF Timer!set_GATE
<1>4. ticks' = IF v /\ timer.mode = 0 /\ timer.active THEN 0 ELSE -1
  BY Zenon DEF Timer!set_GATE
<1>5. timer' \in Registers
  BY <1>1, <1>2, <1>3, Zenon DEF Registers
<1>6. /\ timer'.inputToggle = timer.inputToggle /\ timer'.input = timer.input /\ timer'.mode = timer.mode
      /\ timer'.outputFull = timer.outputFull /\ timer'.outputToggle = timer.outputToggle
      /\ timer'.counter_max = timer.counter_max
  BY <1>1, <1>3, SMT DEF Registers
<1>7. v => timer'.counter = timer.counter_max /\ timer'.active = (timer.active \/ timer.mode # 0)
  BY <1>1, <1>3, SMT DEF Registers
<1>8. ticks' \in {-1, 0} /\ ticks' \in -1 .. Timer!Wrap
  BY <1>4, SMT
<1>9. CountsTyped'
  BY <1>1, <1>5, <1>8, Zenon DEF CountsTyped
<1>10. InputSound' /\ LatchSound'
  BY <1>1, <1>6, Zenon DEF InputSound, LatchSound
<1>11. ticks' # -1 => ticks' = 0 /\ timer'.mode = 0 /\ timer'.active /\ timer'.counter = timer'.counter_max
  BY <1>4, <1>6, <1>7, SMT
<1>12. OneShotSound'
  BY <1>2, <1>6, <1>11, OneMoreTick, SMT DEF OneShotSound
<1> QED  BY <1>9, <1>10, <1>12, Zenon

\* The registers of a timer are those of a timer with another count and output.
LEMMA CountingKeeps ==
  ASSUME NEW t \in Registers, NEW n \in 0 .. (Timer!Wrap - 1), NEW out \in BOOLEAN
  PROVE  [t EXCEPT !.counter = n] \in Registers /\ [t EXCEPT !.counter = n, !.OUT = out] \in Registers
BY Zenon DEF Registers

\* What a tick does to a timer that counts: its registers stay in range, and in mode 0 the count
\* goes down by the tick until it has run out, when the output rises.
LEMMA CountIs ==
  ASSUME NEW t \in Registers
  PROVE  LET r == Timer!Count(t)
         IN  /\ r \in Registers /\ r.mode = t.mode /\ r.counter_max = t.counter_max /\ r.input = t.input
             /\ r.inputToggle = t.inputToggle /\ r.outputFull = t.outputFull /\ r.outputToggle = t.outputToggle
             /\ r.GATE = t.GATE /\ r.active = t.active
             /\ t.mode = 0 =>
                  /\ t.counter = 0 => r.counter = Timer!Wrap - 1 /\ r.OUT = t.OUT
                  /\ 0 < t.counter /\ t.counter <= Delta => r.OUT
                  /\ t.counter > Delta => r.counter = t.counter - Delta /\ r.OUT = t.OUT
<1> USE TimerConstants
<1> DEFINE c == t.counter
           top == Timer!Wrap - 1
           r == Timer!Count(t)
           Keeps ==
             /\ r.mode = t.mode /\ r.counter_max = t.counter_max /\ r.input = t.input
             /\ r.inputToggle = t.inputToggle /\ r.outputFull = t.outputFull /\ r.outputToggle = t.outputToggle
             /\ r.GATE = t.GATE /\ r.active = t.active
<1>1. /\ t.mode \in {0, 2, 3} /\ c \in 0 .. top /\ t.counter_max \in 0 .. top /\ t.OUT \in BOOLEAN
      /\ top \in 0 .. top /\ top - 1 \in 0 .. top /\ 0 \in 0 .. top /\ 1 \in 0 .. top
      /\ (~(Delta >= c) => c - Delta \in 0 .. top) /\ (~(2 * Delta >= c) => c - 2 * Delta \in 0 .. top)
  BY SMT DEF Registers
<1>2. CASE t.mode = 0
  <2>1. r = IF c = 0 THEN [t EXCEPT !.counter = top]
            ELSE IF Delta >= c THEN [t EXCEPT !.counter = 0, !.OUT = TRUE]
            ELSE [t EXCEPT !.counter = c - Delta]
    BY <1>2, SMT DEF Timer!Count
  <2>2. r \in Registers
    BY <1>1, <2>1, CountingKeeps, Zenon
  <2>3. Keeps
    BY <2>1, SMT DEF Registers
  <2>4. /\ c = 0 => r.counter = top /\ r.OUT = t.OUT
        /\ 0 < c /\ c <= Delta => r.OUT
        /\ c > Delta => r.counter = c - Delta /\ r.OUT = t.OUT
    <3>1. CASE c = 0
      BY <1>1, <2>1, <3>1, SMT DEF Registers
    <3>2. CASE c # 0 /\ Delta >= c
      <4>1. r.OUT
        BY <2>1, <3>2, SMT DEF Registers
      <4>2. ~(c = 0) /\ ~(c > Delta)
        BY <1>1, <3>2, SMT
      <4> QED  BY <4>1, <4>2, Zenon
    <3>3. CASE ~(Delta >= c)
      BY <1>1, <2>1, <3>3, SMT DEF Registers
    <3> QED  BY <3>1, <3>2, <3>3
  <2> QED  BY <2>2, <2>3, <2>4, Zenon
<1>3. CASE t.mode = 2
  <2>1. r = IF c = 0 THEN [t EXCEPT !.counter = top, !.OUT = TRUE]
            ELSE IF c = 1 THEN [t EXCEPT !.counter = t.counter_max, !.OUT = TRUE]
            ELSE IF c = 2 \/ Delta >= c - 1 THEN [t EXCEPT !.counter = 1, !.OUT = FALSE]
            ELSE [t EXCEPT !.counter = c - Delta]
    BY <1>3, SMT DEF Timer!Count
  <2>2. c # 0 /\ ~(Delta >= c - 1) => c - Delta \in 0 .. top
    BY <1>1, SMT
  <2>3. r \in Registers
    <3>1. CASE c \in {0, 1}
      BY <1>1, <2>1, <3>1, CountingKeeps, Zenon
    <3>2. CASE c \notin {0, 1} /\ (c = 2 \/ Delta >= c - 1)
      BY <1>1, <2>1, <3>2, CountingKeeps, Zenon
    <3>3. CASE c \notin {0, 1} /\ ~(c = 2 \/ Delta >= c - 1)
      BY <1>1, <2>1, <2>2, <3>3, Zenon DEF Registers
    <3> QED  BY <3>1, <3>2, <3>3, Zenon
  <2>4. Keeps
    BY <2>1, SMT DEF Registers
  <2> QED  BY <1>3, <2>3, <2>4, SMT
<1>4. CASE t.mode = 3
  <2>1. r = IF c = 0 THEN [t EXCEPT !.counter = Timer!Wrap - 2]
            ELSE IF c <= 2 \/ 2 * Delta >= c THEN [t EXCEPT !.counter = t.counter_max, !.OUT = ~@]
            ELSE [t EXCEPT !.counter = c - 2 * Delta]
    BY <1>4, SMT DEF Timer!Count
  <2>2. Timer!Wrap - 2 \in 0 .. top
    BY SMT
  <2>3. r \in Registers
    <3>1. CASE c = 0
      BY <1>1, <2>1, <2>2, <3>1, CountingKeeps, Zenon
    <3>2. CASE c # 0 /\ (c <= 2 \/ 2 * Delta >= c)
      BY <1>1, <2>1, <3>2, Zenon DEF Registers
    <3>3. CASE c # 0 /\ ~(c <= 2 \/ 2 * Delta >= c)
      BY <1>1, <2>1, <3>3, Zenon DEF Registers
    <3> QED  BY <3>1, <3>2, <3>3, Zenon
  <2>4. Keeps
    BY <2>1, SMT DEF Registers
  <2> QED  BY <1>4, <2>3, <2>4, SMT
<1> QED  BY <1>1, <1>2, <1>3, <1>4, SMT

\* The device tick keeps the invariant: a one-shot whose output is still low after it has not run
\* out of its count.
LEMMA PeriodicStep ==
  ASSUME TimerIInv, Timer!periodic
  PROVE  TimerIInv'
<1> USE TimerConstants DEF TimerIInv
<1>1. timer \in Registers /\ UNCHANGED <<unit, writes, pair>>
  BY Zenon DEF CountsTyped, Timer!periodic
<1>2. timer' = IF timer.GATE /\ timer.active THEN Timer!Count(timer) ELSE timer
  BY Zenon DEF Timer!periodic
<1>3. timer' \in Registers
  BY <1>1, <1>2, CountIs, Zenon
<1>4. /\ timer'.mode = timer.mode /\ timer'.counter_max = timer.counter_max /\ timer'.input = timer.input
      /\ timer'.inputToggle = timer.inputToggle /\ timer'.outputFull = timer.outputFull
      /\ timer'.outputToggle = timer.outputToggle /\ timer'.GATE = timer.GATE /\ timer'.active = timer.active
  BY <1>1, <1>2, CountIs, Zenon
<1>5. pic' \in Timer!IrqType({0})
  BY SMT DEF CountsTyped, Timer!periodic, Timer!IrqType, Timer!raise_irq, Timer!lower_irq
<1>6. ticks' = (IF ticks \in 0 .. (Timer!Wrap - 1) /\ timer.GATE THEN ticks + 1 ELSE ticks) /\ ticks' \in -1 .. Timer!Wrap
  BY SMT DEF CountsTyped, Timer!periodic
<1>7. CountsTyped'
  BY <1>1, <1>3, <1>5, <1>6, Zenon DEF CountsTyped
<1>8. InputSound' /\ LatchSound'
  BY <1>1, <1>4, Zenon DEF InputSound, LatchSound
<1>9. ticks' # -1 => timer'.mode = 0
  BY <1>4, <1>6, SMT DEF OneShotSound
<1>10. ASSUME ticks' \in 0 .. (Timer!Wrap - 1), timer'.GATE, ~timer'.OUT
       PROVE  /\ timer'.active
              /\ IF timer'.counter_max # 0 THEN timer'.counter = timer'.counter_max - ticks' * Delta /\ timer'.counter > 0
                 ELSE IF ticks' = 0 THEN timer'.counter = 0
                 ELSE timer'.counter = Timer!Wrap - 1 - (ticks' - 1) * Delta /\ timer'.counter > 0
  <2>1. ticks \in 0 .. (Timer!Wrap - 1) /\ ticks' = ticks + 1 /\ timer.GATE /\ timer.mode = 0
    BY <1>4, <1>6, <1>9, <1>10, SMT DEF CountsTyped
  <2>2. /\ timer.counter \in 0 .. (Timer!Wrap - 1) /\ timer.counter_max \in 0 .. (Timer!Wrap - 1)
        /\ timer'.counter \in 0 .. (Timer!Wrap - 1)
    BY <1>1, <1>3, SMT DEF Registers
  <2>3. timer.counter = 0 \/ (0 < timer.counter /\ timer.counter <= Delta) \/ timer.counter > Delta
    BY <2>2, SMT
  <2>4. ~timer.OUT
    BY <1>1, <1>2, <1>10, <2>1, <2>3, CountIs, Zenon
  <2>5. /\ timer.active
        /\ IF timer.counter_max # 0 THEN timer.counter = timer.counter_max - ticks * Delta /\ timer.counter > 0
           ELSE IF ticks = 0 THEN timer.counter = 0
           ELSE timer.counter = Timer!Wrap - 1 - (ticks - 1) * Delta /\ timer.counter > 0
    BY <2>1, <2>4, Zenon DEF OneShotSound
  <2>6. timer' = Timer!Count(timer)
    BY <1>2, <2>1, <2>5, Zenon
  <2>7. /\ timer.counter = 0 => timer'.counter = Timer!Wrap - 1
        /\ ~(0 < timer.counter /\ timer.counter <= Delta)
        /\ timer.counter > Delta => timer'.counter = timer.counter - Delta
    BY <1>1, <1>10, <2>1, <2>6, CountIs, Zenon
  <2>8. /\ ticks * Delta \in Int /\ (ticks + 1) * Delta = ticks * Delta + Delta
        /\ (ticks - 1) * Delta \in Int /\ ((ticks - 1) + 1) * Delta = (ticks - 1) * Delta + Delta
        /\ 0 * Delta = 0
    <3>1. ticks \in Int /\ ticks - 1 \in Int
      BY <2>1, SMT
    <3> QED  BY <3>1, OneMoreTick, Zenon
  <2>9. (ticks - 1) + 1 = ticks /\ ticks' - 1 = ticks /\ ticks' # 0
    BY <2>1, SMT
  <2>10. CASE timer.counter_max # 0
    BY <1>4, <2>1, <2>2, <2>3, <2>5, <2>7, <2>8, <2>10, SMT
  <2>11. CASE timer.counter_max = 0 /\ ticks = 0
    BY <1>4, <2>1, <2>2, <2>3, <2>5, <2>7, <2>8, <2>11, SMT
  <2>12. CASE timer.counter_max = 0 /\ ticks # 0
    BY <1>4, <2>1, <2>2, <2>3, <2>5, <2>7, <2>8, <2>9, <2>12, SMT
  <2> QED  BY <2>10, <2>11, <2>12
<1> QED  BY <1>7, <1>8, <1>9, <1>10, SMT DEF OneShotSound

\* Every access of the guest to the timer, every tick and every acknowledge keeps the invariant.
LEMMA TimerStep ==
  ASSUME TimerIInv, [Timer!Next]_(Timer!vars)
  PROVE  TimerIInv'
<1>1. CASE Timer!TakeInterrupt
  <2>1. UNCHANGED <<unit, timer, writes, ticks, pair>>
    BY <1>1, Zenon DEF Timer!TakeInterrupt
  <2>2. pic' \in Timer!IrqType({0})
    BY <1>1, SMT DEF TimerIInv, CountsTyped, Timer!TakeInterrupt, Timer!IrqType, Timer!take_irq
  <2> QED  BY <2>1, <2>2, Zenon DEF TimerIInv, CountsTyped, InputSound, LatchSound, OneShotSound
<1>2. CASE UNCHANGED Timer!vars
  BY <1>2, Zenon DEF Timer!vars, TimerIInv, CountsTyped, InputSound, LatchSound, OneShotSound
<1> QED  BY <1>1, <1>2, SetModeStep, WriteStep, LatchStep, GateStep, PeriodicStep, Zenon DEF Timer!Next

\* What the run checks of the timer follows from the invariant.
LEMMA TimerSound ==
  ASSUME TimerIInv
  PROVE  Timer!TypeOK /\ Timer!LatchedReadIsWhole /\ Timer!OneShotOnTime
<1> USE TimerConstants DEF TimerIInv
<1>1. Timer!TypeOK
  <2>1. pair \in {"none", "latched", "low", "torn"}
    BY SMT DEF LatchSound
  <2> QED  BY <2>1, Zenon DEF Timer!TypeOK, CountsTyped, Registers
<1>2. Timer!LatchedReadIsWhole
  BY SMT DEF Timer!LatchedReadIsWhole, LatchSound
<1>3. Timer!OneShotOnTime
  <2> SUFFICES ASSUME ticks \in 0 .. (Timer!Wrap - 1), timer.GATE, ~timer.OUT
               PROVE  IF timer.counter_max = 0 THEN (ticks - 1) * Delta < Timer!Wrap - 1
                                               ELSE ticks * Delta < timer.counter_max
    BY Zenon DEF Timer!OneShotOnTime
  <2>1. IF timer.counter_max # 0 THEN timer.counter = timer.counter_max - ticks * Delta /\ timer.counter > 0
        ELSE IF ticks = 0 THEN timer.counter = 0
        ELSE timer.counter = Timer!Wrap - 1 - (ticks - 1) * Delta /\ timer.counter > 0
    BY Zenon DEF OneShotSound
  <2>2. timer.counter_max \in Int
    BY SMT DEF CountsTyped, Registers
  <2>3. ticks * Delta \in Int /\ (ticks - 1) * Delta \in Int /\ (-1) * Delta = - Delta
    <3>1. ticks \in Int /\ ticks - 1 \in Int
      BY SMT
    <3> QED  BY <3>1, OneMoreTick, Zenon
  <2>4. ticks = 0 => ticks - 1 = -1
    BY SMT
  <2> QED  BY <2>1, <2>2, <2>3, <2>4, SMT
<1> QED  BY <1>1, <1>2, <1>3

-----------------------------------------------------------------------------
(* The run: one of the machines moves, the others keep their initial state. *)

MachinesIInv == ControlIInv /\ EventsIInv /\ TimerIInv

\* In every behaviour, whichever machine moves, the page and the emulator's thread, the CPU's loop
\* and the timer keep their invariants.
THEOREM MachinesInvariant == Spec => []MachinesIInv
<1>1. Init => MachinesIInv
  BY ControlInit, EventsInit, TimerInit, Zenon DEF Init, MachinesIInv
<1>2. MachinesIInv /\ [Next]_vars => MachinesIInv'
  <2> SUFFICES ASSUME MachinesIInv, [Next]_vars PROVE MachinesIInv'
    OBVIOUS
  <2>1. [Control!Next]_(Control!vars) /\ [Events!Next]_(Events!vars) /\ [Timer!Next]_(Timer!vars)
    BY Zenon DEF Next, vars, control, picture, screen, loop, clock, stack, Control!vars, Control!page, Control!requests,
      Control!panic, Control!thread, Control!keys, Events!vars, Timer!vars
  <2> QED  BY <2>1, ControlStep, EventsStep, TimerStep, Zenon DEF MachinesIInv
<1> QED  BY <1>1, <1>2, PTL DEF Spec

\* Only an emulator that waits, paused or for the answer to a panic, is ended by Exit with
\* something left to save: the delay of the page covers every poll that the shutdown needs.
THEOREM WaitingLoses == Spec => []OnlyWaitingLoses
<1>1. MachinesIInv => OnlyWaitingLoses
  BY ControlSound, Zenon DEF MachinesIInv, OnlyWaitingLoses
<1> QED  BY <1>1, MachinesInvariant, PTL

\* A dialog is about the panic that the emulator waits with, and the guest's modifier follows the
\* page's through resets and stops.
THEOREM PageFollows == Spec => []PageAgrees
<1>1. MachinesIInv => PageAgrees
  BY ControlSound, Zenon DEF MachinesIInv, PageAgrees
<1> QED  BY <1>1, MachinesInvariant, PTL

\* No event of the CPU is forgotten, and they are looked at in their order: a step's trap before
\* the next instruction, no interrupt in a shadow, a double fault only for a fault within a fault.
THEOREM EventsAreOrdered == Spec => []EventsInOrder
<1>1. MachinesIInv => EventsInOrder
  BY EventsSound, Zenon DEF MachinesIInv, EventsInOrder
<1> QED  BY <1>1, MachinesInvariant, PTL

\* A latched count is read whole, and the output of a one-shot stays low for its count and no
\* longer than the tick's resolution.
THEOREM TimerIsTrue == Spec => []CountsAreTrue
<1>1. MachinesIInv => CountsAreTrue
  BY TimerSound, Zenon DEF MachinesIInv, CountsAreTrue
<1> QED  BY <1>1, MachinesInvariant, PTL

=============================================================================
