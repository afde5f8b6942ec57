------------------------------ MODULE Keyboard ------------------------------
(***************************************************************************)
(* The 8042 controller with the keyboard and the PS/2 mouse behind it      *)
(* (iodev/keyboard.cc).  "s" is the structure of that name.                *)
(*                                                                         *)
(* A byte is <<kind, number>>: a scan code ("key", numbered in the order   *)
(* in which keys are struck), an answer of the keyboard, of the mouse or   *)
(* of the controller, or one of the three bytes of a mouse packet, of      *)
(* which the second carries the movement.  The second axis of the mouse    *)
(* is treated as the first one is and left out, and so are the settings    *)
(* that are only stored (rates, resolution, scaling, LEDs, scan code set)  *)
(* and the paste buffer.                                                   *)
(***************************************************************************)
EXTENDS Integers, Sequences, IrqLines

CONSTANTS
  KbdElements,   \* BX_KBD_ELEMENTS: 16
  MouseElements, \* BX_MOUSE_BUFF_SIZE: 48
  ControllerQ,   \* BX_KBD_CONTROLLER_QSIZE: 5
  PacketLimit,   \* the most that a packet reports of the movement: 254
  Motions,       \* movements that the host reports
  Commands,      \* bytes that the guest writes to port 64h
  CommandBytes,  \* command bytes <<irq 1, irq 12, keyboard off, mouse off>> that it writes
  KbdBytes,      \* bytes that it sends to the keyboard
  MouseBytes,    \* bytes that it sends to the mouse
  MaxKeys,       \* bound: scan codes struck
  MaxMotion,     \* bound: movement not yet put in a packet
  MaxWrites      \* bound: bytes that the guest writes

ConstantsOK ==
  /\ {KbdElements, MouseElements, ControllerQ, PacketLimit, MaxKeys, MaxMotion,
      MaxWrites} \subseteq Nat \ {0}
  /\ Motions \subseteq Int
  /\ CommandBytes \subseteq BOOLEAN \X BOOLEAN \X BOOLEAN \X BOOLEAN

VARIABLES
  s,             \* the controller and its devices
  pic,           \* the interrupt lines 1 and 12
  keys,          \* scan codes struck so far
  writes,        \* bytes the guest has written
  handlers,      \* interrupts the guest has taken and not yet read a byte for
  stale          \* history: a byte was announced as the other device's, or discarded

vars == <<s, pic, keys, writes, handlers, stale>>

Kbd == 1
Aux == 12
Answer == <<"answer", 0>>
Packet(d) == << <<"mouse", 0>>, <<"motion", d>>, <<"mouse", 0>> >>
Byte == {Answer, <<"none", 0>>, <<"mouse", 0>>} \union ({"key"} \X (1 .. MaxKeys))
        \union ({"motion"} \X (-PacketLimit .. PacketLimit))
Ports == {"none", "60", "d1", "d2", "d3", "d4"}
Modes == {"reset", "stream", "remote", "wrap"}

TypeOK ==
  /\ s \in [outb : BOOLEAN, auxb : BOOLEAN, kbdByte : Byte, auxByte : Byte,
            kbdClock : BOOLEAN, auxClock : BOOLEAN, allow : SUBSET {Kbd, Aux},
            requested : SUBSET {Kbd, Aux}, port60 : Ports, timer : BOOLEAN, tested : BOOLEAN,
            ctlQ : Seq(Byte), kbdQ : Seq(Byte), scanning : BOOLEAN, kbdData : BOOLEAN,
            mouseQ : Seq(Byte), mode : Modes, savedMode : Modes, enable : BOOLEAN,
            delayed : Int, button : BOOLEAN, mouseData : BOOLEAN, panic : BOOLEAN]
  /\ Len(s.kbdQ) <= KbdElements /\ Len(s.mouseQ) <= MouseElements /\ Len(s.ctlQ) <= ControllerQ
  /\ pic \in IrqType({Kbd, Aux})
  /\ keys \in 0 .. MaxKeys /\ writes \in 0 .. MaxWrites /\ handlers \subseteq {Kbd, Aux} /\ stale \in BOOLEAN

Init ==
  /\ s = [outb |-> FALSE, auxb |-> FALSE, kbdByte |-> <<"none", 0>>, auxByte |-> <<"none", 0>>,
          kbdClock |-> TRUE, auxClock |-> FALSE, allow |-> {Kbd, Aux},
          requested |-> {}, port60 |-> "none", timer |-> FALSE, tested |-> FALSE,
          ctlQ |-> <<>>, kbdQ |-> <<>>, scanning |-> TRUE, kbdData |-> FALSE,
          mouseQ |-> <<>>, mode |-> "reset", savedMode |-> "reset", enable |-> FALSE,
          delayed |-> 0, button |-> FALSE, mouseData |-> FALSE, panic |-> FALSE]
  /\ pic = NoIrq /\ keys = 0 /\ writes = 0 /\ handlers = {} /\ stale = FALSE

-----------------------------------------------------------------------------
(* The functions of the class, from the structure before to the one after. *)

Request(k, i) == IF i \in k.allow THEN [k EXCEPT !.requested = @ \union {i}] ELSE k

\* The timer need only be started when the output buffer is free.
activate_timer_if(k, wanted) == IF wanted /\ ~k.outb THEN [k EXCEPT !.timer = TRUE] ELSE k

controller_enQ(k, b, source) ==
  IF k.outb
  THEN IF Len(k.ctlQ) >= ControllerQ THEN [k EXCEPT !.panic = TRUE]
                                     ELSE [k EXCEPT !.ctlQ = Append(@, b)]
  ELSE IF source = Kbd
       THEN Request([k EXCEPT !.kbdByte = b, !.outb = TRUE, !.auxb = FALSE], Kbd)
       ELSE Request([k EXCEPT !.auxByte = b, !.outb = TRUE, !.auxb = TRUE], Aux)

\* One answer of the mouse of several.
Answers(k) == controller_enQ(k, Answer, Aux)

\* A variant of kbd_enQ in which the newest scan code takes the place of the oldest.
KbdEnQOverwrites(k, b) ==
  activate_timer_if([k EXCEPT !.kbdQ = IF Len(k.kbdQ) >= KbdElements THEN Append(Tail(@), b)
                                       ELSE Append(@, b)], k.kbdClock)

kbd_enQ(k, b) ==
  IF Len(k.kbdQ) >= KbdElements THEN k
  ELSE activate_timer_if([k EXCEPT !.kbdQ = Append(@, b)], k.kbdClock)

\* An answer that goes straight to the output buffer, whatever is in it.
kbd_enQ_imm(k, b) ==
  IF Len(k.kbdQ) >= KbdElements THEN [k EXCEPT !.panic = TRUE]
  ELSE Request([k EXCEPT !.kbdByte = b, !.outb = TRUE], Kbd)

\* A variant of RoomForPacket that leaves it to each byte to find room.
RoomForBytes(k) == TRUE

RoomForPacket(k) == Len(k.mouseQ) + 3 < MouseElements

\* mouse_enQ for each byte; a full buffer drops the byte
mouse_enQ_packet(k, d) ==
  IF ~RoomForPacket(k) THEN k
  ELSE LET room == MouseElements - Len(k.mouseQ)
       IN  activate_timer_if([k EXCEPT !.mouseQ = @ \o SubSeq(Packet(d), 1, IF room < 3 THEN room ELSE 3)],
                             k.auxClock)

\* The movement is taken off what is due even when the packet finds no room.
create_mouse_packet(k, force) ==
  LET d == IF k.delayed > PacketLimit THEN PacketLimit
           ELSE IF k.delayed < -PacketLimit THEN -PacketLimit ELSE k.delayed
  IN  IF ~force /\ (k.mouseQ # <<>> \/ k.delayed = 0) THEN k
      ELSE mouse_enQ_packet([k EXCEPT !.delayed = @ - d], d)

\* A variant of set_kbd_clock_enable that forgets the byte waiting for the clock.
SetClockOnly(k, on) == [k EXCEPT !.kbdClock = on]

set_kbd_clock_enable(k, on) ==
  activate_timer_if([k EXCEPT !.kbdClock = on], on /\ ~k.kbdClock)

set_aux_clock_enable(k, on) ==
  activate_timer_if([k EXCEPT !.auxClock = on], on /\ ~k.auxClock)

resetinternals(k) == [k EXCEPT !.kbdQ = <<>>, !.kbdData = FALSE]

kbd_ctrl_to_kbd(k, b) ==
  IF k.kbdData THEN kbd_enQ([k EXCEPT !.kbdData = FALSE], Answer)
  ELSE CASE b = "ed" -> kbd_enQ_imm([k EXCEPT !.kbdData = TRUE], Answer)
         [] b = "05" -> kbd_enQ_imm(k, Answer)
         [] b \in {"f0", "f3"} -> kbd_enQ([k EXCEPT !.kbdData = TRUE], Answer)
         [] b = "f4" -> kbd_enQ([k EXCEPT !.scanning = TRUE], Answer)
         [] b = "f5" -> [kbd_enQ(resetinternals(k), Answer) EXCEPT !.scanning = FALSE]
         [] b = "f6" -> [kbd_enQ(resetinternals(k), Answer) EXCEPT !.scanning = TRUE]
         [] b = "ff" -> kbd_enQ(kbd_enQ(resetinternals(k), Answer), Answer)
         [] b = "f2" -> kbd_enQ(kbd_enQ(kbd_enQ(k, Answer), Answer), Answer)
         [] b = "f7" -> k
         [] b = "fe" -> [k EXCEPT !.panic = TRUE]
         [] OTHER    -> kbd_enQ(k, Answer)

kbd_ctrl_to_mouse(k, b) ==
  IF k.mouseData THEN controller_enQ([k EXCEPT !.mouseData = FALSE], Answer, Aux)
  ELSE IF k.mode = "wrap" /\ b \notin {"ff", "ec"} THEN controller_enQ(k, Answer, Aux)
  ELSE CASE b \in {"e8", "f3"} -> [controller_enQ(k, Answer, Aux) EXCEPT !.mouseData = TRUE]
         [] b = "ea" -> controller_enQ([k EXCEPT !.mode = "stream"], Answer, Aux)
         [] b = "f0" -> controller_enQ([k EXCEPT !.mode = "remote"], Answer, Aux)
         [] b = "ee" -> controller_enQ([k EXCEPT !.savedMode = k.mode, !.mode = "wrap"], Answer, Aux)
         [] b = "ec" -> IF k.mode # "wrap" THEN k
                        ELSE controller_enQ([k EXCEPT !.mode = k.savedMode], Answer, Aux)
         [] b = "f2" -> Answers(Answers(k))
         [] b = "f4" -> controller_enQ([k EXCEPT !.enable = TRUE], Answer, Aux)
         [] b = "f5" -> controller_enQ([k EXCEPT !.enable = FALSE], Answer, Aux)
         [] b = "f6" -> controller_enQ([k EXCEPT !.enable = FALSE, !.mode = "stream"], Answer, Aux)
         [] b = "ff" -> Answers(Answers(Answers([k EXCEPT !.enable = FALSE, !.mode = "reset"])))
         [] b = "e9" -> Answers(Answers(Answers(Answers(k))))
         [] b = "eb" -> mouse_enQ_packet(controller_enQ(k, Answer, Aux), 0)
         [] OTHER    -> controller_enQ(k, Answer, Aux)

\* A variant of NextOfController that asks for no interrupt.
NextOfControllerSilently(k, i) ==
  IF k.ctlQ = <<>> THEN k
  ELSE [k EXCEPT !.auxByte = Head(k.ctlQ), !.outb = TRUE, !.auxb = TRUE, !.ctlQ = Tail(@)]

\* The next byte of the controller's own queue always goes to the mouse's
\* buffer; the interrupt asked for is that of the byte just read.
NextOfController(k, i) ==
  IF k.ctlQ = <<>> THEN k
  ELSE Request([k EXCEPT !.auxByte = Head(k.ctlQ), !.outb = TRUE, !.auxb = TRUE, !.ctlQ = Tail(@)], i)

\* The transfer that periodic makes when the timer has run out and the output
\* buffer is free: the keyboard goes first.
Transfer(k) ==
  IF k.kbdClock /\ k.kbdQ # <<>>
  THEN Request([k EXCEPT !.kbdByte = Head(k.kbdQ), !.outb = TRUE, !.kbdQ = Tail(@)], Kbd)
  ELSE LET m == create_mouse_packet(k, FALSE)
       IN  IF m.auxClock /\ m.mouseQ # <<>>
           THEN Request([m EXCEPT !.auxByte = Head(m.mouseQ), !.outb = TRUE, !.auxb = TRUE,
                                  !.mouseQ = Tail(@)], Aux)
           ELSE m
-----------------------------------------------------------------------------
(* The callers: the host's input, the guest's ports, and the timer.        *)

\* gen_scancode, for one byte of a key's code.
gen_scancode ==
  /\ ~s.panic /\ keys < MaxKeys
  /\ keys' = keys + 1
  /\ s' = IF s.kbdClock /\ s.scanning THEN kbd_enQ(s, <<"key", keys + 1>>) ELSE s
  /\ UNCHANGED <<pic, writes, handlers, stale>>

mouse_motion(d, b) ==
  /\ ~s.panic /\ s.mode # "remote" /\ s.enable
  /\ d # 0 \/ b # s.button
  /\ s.delayed + d \in -MaxMotion .. MaxMotion
  /\ LET m == [s EXCEPT !.button = b, !.delayed = @ + d]
     IN  s' = create_mouse_packet(m, b # s.button \/ m.delayed > PacketLimit + 1
                                                  \/ m.delayed < -PacketLimit - 2)
  /\ UNCHANGED <<pic, keys, writes, handlers, stale>>

\* The user gives the mouse to the guest or takes it back.
mouse_enabled_changed ==
  /\ ~s.panic /\ s.delayed # 0
  /\ s' = [create_mouse_packet(s, TRUE) EXCEPT !.delayed = 0]
  /\ UNCHANGED <<pic, keys, writes, handlers, stale>>

\* The interrupt line that reading the waiting byte lowers.
Reader(k) == IF k.auxb THEN Aux ELSE Kbd

\* A read of port 60h; the status that the guest reads first is s itself.  A
\* byte that has been read is forgotten here: reading it again changes nothing.
read ==
  /\ ~s.panic
  /\ s.outb
  /\ LET i == Reader(s)
         free == [s EXCEPT !.outb = FALSE, !.auxb = FALSE, !.requested = @ \ {i},
                           !.kbdByte = <<"none", 0>>, !.auxByte = <<"none", 0>>]
     IN  /\ s' = [NextOfController(free, i) EXCEPT !.timer = TRUE]
         /\ pic' = lower_irq(pic, i)
  /\ stale' = (stale \/ (Reader(s) = Kbd /\ s.ctlQ # <<>>))
  /\ handlers' = {}
  /\ UNCHANGED <<keys, writes>>

\* Commands whose answer needs a free output buffer.
Answered == {"a9", "ab", "c0", "d0"}

write_64(c) ==
  /\ ~s.panic /\ writes < MaxWrites /\ writes' = writes + 1
  /\ LET k == [s EXCEPT !.port60 = IF c \in Ports THEN c ELSE "none"]
         tested == IF s.tested THEN k ELSE [k EXCEPT !.ctlQ = <<>>, !.outb = FALSE, !.tested = TRUE]
     IN  s' = CASE c \in Ports -> k
                [] c = "20" -> IF k.outb THEN k ELSE controller_enQ(k, Answer, Kbd)
                [] c \in Answered -> IF k.outb THEN [k EXCEPT !.panic = TRUE]
                                               ELSE controller_enQ(k, Answer, Kbd)
                [] c = "aa" -> IF tested.outb THEN tested ELSE controller_enQ(tested, Answer, Kbd)
                [] c = "ad" -> set_kbd_clock_enable(k, FALSE)
                [] c = "ae" -> set_kbd_clock_enable(k, TRUE)
                [] c = "a7" -> set_aux_clock_enable(k, FALSE)
                [] c = "a8" -> set_aux_clock_enable(k, TRUE)
                [] OTHER    -> k
  /\ stale' = (stale \/ (c = "aa" /\ ~s.tested /\ s.outb))
  /\ UNCHANGED <<pic, keys, handlers>>

\* The command byte, which may ask again for the interrupt of a waiting byte.
write_command_byte(v) ==
  LET k == set_aux_clock_enable(set_kbd_clock_enable(
             [s EXCEPT !.port60 = "none",
                       !.allow = {i \in {Kbd, Aux} : v[IF i = Kbd THEN 1 ELSE 2]}], ~v[3]), ~v[4])
  IN  IF Aux \in k.allow /\ k.auxb THEN Request(k, Aux)
      ELSE IF k.outb THEN Request(k, Kbd) ELSE k

write_60 ==
  /\ ~s.panic /\ writes < MaxWrites /\ writes' = writes + 1
  /\ LET k == [s EXCEPT !.port60 = "none"]
     IN  \/ s.port60 = "none" /\ \E b \in KbdBytes : s' = kbd_ctrl_to_kbd(k, b)
         \/ s.port60 = "60" /\ \E v \in CommandBytes : s' = write_command_byte(v)
         \/ s.port60 = "d1" /\ s' = k                   \* the A20 gate
         \/ s.port60 = "d2" /\ s' = controller_enQ(k, Answer, Kbd)
         \/ s.port60 = "d3" /\ s' = controller_enQ(k, Answer, Aux)
         \/ s.port60 = "d4" /\ \E b \in MouseBytes : s' = kbd_ctrl_to_mouse(k, b)
  /\ UNCHANGED <<pic, keys, handlers, stale>>

\* timer_handler: the interrupts asked for since the last tick, then the transfer.
timer_handler ==
  /\ ~s.panic
  /\ LET up == IF Kbd \in s.requested THEN raise_irq(pic, Kbd) ELSE pic
         k  == [s EXCEPT !.requested = {}, !.timer = FALSE]
     IN  /\ pic' = IF Aux \in s.requested THEN raise_irq(up, Aux) ELSE up
         /\ s' = IF s.timer /\ ~s.outb THEN Transfer(k) ELSE k
  /\ stale' = (stale \/ (s.requested \ (IF s.outb THEN {Reader(s)} ELSE {}) # {}))
  /\ UNCHANGED <<keys, writes, handlers>>

\* The guest's CPU takes an interrupt; its handler will read port 60h.
TakeInterrupt(i) ==
  /\ i \in pic.irr
  /\ pic' = take_irq(pic, i)
  /\ handlers' = handlers \union {i}
  /\ UNCHANGED <<s, keys, writes, stale>>

Next ==
  \/ gen_scancode
  \/ \E d \in Motions, b \in BOOLEAN : mouse_motion(d, b)
  \/ mouse_enabled_changed
  \/ read
  \/ \E c \in Commands : write_64(c)
  \/ write_60
  \/ timer_handler
  \/ \E i \in {Kbd, Aux} : TakeInterrupt(i)

Spec == Init /\ [][Next]_vars
-----------------------------------------------------------------------------
\* A byte that waits in a device whose clock runs is on its way: the output
\* buffer is taken, and reading it starts the timer, or the timer runs.
NoByteStalls ==
  ~s.panic /\ ~s.outb /\ ((s.kbdClock /\ s.kbdQ # <<>>) \/ (s.auxClock /\ s.mouseQ # <<>>))
    => s.timer

\* A byte in the output buffer whose interrupt is enabled has been announced and
\* is being served, or is about to be announced.  The one way to silence the
\* controller is to announce a byte as the other device's, or to discard one that
\* was announced: the line that was raised stays high, and can rise no more.
OnlyMixedBytesSilence ==
  s.outb /\ Reader(s) \in s.allow /\ ~stale
    => s.requested \union pic.irr \union handlers # {}

\* The scan codes on their way to the guest.
Pending ==
  {b[2] : b \in {c \in {s.kbdQ[j] : j \in DOMAIN s.kbdQ} : c[1] = "key"}}
  \union (IF s.outb /\ ~s.auxb /\ s.kbdByte[1] = "key" THEN {s.kbdByte[2]} ELSE {})

\* A scan code that was queued is read, oldest first, unless the guest resets the
\* keyboard or the controller or sends a command that is answered at once.
KeysReadInOrder ==
  [][\A n \in Pending \ Pending' :
       \/ s.outb /\ ~s.auxb /\ s.kbdByte = <<"key", n>> /\ \A m \in Pending : n <= m
       \/ \E b \in {"f5", "f6", "ff", "ed", "05"} : s' = kbd_ctrl_to_kbd([s EXCEPT !.port60 = "none"], b)
       \/ ~s.tested /\ s'.tested]_<<s>>

\* The mouse's queue ends with a whole packet, however the guest reads it and
\* however often it is full: a packet is queued entirely or not at all.
PacketsAreWhole ==
  \A j \in DOMAIN s.mouseQ :
    s.mouseQ[j][1] = "motion" => j < Len(s.mouseQ) /\ (j > 1 => s.mouseQ[j - 1] = <<"mouse", 0>>)
=============================================================================
