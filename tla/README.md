# WPBochs: a formal model of its core

WPBochs runs the Bochs PC emulator on Windows Phone. `src/BochsEngine/bochs` is
Bochs; `src/BochsEngine` holds what the port puts under it (files, sockets, the
machine object); `src/WPBochs` is the application. The modules here model the
parts whose correctness depends on the order in which things happen: what is on
two threads, what can be cut off half way, what several devices share, what a
device owes its driver, and what the CPU remembers between two instructions.

Contents: [the system](#the-system), [the plan](#the-plan),
[modules and code](#modules-and-code), [the runs](#the-runs),
[fairness](#fairness), [proofs](#proofs), [disagreements](#disagreements-with-the-code),
[what is not modelled](#what-is-not-modelled).

## The system

Threads. The *emulator's thread* runs the CPU loop; every device's code runs on
it, either called by an instruction (port or memory access) or by a timer's
callback. The *page's thread* runs the XAML page, its buttons and the work that
others queue with `Dispatcher.RunAsync`. The *thread pool* runs the
continuations of socket operations.

| component | source | state | operations | who calls it |
|---|---|---|---|---|
| timers | `pc_system.cc/.h` | `timer[]`, one countdown for all of them | register, activate, deactivate, tick, `timer_handler` and the callbacks | every device; the CPU loop ticks |
| interrupt controllers | `pic.cc/.h` | registers of two 8259s, INTR | raise, lower, IAC, command and mask writes, polled read, ELCR | devices, PCI bridge, CPU, guest |
| NAT | `eth_nat.cc` | maps of TCP and UDP flows, unacknowledged segments, frames for the guest | guest segments, socket callbacks, drain and retransmit timer | network card (emulator's thread), timers, thread pool |
| host sockets | `wpb_net_io.cpp` | `s_tcp`, `s_udp`: state flags, queues, read loop | open, send, close and their continuations | NAT; thread pool |
| VDI, VHD, VMDK images | `vbox.cc`, `vpc.cc`, `vmware4.cc` | allocation table, one cached block, position | open, seek, read, write, flush, close | `harddrv.cc` |
| host files | `wpb_file_io.cpp` | registered streams, handles with a cache or a position | open, close, seek, read, write, length, flush all | image code; `ShutdownNow`, `fatal` |
| stop, pause, reset, panic | `wpbochs_gui.cc`, `BochsMachine.cpp`, `logio.cc`, `EmulatorPage.xaml.cs` | request flags, panic answer, key queue; the page's own | buttons, dialogs, pickers, delayed exit; the emulator's poll | user, guest, page's queue |
| display | `wpbochs_gui.cc`, `EmulatorPage.xaml.cs` | framebuffer, size, dirty flag | draw, resize; ask size, take flag, copy | VGA's timer; page's rendering callback |
| graphics card | `vga.cc` | memory, registers, dirty tiles, text snapshot | guest accesses, registers, VBE, timer | guest; draws into the display's framebuffer |
| keyboard, mouse | `keyboard.cc` | output buffer, three queues, two requests | ports 60 and 64, key strokes, motion, timer | guest, page's keys, timers |
| network card | `ne2k.cc` | ring pointers, interrupt status and mask, remote DMA | register accesses, `rx_frame`, transmit timer | guest, NAT, timers |
| clock | `cmos.cc` | time, its copy, status registers | registers, three timers, reset | guest, timers |
| interval timer | `pit.cc`, `devices.cc` | three counters with their latches | commands, gate, 100 microsecond tick | guest, timers |
| disk controller | `harddrv.cc` | registers, buffers and position of two drives | commands, data port, packets, soft reset | guest; images |
| floppy, sound, DMA | `floppy.cc`, `sb16.cc`, `dma.cc` | controller phases; DSP block; channels, masks, requests | commands, timers; bus acknowledge | guest, timers, CPU (HLDA) |
| CPU loop | `cpu.cc`, `exception.cc`, `flag_ctrl*.cc`, `proc_ctrl.cc` | `async_event`, trap, inhibit, EXT, error number, INTR, HRQ | instructions, events at boundaries, HALT loop, delivery | itself |
| flags | `lazy_flags.cc`, `arith*.cc`, `shift*.cc`, ... | EFLAGS, two pending entries | every instruction that sets or reads flags | CPU loop |
| paging | `paging.cc`, `cpu.cc` | TLB, fetch window | translate, MOV CR, INVLPG, fetch | CPU loop, A20 port |
| far transfers | `ctrl_xfer_pro.cc`, `exception.cc`, `tasking.cc`, `vm8086.cc` | segment registers, flags, task register, descriptors of tasks, stacks of level 0 | jumps, calls and returns through gates, interrupts and exceptions, IRET, task switches | CPU loop |
| floating point | `fpu/*.c`, `fpu.cc`, `wmFPUemu_glue.cc`, `extfpuirq.cc` | control, status and tag words, stack of registers, FERR# line | every ESC instruction; WAIT; port F0 | CPU loop, guest |
| instructions | `access.cc`, `string.cc`, `stack*.cc`, `io.cc`, `arith*.cc`, ... | registers, memory, ports; EIP and ESP of the instruction | accesses that may fault; `exception` goes back to the instruction | CPU loop |

How they interact. Timers call the device code, which raises and lowers pins of
the interrupt controllers, whose INTR the CPU loop looks at between two
instructions; a device on a DMA channel asks for the bus, which the same loop
gives away; the NAT delivers frames into the card's ring and retransmits from a
timer, while socket continuations queue more on other threads under
`flow_mutex`; the disk controller drives one image object, which reads and
writes a host file; the poll of the page's requests is itself a timer's callback,
and a reset leaves it, and `timer_handler`, by `longjmp`; a stop or a fatal panic
flushes all host files and never returns.

What makes each of them correct, and what is hard about it:

- **timers** ring at exactly the instant they were set for. One number is
  decremented for all of them, so setting a timer in the middle of a period must
  account for the elapsed part; callbacks set and cancel timers during the scan
  that calls them.
- **interrupt controllers** lose no request, serve by priority, never serve a pin
  twice, and keep INTR and the cascade line in step with the chips. A chip keeps
  its choice until acknowledged, whatever happens to the line.
- **NAT and sockets** deliver both byte streams in order and completely although
  frames are lost, segments are repeated, and three threads take part; flows,
  keys and sockets are created and given up together; a datagram is sent once.
- **images** are disks: they read back what was written, and an abrupt end of the
  program (a phone may end it at any time) damages no sector that nobody wrote.
- **host files** are files with a position, whether cached or not; what was
  flushed is saved, and what `wpb_flush_all` returns from is everything.
- **the host's control** ends the process only after the emulator has flushed,
  shows every panic, and takes an answer only for the panic it was given for; the
  page shows the last picture, and the graphics card draws again every tile that changed.
- **devices** announce what they have for the guest, answer what they were asked,
  move the data that was asked for, and never show the guest a half-changed
  packet, frame or time. Their drivers wait, give up, mask and reset at any time.
- **the floating-point unit** raises each exception when its operands call for it and
  none before an earlier one has been looked at, leaves a handler the operands it
  needs, and keeps stack, tags and summary in step.
- **the CPU** looks at events in the architecture's order and forgets none, computes
  flags late but right, never lets a cached translation pass what the tables
  did not allow, and lets an instruction fault and begin again as if it never had.

`PROJECT.json` lists the hazards at their lines, with the properties that watch
over each.

## The plan

The order follows what the rest stands on and what loses a user's data.

1. timers (`AlarmClock`, `PcTimers`) and interrupt controllers (`Pic`), with proofs;
2. sockets and NAT (`TcpSocket`, `NatTcp`, `UdpFlows`): the code with real
   concurrency;
3. disk images over an abstract disk (`SectorDisk`, `VdiImage`, `VhdImage`,
   `VmdkImage`) and host files over an abstract file (`BackedFile`, `FileIo`);
4. stop, pause, reset and panic (`HostControl`), the picture (`Display`);
5. devices with a driver each (`Keyboard`, `Ne2k`, `Cmos`, `Ata`; `Floppy` and `Sb16`
   over `Dma`, composed in `IsaDma`), each over the interrupt lines (`IrqLines`);
6. the CPU: events (`CpuEvents`), flags (`LazyFlags`), translation (`Paging`),
   instructions that fault half way (`Restart`), and the interval timer (`Pit`);
7. protected mode: transfers between privilege levels and task switches (`Transfers`);
8. the stack and the exceptions of the FPU (`Fpu`), the graphics card's memory and dirty
   tiles (`Vga`);
9. proofs of the inductive invariants of timers, interrupt controllers, page and emulator's
   thread, CPU events, interval timer, NAT, images and host files, and of the refinements
   of timers, images and files;
10. proofs about both directions of the NAT, address translation, and the devices.

These are done. Left, in this order:

11. PCI interrupt routing (over `Pic`), version 3 VMDK images.

## Modules and code

Names of variables and actions are the source's where TLA+ allows it. Every
module starts with what it leaves out. The entry of each definition in
`PROJECT.json`'s map gives its lines. Operators called "wrong version" or
"variant" are not used by any specification: each is a plausible mistake in the
definition after it, kept to show that a property notices it.

Suites. `MCNetwork`, `MCStorage`, `MCEmulator`, `MCDevices` and `MCCpu` each put
components of one kind side by side. The variable `driven`, chosen in the initial
state, says which of them takes steps; the others stay in one initial state. A
suite is therefore a set of independent checks in one run; its properties are
conjunctions `driven = component => property of it`. Components that really share
state are composed in a module of their own: `NatTcp` with its sockets, `IsaDma`.

**`PcTimers`** implements **`AlarmClock`**. State: `timer`, `num_timers`, the
countdown (`ticks_in_period`, `ticks_left`), `counter` of the service's own timer,
and `cursor`, the loop variable of the callbacks' loop, so that what a callback
does is a step inside the handler. `Tick`/`TimerHandler` are one instruction;
`CallbackReturns` continues the loop; `HostReset` is the `longjmp`. The abstract
clock has instants and alarms, no countdown. Delays are ticks; `unregister_timer`
has no caller and is left out.

**`Pic`**: `pic[c]` are a chip's registers as sets of pins, `intr` the line. One
action per port command, per line change and per acknowledge, each with the
service of both chips that the code calls. Vectors and the read-back registers
are left out; initialization words that panic are not sent. **`IrqLines`** is what
a device sees of it: its line, and the request that an edge leaves.

**`TcpSocket`** gives the steps of a socket as operators on its record: `connecting`,
`reading`, `storing` say how far each continuation is, which is what another
thread can see between two lock regions. **`NatTcp`** has the flows and is the
composition: `flow_mutex` makes each handler one step. `draining` splits the
timer's handler where it releases the mutex. The guest's TCP and the remote host
are an external environment: the guest repeats, acknowledges, finishes and resets
at will but numbers its bytes correctly; the network card drops any frame.
Sequence numbers count bytes and do not wrap.

**`UdpFlows`**: sockets that connect on the thread pool while the guest's datagrams
are sent or queued; `sender` is the emulator's thread between its unlocked look at
`connected` and the lock.

**`VdiImage`, `VhdImage`, `VmdkImage`** implement **`SectorDisk`**. Each keeps the
host file (table, data, footer, position) apart from what the driver holds in
memory, and lets the program end between any two writes to the file: two in
VDI's close, four in a VHD allocation, three in a VMDK one. `versions` is history:
what each sector held since the last close; it is what an abrupt end may leave.
In VDI, `torn` is history too (an end between close's two writes), and in VMDK
`missed` (a grain of a table that does not exist was asked for), because the
images stop being disks then, as the runs show. Offsets are sectors, since
`harddrv.cc` transfers one at a time.

**`FileIo`** implements **`BackedFile`**: streams and what is durable of them,
handles cached or in place, and an end of the process inside a flush.

**`HostControl`**: the page (`attached`, `_paused`, its work queue, dialog, picker,
delay), what is shared (requests, panic answer, key queue) and the emulator's
thread. `unsaved` stands for anything only `wpb_flush_all` saves. The exit delay
is counted in polls: at least `GracePolls` fit, and two are needed for a reset with a
shutdown behind it.

**`Display`**: `fb` is the framebuffer and what is locked with it, pixels being the
number of drawings seen and the size they were laid out for; the page takes size,
flag and pixels in three steps, as its rendering callback does.

**`Vga`**: `k` is the card, what the framebuffer shows (`shown`) and history. The guest
writes memory through the window, the planes or VBE, and changes registers; the timer
draws the tiles that are marked, or the text that differs from its snapshot. What is in
each tile is compared with what memory and registers say. Register changes for which
the code marks nothing are history (`silent`: `vga.cc:860`, `981`, `1007`, `1119`, `1218`,
VBE at `2849-2943` and `2976-3013`), as are a size left over from VBE (`left`, `2919`), CRTC
registers that enabling VBE sets without what follows from them, so that a guest that writes
the same value again changes nothing (`behind`, `2921-2934` and `1181`), and a virtual width
after which an offset is still one of the lines before (`narrow`). The writes that mark
another tile than they show in are named: `Unmatched`, `CgaHalved`, `SplitMoved`,
`LinesOverlap`.

**`Keyboard`**: the record `s` is the structure of that name; bytes are a kind and a
number. **`Ne2k`**: the ring in pages, a frame being its number on each of its
pages; the driver serves an interrupt as drivers of this card do. **`Cmos`**: the
time as two digits, its copy, and what a guest reads of it digit by digit.
**`Ata`**: both drives' registers and data phases; sector numbers are their
contents, and an image may fail any call. Commands that do the same to the model are
one: `features` is the one supported subcommand of SET FEATURES, `unknown` any command
that is only aborted, other subcommands among them. **`Dma`** has the channels as operators
that **`Floppy`** and **`Sb16`** use; **`IsaDma`** is all three on the CPU's bus, which is
where one device's end of count drops another's request. In each, what the driver
of the guest has been told, or waits for, is a variable of its own (`drv`,
`player`, `reader`), so that "it will be told" can be stated without fairness: some
event that the hardware itself brings about is pending.

**`CpuEvents`**: one action per pass of the loop and kind of instruction; the HALT
loop and the delivery of an exception, which may raise another one, are steps of
their own. `owed`, `shadow` and `chain` are history: the trap an instruction is
owed, whether interrupts are held off, the exceptions raised within each other.
**`LazyFlags`**: `f` are EFLAGS and the two pending entries; `ref` is, flag by flag,
the set of values the manual allows, computed from operands directly. Operands
have `Bits` bits. **`Paging`**: `s` has CR0, CR3, CPL, TLB and fetch window; `allowed`
and `touched` are history: what the tables have granted and which entries were
marked since the guest last asked that translations be forgotten. **`Pit`**: one
of the three counters, with counts of two digits.

**`Restart`**: `i` is an instruction and `s` what it works on. Each instruction is an
operator that maps `s` to `s`, in which each access translates its pages or sets
`fault`, after which nothing more happens: that is the order of accesses and
assignments in the code, which is the point of the module. `Execute` is one
instruction or one iteration of a repeated one, with `exception` (`exception.cc:907`
restores EIP and ESP) as its last part; `Handle` is the guest's handler, which
gives the page or the segment and may take another; `Interrupt` comes between
iterations. `began` and `due` are history: `s` at the beginning, and what the whole
instruction makes of it when no page is missing.

**`Transfers`**: `c` is what the kernel has set up (its IDT, the stack of level 0 and
whether there is a page below it, a second task), `s` the CPU with its tasks and the
stacks of level 0, which are lists of frames. As in `Restart` an operator maps `s` to
`s` and nothing follows a fault (`Tested`, `Then`); `Step` is an instruction or an
interrupt with the exceptions it ends in (`Handled`: at most three until the CPU
shuts down). What a program pops that no transfer pushed is an input. `last` is
history: the level and flags before, and by which kind of step they were left. `Torn`
names the ways in which a fault leaves a transfer half way (after a task switch is
committed; when a push to a new stack fails), after which contexts need not be kept.

**`Fpu`**: `f` is the unit and what has become of the instruction it executes, `last`
is history (the instruction, the unit before it and the unit that was saved). An
operator maps `f` to `f` per instruction, as in `Restart`: `Then` ends it at a fault or
at an exception that is not masked. How a result is rounded, and how a compare
comes out, are open outcomes; which exceptions follow from an outcome, and what is
stored, is the code's. `UnitIsRight` compares with what the manual says, written
over the operands only. The ways in which the code differs are named there:
`SumOfSpecials` (`reg_add_sub.c:387-423`, a sum of a denormal and an infinity or of two
denormals), `DenormalLogarithm` (`fpu_trig.c:1303`, `1675`), `LoadedByZero`
(`fpu_entry.c:236-260`, an operand in memory is used though a register is empty or a
NaN), `LoadedAnyway` (`load_store.c:97`, `114`), `MovedAnyway` (`fpu_compare.c:39-47`),
`ScaledTag` (`fpu_trig.c:1765`), `EmptyMove` (`fpu_aux.c:113-119`, `fpu_entry.c:345-350`),
`InexactStore` (`reg_ld_str.c:472-475`, `543-545`), `HalfDone` (`reg_ld_str.c:1255-1283`,
`1343`, `1436-1452`: FSAVE, FSTENV and FRSTOR are not done again whole after a page fault)
and `PushedBefore` (`load_store.c:71`: the stack is pushed before the operand is read).

## The runs

Bounds are in the cfg files; what a kernel, a program or a driver may do is in the `MC*` modules,
with the instances.

| run | bounds | why they are enough |
|---|---|---|
| `timers` | 2 device timers, interval 4, delays 1, 2 and 5, 2 intervals | a nearer, an equal and a farther deadline than the one that counts; timers before and behind each other in the scan; a delay longer than the interval |
| `pic` | 3 pins a chip, one device on the master, one behind the slave; every command to the master, the slave's ends of interrupts | either may outrank the other, since the order is changed; each command meets each combination of requests, service and mask |
| `pic_cascade` | three devices, both chips initialized at any time | shortest disagreement found |
| `network` | 1 connection, 3 bytes each way, 2 lost frames, 1 retransmission; or 2 connections on 1 key with 1 byte and 1 lost frame; or 2 UDP keys with 3 datagrams each | a gap needs three bytes, a swap two; a lost frame is retransmitted and then exhausted; a late callback of the first connection meets the flow of the second; two datagrams wait while a third is sent |
| `storage` | VDI, VHD: 2 blocks of 2 sectors, values 0 and 1, room for 2; VMDK: 3 tables of one grain (in directory and copy, in the copy only, in neither); a file of at most 2 bytes, cached if empty at open | one block cached while the other is used; two sectors of a block; every image as a start; each way a table can be found; overwrite, append, a skipped byte, growth in memory and in place |
| `vmdk_sparse` | 2 tables, one of them missing | |
| `emulator` | everything a user or guest does, 2 polls in a delay, 2 keys between polls; or 3 sizes and 4 drawings; or 11 graphics modes with 7 offsets, 2 accesses and a screen of 32 by 4; or 7 requests or unusual instructions of the CPU; or a counter of 2 digits in base 4, 4 writes; or 3 floating-point registers of any kind, tag, masks and flags with one instruction, or programs of 3 instructions that save, change and restore them | two requests in any order with a poll between, before and after; sizes of equal and of different area; a trap, an interrupt, a bus request and a fault within a fault can meet at one boundary |
| `host_paused` | pause, stop | |
| `devices` | keyboard: queues of 2, 6 and 1, 4 writes; card: ring of 4 pages, frames of 1 to 3; clock: 2 digits, 2 seconds; drives: 2 cylinders, heads and sectors, CD-ROM of 3 blocks, 2 commands; floppy: 2 tracks and sectors, 2 commands; sound: 4 orders; both: 1 command, 2 orders | every queue runs full; frames wrap and the ring fills; a carry of the time while it is read; transfers cross sectors, heads, cylinders, sides and the end of the disk, in whole sectors and not; a command follows one that was abandoned |
| `cmos_frozen`, `sound_wide` | 2 digits and seconds, 4 writes; 2 orders | |
| `cpu` | flags: 4-bit operands, any two instructions; paging: 2 pages in one TLB slot, or 2 address spaces, 1 change of the tables; restart: any of 36 kinds of instruction with one page missing or read-only, 2 pages taken away meanwhile; transfers: 23 ways for a kernel to set its tables up, 3 instructions or interrupts | each instruction follows each other one, which is all that pending entries remember; a stale entry needs one fill, one change and one use; operands cross pages, strings run either way, and a page given is lost again before the instruction is through; a way in, a fault on the way and a way back |

What they show, property by property, is the comment above each property. The
ones that say most:

- `ImplementsAlarmClock`: no drift, no early or late ring, through any callbacks.
- `OnlySetPriorityStrands`: after every other command an eligible request is
  signalled; set-priority alone leaves it waiting (`pic.cc:347-358` services nothing).
- `OnlyInitSeparates`: only an initialization makes slave and cascade disagree.
- `SentAsGiven`: what the guest was told is acknowledged is with the remote host or
  in a queue while the connection stands; a datagram is sent once, or is the one
  that stays queued behind a connect which finished between look and lock.
- `GuestReadsInOrder`: the guest reads the bytes of the remote host in order and without
  a gap, and all of them before the end. The exception: what is read before `on_connect`
  is called is dropped (`eth_nat.cc:748`). `early` counts these bytes; the guest's stream
  must begin with the byte after them, and none but they may be missing at the end.
- `ReadsBack`: the images are disks, VDI until a close is torn and VMDK until a
  missing table is asked for; `FilesAreSound`: blocks of a VDI image overwrite each
  other only after that.
- `OnlyWaitingLoses`: only a paused emulator, or one that waits for the answer to
  a panic, is ended with something unsaved.
- `InterruptsAreSeen`, `NothingStalls`: a device with an event has announced it, and
  a driver that waits will be told. The exceptions are those named in the modules:
  a byte of the mouse announced as the keyboard's or the other way round, or
  discarded when it was announced (`Keyboard`); what the network card received or
  completed while its event was masked (`Ne2k`); a reset of the clock or of the sound
  card with the line high (`Cmos`, `Sb16`); the two commands of a disk that end without
  an interrupt, EXECUTE DEVICE DIAGNOSTIC (`harddrv.cc:2008-2018`) and a successful
  SET MULTIPLE MODE (`2150-2156`), for which a driver waits in vain (`Forgets` in
  `Ata`); a request dropped when another channel's count ends, or held back by a masked
  request of the first controller (`IsaDma`); a floppy drive that is not there, a motor
  that is off, a count that ends within a sector and a request left up behind the error
  of a protected disk (`Floppy`); blocks of 16 bits, and a block that begins with a
  request left up (`Sb16`).
- `EventsInOrder`: the exceptions are that HLT drops a pending single-step trap and
  that an interrupt's frame may be mixed when its delivery faults.
- `UnitIsRight`: every floating-point instruction on every pair of kinds of operands;
  the exceptions are the ones `Fpu` names above.
- `PictureIsRight`: when nothing is marked the framebuffer shows what is in the card's
  memory, and the page the last frame; the exceptions are the ones `Vga` names above.
- `FlagsAreExact`: but for decimal adjustments, whose wrapped sums set the carry by
  the wrapped byte, and for ROL and ROR of a byte or a word by whole turns, which leave
  CF as it was while the manual has it be the bit moved last (`shift8.cc:53`, `103`;
  `turned` holds the values that CF may have kept).
- `TranslationIsAllowed`: but for writes of the supervisor with CR0.WP clear, which
  widen an entry for reads of the user's level of access, and for the fetch
  window, which a change of A20 does not close.
- `FaultsRestart`: a handler finds the registers as before the instruction, and what
  the instruction does is done once. The exceptions: ENTER moves EBP and copies
  frames before it knows that it gets through; CMPXCHG8B sets ZF and stores its high
  half before it asks whether the low half can be written; a segment register is
  loaded before its descriptor is marked.
- `PrivilegeIsKept`: CS, SS and the flags agree with the level, the level is raised only
  through a gate and only to where it leads, IF, IOPL and VM change only as the level
  allows, each return gives back what its transfer left, and a task is busy exactly
  while it runs or waits. Named exceptions: the pushes of a call gate or of an
  interrupt may fault after CS and SS are loaded; a delivery from virtual 8086 mode
  that fails there has nulled DS to GS (`exception.cc:647-654`); a call gate's code
  segment need not be present (`ctrl_xfer_pro.cc:756-770`).
- `PageAgrees`: a dialog is about the panic that waits, and the guest's keyboard
  holds the modifiers that the page shows.

Deadlock is checked wherever the system must go on (`timers`, `pic`, `storage`, and
the runs over them). The environments of the other suites are bounded: they stop
when the connections, commands, events or the instruction are used up, and `emulator`
stops when the process has exited.

Beside the variant that each property is paired with, others are kept and were
seen to be found by the property over them: `InAnyOrder`, `ResetFlowOnly`
(`NatTcp`); `TakenTwice` (`UdpFlows`); `FlushCountsAll` (`VdiImage`); `BeginningOf`
(`VhdImage`); `EnteredFirst`, `BehindIt`, `EndAlwaysMoves`, `NotFlushed` (`VmdkImage`);
`SizeAdded`, `SameSize`, `OnlyCached` (`FileIo`); `StaysHigh`, `UpdatedAtOnce` (`Cmos`);
`LowersAtLast` (`Sb16`); `NextOfControllerSilently`, `RoomForBytes`, `SetClockOnly`
(`Keyboard`); `UnmaskedOnly` (`Dma`); `AnsweredOnce`, `StaysOnSide` (`Floppy`);
`KeepsLimit` (`Ata`); `ResumedAsIs`, `TrapIfQuiet`, `HeldOff`, `RestoredNever`, `BusIfQuiet`
(`CpuEvents`); `StillPending` (`LazyFlags`); `FlushedOnPG`, `WindowKept` (`Paging`); `ReadPortFirst`
(`Restart`).

## Fairness

`MCNetwork` assumes that the PC's timer goes on calling the NAT's handler (weak
fairness of `DrainQueue` and `CheckRetransmits`): it is registered continuous and the
CPU runs. Nothing is assumed of the guest, of the sockets or of the network, and
`NothingPendsForever` holds because retransmissions are counted.
`MCEmulator` assumes that the emulator's thread runs (it polls when running, and
wakes when what it waits for has come), that the page's queue is worked off and that
a delay ends; that the CPU's loop runs (`Runs`: instructions, boundaries, the HALT
loop), and that the device tick comes (`periodic`). Nothing is assumed of the user, a
dialog or picker may stay, nor of the guest's commands.
The other specifications have safety only.

## Proofs

Eight modules, checked to the last leaf by TLAPS, for every value of the constants;
the runs check the same properties on small instances. In the suites a theorem is about
the suite's specification: its invariant is the conjunction over `driven` of one
invariant for each component, and a step of one component leaves the others alone.

**`PcTimersProofs`**, for any number of timers, interval and delays. The
inductive invariant `IInv` adds to the type and to `NoDeadlineInsidePeriod`: that
the counter timer is active, continuous and has its interval (`ClockRuns`:
without it a period could end with nothing to count down to); that armed timers
have a positive period (`ArmedHavePeriod`: else a reload would end a period at
once); that unused slots are untouched (`OthersUnused`); and that a callback runs
only for a triggered timer (`CursorAtTriggered`). `Countdown` preserves the
central conjunct by comparing the new deadline with what is left, and the handler
by taking a minimum, whose existence is the well-foundedness of the naturals.
`Refinement` shows that every step is a step of `AlarmClock` or a stutter; it
rests on lemmas that the due instant of an alarm, and the present instant, do not
change when elapsed ticks are moved from the countdown to the timers.

**`PicProofs`**, for any number of pins, devices, commands and masks. `IInv` says
of each chip (`Sound`) that its registers are pins, requests have their lines and
a signalled choice is not in service; that the cascade is never level triggered
(`CascadeOnEdge`, which the acknowledge needs to clear the request); and that
INTR follows the master. Each command either changes a chip without touching INT
or is a change followed by a service, so most actions are two lemmas
(`UpdateKeepsIInv`, `ServiceAsKeepsIInv`) applied to a chip that is still `Sound`.
`NoRequestStranded`, `NestingIsKept` and `CascadeIsKept` are about single steps: a
service that follows a change leaves no eligible request unannounced, what it
chooses outranks all that is in service, and the slave's choice and the cascade
are changed together.

**`StorageProofs`**, for images and files of any size. `StorageReadsBack` is the
refinement: each driver implements the abstract disk, and the file the abstract file,
one step at a time and through crashes. What each invariant needs beyond its type:

- `VdiIInv`: what is not dirty is in the file, and between close's two writes the
  file has the whole table; no two blocks share a place (`VdiWhole`), until a close
  is torn; a block in memory that was not written is what the file holds.
- `VhdIInv`: how far the allocation is between its four writes (`VhdTables`), where the
  footer ends (`VhdEnds`); that places not yet in use hold zeros, so that a new block
  reads as before (`VhdFresh`); that the sector being written is marked.
- `VmdkIInv`: the table in memory is the one in the file, no two grains share a place
  and none is behind the end; the copy is never ahead. Until a missing table is
  asked for, the file is positioned at the grain in memory (`VmdkPosition`).
- `FilesIInv`: a handle knows the length of its stream, what is clean is durable, and in
  `wpb_flush_all` the handles that have been passed are clean.

In each, what memory and file would read as after an abrupt end is one of the
`versions` that the abstract disk allows. `SectorsAreMarked` and `FlushAllIsEnough` are
properties of steps and follow from the same invariants. The host's file is one file:
its constant is the model value `image`.

**`NatTcpProofs`** and **`NetworkProofs`**, for any numbers of flows, bytes, segments,
losses, retransmissions and datagrams. Towards the remote host, a TCP flow is sound when
the bytes that have arrived there, those its socket is storing and those in the socket's
queue follow each other without a gap or a repetition up to the sequence number that the
flow expects next (`HandleSound`, `FlowSound`); the maps have the flow exactly while
its socket may call back (`KeysMatchFlows`); and a handle that was not given out is
untouched (`UnusedSound`, which opening a flow needs). No step of a socket's
continuation, of the guest or of the timer disturbs another handle, so each action
is a lemma about one record.

Towards the guest, the argument is that what was told is never changed (`Told`). To every
handle belong a key, an initial sequence number and the number of bytes that were read
from the remote host and given up before the connection stood; the byte with number n of
the stream has one sequence number for good. Every frame in the queue, every segment
that waits for an acknowledgement and everything that the guest has read is numbered by
it (`HandleTold`, `FrameTold`, `GuestTold`), so that a segment that is sent again, late, or after
the flow is gone still says the same. Each step moves the socket's and the guest's part of this onward
(`Onward`, `GuestOnward`) and takes back nothing that was said. Retransmissions and
acknowledgements work through a queue from its head, by recursive functions in the model;
that each element keeps what it said is proved by looking at the first one that would
not, the least index of a set. That the stream is over is told only for the number that
follows its last byte (`Over`). So the guest reads consecutive bytes (`GuestReadsInOrder`), from the
first that was read from the remote host after the connection stood, and one that sees the
end has read all of those. What came before, `OnTcpData` has dropped.

A UDP flow is sound when the datagrams given to it are, in order, sent, in the socket's
task or queued (`UdpSound`), with the one exception of the datagram whose sender saw the
socket unconnected (`SenderSound`). `NetworkProofs` proves this, puts the three together
and gives `TypeOK`, `FlowsAgree`, `SentAsGiven` and `GuestReadsInOrder` of the suite.

**`EmulatorProofs`** has one invariant for each of three machines, the page with the
emulator's thread, the loop of the CPU and the interval timer:

- `ControlIInv`, for any set of user and guest actions and any number of keys: work is
  queued once at most, a stop only when it was asked for, a panic only while the
  emulator waits with it (`QueueSound`); the delay before the exit leaves an emulator
  that was asked to stop the polls it still needs (`StopSound`: one, or two with a
  reset pending; the reason why `GracePolls` is at least 2); the last key that is queued, or
  what the guest knows, is what the page shows (`KeysSound`).
- `EventsIInv`, for any number of events: whatever is pending is noted in `async_event` at
  all times, not only at a boundary (`AsyncSound`); traps and inhibits last as long as
  they should (`PlaceSound`, `StepSound`, `ShadowSound`); the error number counts the
  exceptions raised within each other (`ChainSound`).
- `TimerIInv`, for any base of the digits, tick and timers: a latched count has been read up
  to the byte that the pair says (`LatchSound`), and a one-shot whose output is low has
  counted down by exactly its ticks (`OneShotSound`).

**`DevicesProofs`**, for any sizes of queues and ring and any sets of keys, commands,
settings, frames and blocks. One invariant for each device that is driven:

- keyboard (`KbdSound`): the bytes in the queues are whole packets and scan codes, codes
  that are queued or in the output buffer increase in the order of the keys, and unless
  bytes of keyboard and mouse have met, the line that is high is that of the byte in the
  buffer. `KbdOrder` is about a step: a code that disappears is the least one that was
  pending, or a command that empties the queue has been obeyed.
- network card (`CardLine`, `CardRing`): an event is requested, served or masked; between
  the driver's boundary and the card's page lie the frames that were stored and not read,
  each whole, in order, and with the number of its page, its length and the place of the
  next one in it; the driver's place in the first frame is a page of it. A frame is
  stored only if a page stays free, so a full ring is never taken for an empty one; the
  ring has at least two pages.
- clock (`ClockSound`) and sound card (`SoundSound`): the line is high while something is pending,
  unless it was left so by a reset, and what is read between two updates is one time.

They give `InterruptsAreSeen`, `NothingTorn` and `KeysReadInOrder`.

**`CpuProofs`**, for any pages, slots, address spaces and edits of the tables. `PagingSound`
says that what the tables say now has been allowed since the guest last asked that
translations be forgotten, that each entry of the TLB grants no more than that and sits in
its slot (`EntryAllowed`), that the entries of the tables it came through carry the marks it
needs (`EntryMarked`), and that the fetch window is one such grant unless A20 has moved
(`WindowSound`). A walk keeps rights and adds marks (`WalkMarks`, `SlotFilled`), an edit of the
tables adds to what is allowed. It gives `TranslationIsAllowed`.

Assumptions are the named ones of the modules (`ConstantsAssumption`): sizes are positive
numbers, sets of keys, ports and choices are what their names say, and at least two polls
fit the delay. TLC evaluates them in every run.

Only model-checked:

- liveness and everything under fairness, beyond the prover: `NothingPendsForever` and
  `NothingIsLeftWaiting`;
- of `emulator`, `TypeOK`, `PictureIsRight` and `UnitIsRight`: the graphics card and the
  floating-point unit compare large tables of cases, which TLC enumerates;
- of `devices`, `TypeOK`, `NothingStalls` and `MovesWhatWasAsked`;
- of `cpu`, `TypeOK`, `FlagsAreExact`, `FaultsRestart` and `PrivilegeIsKept`: flags are worked out
  by folds over the bits of an operand, and induction over data is beyond the prover; instructions and
  transfers are long tables of cases over small numbers, which TLC enumerates completely.

## Disagreements with the code

- `pic_cascade`: initializing the master while a slave interrupt is pending clears
  the request but not the line of the cascade. The slave's next signal finds the
  line high and is not passed on, against the comment "request IRQ 2 on master
  pic". A later end of the slave's request lowers the line again.
- `vmdk_sparse`: a seek into a table that does not exist flushes the grain in
  memory, which moves the file, and leaves the grain in memory. Its next write and
  flush go one grain too far, against the comment "Assume that the file is already
  at the position for the current tlb".
- `host_paused`: `wpb_flush_all` is to be called "before exit()"; stopping a paused
  machine does not resume it, and the process ends unflushed. The same happens
  when the stop is handled before a panic's dialog is shown: nobody answers, and
  the emulator's thread waits until the process ends.
- `cmos_frozen`: with bit 7 of status register B the guest's copy of the time is
  "frozen", to be accessed "without regard for an occurance of an update". The bit
  is looked at before the 244 microseconds of the update flag; set in between, it
  does not keep the update from overwriting the copy (`cmos.cc:655`).
- `sound_wide`: a block's length is a "number of samples - not number of bytes". The
  16-bit DMA handler counts words down from a number of bytes, so a 16-bit block
  takes twice its samples (`sb16.cc:962`, `1246-1261`).

The exceptions named in properties ("Only...") are behaviour of the code that no
document of it forbids.

## What is not modelled

- Files that this configuration compiles to nothing or never uses: MMX, SSE,
  3DNow!, APIC, the soft floating point behind them; `pit82c54.cc`, `pit_wrap.cc`
  and so `virt_timer.cc`, which has no user; the image classes of `harddrv.cc` that
  are not instantiated; serial and parallel ports, whose `init` returns at once.
- What is data rather than control: the decoder and the results of instructions,
  the FPU's arithmetic (a number is its kind and sign; C1 and the addresses of the
  last instruction are left out), memory's address decoding,
  colours and glyphs, sound synthesis and the mixer, calendar arithmetic, contents
  of frames and their check sums, ARP, ICMP, DHCP and DNS answers (each computed
  from one frame, with no state).
- Without behaviour over time that matters here: configuration and parameters,
  plug-ins, the start page and the image creator; the state file has no caller.
- Still to come: step 11 of the plan.
- Within the modelled parts: the width of sequence numbers; errors of the host's
  file system other than an end of the process; two threads calling the file
  layer at once (all calls are the emulator's); registration of files, which
  happens once, before the machine starts; the paste buffer; in `Vga`, reads of registers, the
  cursor, character sets, panning, odd and even planes, doublewords and text characters
  of nine pixels; in `Restart`, segment limits and types; in `Transfers`, 16-bit gates and tasks, the LDT, limits, TF and RF,
  and long mode, which this configuration does not have.
