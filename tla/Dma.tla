--------------------------------- MODULE Dma ---------------------------------
(***************************************************************************)
(* The two DMA controllers (iodev/dma.cc), as operators on their registers *)
(* d.  Channels 0 to 3 belong to the first, whose request to the CPU goes  *)
(* through channel 4 of the second.  The device of a channel is called     *)
(* with each datum, and told with the last one that the count is at its    *)
(* end: the modules of the devices say what it does.  Addresses are left   *)
(* out, and the boundaries and modes that the code panics at.              *)
(***************************************************************************)
EXTENDS Integers, FiniteSets, IrqLines

VARIABLES
  dma,             \* the DMA controllers
  pic              \* the interrupt lines of the devices

Slave == 0 .. 3
Master == 4 .. 7
Cascade == 4
NoChannel == -1
LeastOf(S) == CHOOSE x \in S : \A y \in S : x <= y

DmaType(Channels, MaxCount) ==
  [requests : SUBSET (Channels \union {Cascade}), masked : SUBSET (Slave \union Master),
   count : [Channels -> -1 .. MaxCount], base : [Channels -> 0 .. MaxCount], auto : SUBSET Channels,
   inward : SUBSET Channels,    hrq : BOOLEAN]

\* reset_controller: every channel is masked.  The cascade has been opened since.
DmaReset(Channels) ==
  [requests |-> {}, masked |-> (Slave \union Master) \ {Cascade}, count |-> [c \in Channels |-> 0],
   base |-> [c \in Channels |-> 0], auto |-> {}, inward |-> {}, hrq |-> FALSE]

Ready(d, C) == (d.requests \intersect C) \ d.masked

\* control_HRQ: a request that is masked changes nothing.
CpuAsked(d) ==
  IF d.requests \intersect Master = {} THEN [d EXCEPT !.hrq = FALSE]
  ELSE [d EXCEPT !.hrq = @ \/ Ready(d, Master) # {}]

CascadeSet(d, on) == CpuAsked([d EXCEPT !.requests = IF on THEN @ \union {Cascade} ELSE @ \ {Cascade}])

control_HRQ(d, channel) ==
  IF channel \in Master THEN CpuAsked(d)
  ELSE IF d.requests \intersect Slave = {} THEN CascadeSet(d, FALSE)
  ELSE IF Ready(d, Slave) # {} THEN CascadeSet(d, TRUE)
  ELSE d

set_DRQ(d, channel, on) ==
  control_HRQ([d EXCEPT !.requests = IF on THEN @ \union {channel} ELSE @ \ {channel}], channel)

\* What the guest programs: the count and the restart of a channel that it masks
\* first, and then opens.  The wrong version leaves the request line alone.
UnmaskedOnly(d, channel) == [d EXCEPT !.masked = @ \ {channel}]
Unmasked(d, channel) == control_HRQ([d EXCEPT !.masked = @ \ {channel}], channel)

Masked(d, channel) == control_HRQ([d EXCEPT !.masked = @ \union {channel}], channel)

Programmed(d, channel, n, auto, inward) ==
  LET closed == Masked(d, channel) IN
  Unmasked([closed EXCEPT !.count[channel] = n - 1, !.base[channel] = n - 1,
                          !.auto = IF auto THEN @ \union {channel} ELSE @ \ {channel},
                          !.inward = IF inward THEN @ \union {channel} ELSE @ \ {channel}], channel)

-----------------------------------------------------------------------------
(* raise_HLDA, once the CPU has given the bus away. *)

Granted(d) ==
  LET first == Ready(d, Master) IN
  IF first = {} THEN NoChannel
  ELSE IF LeastOf(first) # Cascade THEN LeastOf(first)
  ELSE IF Ready(d, Slave) = {} THEN NoChannel ELSE LeastOf(Ready(d, Slave))

\* The count is taken before the device is called.
AtItsEnd(d, channel) == d.count[channel] = 0

Counted(d, channel) ==
  IF ~AtItsEnd(d, channel) THEN [d EXCEPT !.count[channel] = @ - 1]
  ELSE IF channel \in d.auto THEN [d EXCEPT !.count[channel] = d.base[channel]]
  ELSE [d EXCEPT !.count[channel] = -1, !.masked = @ \union {channel}]

\* After the device: at the end of the count the requests are dropped, those of the
\* other channels as well.
Ended(d, channel, atEnd) ==
  IF ~atEnd THEN d
  ELSE IF channel \in Slave THEN CascadeSet([d EXCEPT !.hrq = FALSE], FALSE) ELSE [d EXCEPT !.hrq = FALSE]

\* A request that nothing masks does not reach the CPU, or does not get the bus.
Stranded(d) == (Ready(d, Slave \union Master) \ {Cascade}) # {} /\ (~d.hrq \/ Granted(d) = NoChannel)
=============================================================================
