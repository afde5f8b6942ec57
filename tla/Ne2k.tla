-------------------------------- MODULE Ne2k --------------------------------
(***************************************************************************)
(* The NE2000 network card (iodev/ne2k.cc): the ring of receive pages, the *)
(* remote DMA port through which the guest reads it, the interrupt status  *)
(* and mask registers, and the timer that completes a transmission.  The   *)
(* network side calls rx_frame between any two accesses of the guest.  The *)
(* guest's driver is external: it serves an interrupt by acknowledging an  *)
(* event before it looks at what the event announced, and leaves when no   *)
(* event is left.  Memory is counted in pages: the bytes of a page, the    *)
(* transmit buffer and the multicast hash are left out.                    *)
(***************************************************************************)
EXTENDS Integers, Sequences, IrqLines

CONSTANTS
  First,         \* the ring's first page
  Pages,         \* pages of the ring
  FramePages,    \* pages a frame may take, its header included
  MaxFrames,     \* bound: frames stored
  MaxWrites      \* bound: transmissions, mask and command writes

Stop == First + Pages
Ring == First .. (Stop - 1)
Events == {"rx", "tx"}
Line == 3

ConstantsOK ==
  /\ First \in Nat \ {0} /\ Pages \in Nat \ {0, 1}
  /\ FramePages \subseteq Nat \ {0} /\ MaxFrames \in Nat /\ MaxWrites \in Nat

VARIABLES
  s,             \* the card
  mem,           \* what each page of the ring holds: part "part" of frame "frame"
  timer,         \* whether the transmit timer is running
  pic,           \* its interrupt line
  drv,           \* the driver: see DriverType
  stored, read,  \* history: frames put in the ring, frames the driver has read
  masked,        \* history: pending or lost events that happened while masked
  writes         \* transmissions, mask and command writes so far

vars == <<s, mem, timer, pic, drv, stored, read, masked, writes>>

Blank == [frame |-> 0, part |-> 0, next |-> 0, pages |-> 0]

\* lag: the page the driver leaves behind the one it reads next (0 or 1);
\* next: the page of the next frame; got: parts read of it; waiting: it waits
\* for a transmission to complete
DriverType ==
  [lag : {0, 1}, ready : BOOLEAN, handling : BOOLEAN, draining : BOOLEAN, waiting : BOOLEAN,
   next : 0 .. Stop, got : Seq([frame : 0 .. MaxFrames, part : Nat])]

TypeOK ==
  /\ s \in [stop : BOOLEAN, start : BOOLEAN, ISR : SUBSET {"rx", "tx", "rdma", "reset"}, IMR : SUBSET Events,
         loop : {"none", "back", "deaf"}, promisc : BOOLEAN, page_start : {0, First}, page_stop : {0, Stop},
         bound_ptr : 0 .. Stop, curr_page : 0 .. Stop, remote_dma : 0 .. Stop, remote_bytes : Nat,
         tx_timer_active : BOOLEAN]
  /\ DOMAIN mem = Ring
  /\ timer \in BOOLEAN /\ pic \in IrqType({Line}) /\ drv \in DriverType
  /\ stored \in 0 .. MaxFrames /\ read \in 0 .. stored
  /\ masked \subseteq Events /\ writes \in 0 .. MaxWrites

reset ==
  [stop |-> TRUE, start |-> FALSE, ISR |-> {"reset"}, IMR |-> {}, loop |-> "none", promisc |-> FALSE,
   page_start |-> 0, page_stop |-> 0, bound_ptr |-> 0, curr_page |-> 0, remote_dma |-> 0, remote_bytes |-> 0,
   tx_timer_active |-> FALSE]

Idle(lag) ==
  [lag |-> lag, ready |-> FALSE, handling |-> FALSE, draining |-> FALSE, waiting |-> FALSE,
   next |-> 0, got |-> <<>>]

Init ==
  /\ s = reset /\ mem = [p \in Ring |-> Blank] /\ timer = FALSE /\ pic = NoIrq
  /\ drv \in {Idle(0), Idle(1)}
  /\ stored = 0 /\ read = 0 /\ masked = {} /\ writes = 0

-----------------------------------------------------------------------------
(* The ring. *)

After(p, n) == IF p + n >= Stop THEN p + n - Pages ELSE p + n

avail ==
  IF s.curr_page < s.bound_ptr THEN s.bound_ptr - s.curr_page
  ELSE (s.page_stop - s.page_start) - (s.curr_page - s.bound_ptr)

\* A variant of Fits that lets a frame fill the ring.
FitsExactly(n) == n <= avail

\* The ring is never filled: a frame that would take the last page is dropped.
Fits(n) == n < avail

Listening == ~s.stop /\ s.page_start # 0 /\ s.loop # "deaf"

\* A variant of Signal that raises the line and leaves no bit.
Forgotten(r, b) == s' = r /\ pic' = IF b \in r.IMR THEN raise_irq(pic, Line) ELSE pic

\* An event: its bit is set, and the line raised when the event is enabled.
Signal(r, b) ==
  /\ s' = [r EXCEPT !.ISR = @ \union {b}]
  /\ pic' = IF b \in r.IMR THEN raise_irq(pic, Line) ELSE pic

Marked(b) == IF b \in s.IMR THEN masked \ {b} ELSE masked \union {b}

\* rx_frame of a frame of n pages that the address filter lets through when
\* "mine", or else only in promiscuous mode.
rx_frame(n, mine) ==
  LET nextpage == After(s.curr_page, n)
      at(k) == After(s.curr_page, k)
  IN  IF Listening /\ Fits(n) /\ (mine \/ s.promisc)
      THEN /\ stored < MaxFrames /\ stored' = stored + 1
           /\ mem' = [p \in Ring |->
                IF \E k \in 0 .. (n - 1) : at(k) = p
                THEN [frame |-> stored + 1, part |-> 1 + CHOOSE k \in 0 .. (n - 1) : at(k) = p,
                      next |-> nextpage, pages |-> n]
                ELSE mem[p]]
           /\ Signal([s EXCEPT !.curr_page = nextpage], "rx")
           /\ masked' = Marked("rx")
      ELSE UNCHANGED <<s, mem, pic, stored, masked>>

Receive ==
  /\ \E n \in FramePages, mine \in BOOLEAN : rx_frame(n, mine)
  /\ UNCHANGED <<timer, drv, read, writes>>

-----------------------------------------------------------------------------
(* Accesses of the guest. *)

Written == writes < MaxWrites /\ writes' = writes + 1

\* The driver starts the card after a reset: it sets up the ring and enables
\* its interrupts.
Setup ==
  /\ ~drv.ready
  /\ \E promisc \in BOOLEAN, loop \in {"none", "back", "deaf"} :
       s' = [s EXCEPT !.stop = FALSE, !.start = TRUE, !.ISR = {}, !.IMR = Events, !.promisc = promisc, !.loop = loop,
                      !.page_start = First, !.page_stop = Stop, !.curr_page = First + drv.lag, !.bound_ptr = First]
  /\ drv' = [Idle(drv.lag) EXCEPT !.ready = TRUE, !.next = First + drv.lag]
  /\ UNCHANGED <<mem, timer, pic, stored, read, masked, writes>>

\* a write of the reset port; the transmit timer is not stopped
AsicReset ==
  /\ drv.ready /\ Written
  /\ s' = reset /\ pic' = lower_irq(pic, Line)
  /\ mem' = [p \in Ring |-> Blank]
  /\ drv' = Idle(drv.lag)
  /\ read' = stored /\ masked' = {}
  /\ UNCHANGED <<timer, stored>>

\* write_cr: the card is stopped, or started again
StopCard ==
  /\ drv.ready /\ ~s.stop /\ Written
  /\ s' = [s EXCEPT !.stop = TRUE, !.start = FALSE, !.ISR = @ \union {"reset"}]
  /\ UNCHANGED <<mem, timer, pic, drv, stored, read, masked>>

StartCard ==
  /\ drv.ready /\ s.stop
  /\ s' = [s EXCEPT !.stop = FALSE, !.start = TRUE, !.ISR = @ \ {"reset"}]
  /\ UNCHANGED <<mem, timer, pic, drv, stored, read, masked, writes>>

\* write_cr: a transmission.  One that loops back is received at once, and
\* completes with no transmit event.
Transmit ==
  /\ drv.ready /\ s.start /\ ~drv.waiting /\ s.loop = "none" /\ Written
  /\ timer' = TRUE
  /\ s' = [s EXCEPT !.tx_timer_active = TRUE]
  /\ drv' = [drv EXCEPT !.waiting = TRUE]
  /\ masked' = masked \ {"tx"}
  /\ UNCHANGED <<mem, pic, stored, read>>

LoopBack ==
  /\ drv.ready /\ s.loop # "none" /\ Written
  /\ \E n \in FramePages : rx_frame(n, TRUE)
  /\ UNCHANGED <<timer, drv, read>>

\* a completion is announced, and recorded at all, only when it is enabled
tx_timer ==
  /\ timer /\ timer' = FALSE
  /\ IF "tx" \in s.IMR /\ "tx" \notin s.ISR
     THEN Signal([s EXCEPT !.tx_timer_active = FALSE], "tx") /\ masked' = masked
     ELSE /\ s' = [s EXCEPT !.tx_timer_active = FALSE]
          /\ masked' = IF "tx" \in s.IMR THEN masked ELSE masked \union {"tx"}
          /\ UNCHANGED pic
  /\ UNCHANGED <<mem, drv, stored, read, writes>>

\* page0_write of the mask: an event that is already pending is not raised
WriteIMR ==
  /\ drv.ready /\ Written
  /\ \E m \in SUBSET Events : m # s.IMR /\ s' = [s EXCEPT !.IMR = m]
  /\ UNCHANGED <<mem, timer, pic, drv, stored, read, masked>>

\* page0_write of the status: bits are cleared, and the line falls when no
\* enabled event is left
Cleared(b) ==
  /\ s' = [s EXCEPT !.ISR = @ \ {b}]
  /\ pic' = IF (s.ISR \ {b}) \intersect s.IMR = {} THEN lower_irq(pic, Line) ELSE pic

-----------------------------------------------------------------------------
(* The driver (external). *)

TakeInterrupt ==
  /\ Line \in pic.irr /\ drv.ready /\ ~drv.handling
  /\ pic' = take_irq(pic, Line)
  /\ drv' = [drv EXCEPT !.handling = TRUE]
  /\ UNCHANGED <<s, mem, timer, stored, read, masked, writes>>

Acknowledge(b) ==
  /\ drv.handling /\ b \in s.ISR
  /\ Cleared(b)
  /\ drv' = IF b = "rx" THEN [drv EXCEPT !.draining = TRUE] ELSE [drv EXCEPT !.waiting = FALSE]
  /\ masked' = masked \ {b}
  /\ UNCHANGED <<mem, timer, stored, read, writes>>

HandlerReturns ==
  /\ drv.handling /\ ~drv.draining /\ s.ISR \intersect Events = {}
  /\ drv' = [drv EXCEPT !.handling = FALSE]
  /\ UNCHANGED <<s, mem, timer, pic, stored, read, masked, writes>>

\* The driver finds a frame, reads its header and sets up remote DMA for the
\* whole of it: by registers, or by the send-packet command, which starts at
\* the boundary page and takes the length from the header there.
StartFrame ==
  /\ drv.draining /\ drv.next # s.curr_page /\ drv.got = <<>> /\ s.remote_bytes = 0
  /\ \E from \in {drv.next, s.bound_ptr} :
       /\ from = drv.next \/ (drv.lag = 0 /\ from = s.bound_ptr)
       /\ s' = [s EXCEPT !.remote_dma = from, !.remote_bytes = mem[from].pages]
  /\ UNCHANGED <<mem, timer, pic, drv, stored, read, masked, writes>>

\* asic_read, a page of it: the address wraps at the end of the ring
NextAddress == IF s.remote_dma + 1 = s.page_stop THEN s.page_start ELSE s.remote_dma + 1

asic_read ==
  /\ s.remote_bytes > 0
  /\ s' = [s EXCEPT !.remote_dma = NextAddress, !.remote_bytes = @ - 1,
                    !.ISR = IF s.remote_bytes = 1 THEN @ \union {"rdma"} ELSE @]
  /\ drv' = [drv EXCEPT !.got = Append(@, [frame |-> mem[s.remote_dma].frame, part |-> mem[s.remote_dma].part])]
  /\ UNCHANGED <<mem, timer, pic, stored, read, masked, writes>>

\* The frame is read: the driver moves the boundary to it, less its lag.
FinishFrame ==
  LET next == mem[drv.next].next
  IN  /\ drv.got # <<>> /\ s.remote_bytes = 0
      /\ s' = [s EXCEPT !.bound_ptr = IF next - drv.lag < First THEN Stop - 1 ELSE next - drv.lag,
                        !.ISR = @ \ {"rdma"}]
      /\ drv' = [drv EXCEPT !.next = next, !.got = <<>>]
      /\ read' = read + 1
      /\ UNCHANGED <<mem, timer, pic, stored, masked, writes>>

RingDrained ==
  /\ drv.draining /\ drv.next = s.curr_page /\ drv.got = <<>>
  /\ drv' = [drv EXCEPT !.draining = FALSE]
  /\ UNCHANGED <<s, mem, timer, pic, stored, read, masked, writes>>

Next ==
  \/ Receive \/ Setup \/ AsicReset \/ StopCard \/ StartCard
  \/ Transmit \/ LoopBack \/ tx_timer \/ WriteIMR
  \/ TakeInterrupt \/ (\E b \in Events : Acknowledge(b)) \/ HandlerReturns
  \/ StartFrame \/ asic_read \/ FinishFrame \/ RingDrained

Spec == Init /\ [][Next]_vars

-----------------------------------------------------------------------------
\* What the driver reads of the ring is the next frame received, part by part
\* and without a gap: whatever arrives meanwhile overwrites no unread page,
\* and the pages are followed over the end of the ring.
FramesReadWhole ==
  \A k \in 1 .. Len(drv.got) : drv.got[k] = [frame |-> read + 1, part |-> k]

\* A frame that waits in the ring while its event is enabled is known to the
\* driver: the event is pending and requested, or the driver is at work; unless
\* the frame arrived while the event was masked.  Enabling it later does not
\* request it.
EnabledFrameIsAnnounced ==
  drv.ready /\ drv.next # s.curr_page /\ "rx" \in s.IMR =>
    \/ drv.draining
    \/ "rx" \in s.ISR /\ (Line \in pic.irr \/ drv.handling)
    \/ "rx" \in masked

\* A driver that waits for its transmission is going to be told: the timer
\* runs, or the completion is pending and requested; unless it came while the
\* event was masked, which forgets it.
OnlyMaskedCompletionIsLost ==
  drv.waiting =>
    \/ timer
    \/ "tx" \in s.ISR /\ (Line \in pic.irr \/ drv.handling)
    \/ "tx" \in masked
=============================================================================
