------------------------------- MODULE NatTcp -------------------------------
(***************************************************************************)
(* The TCP half of the NAT that connects the guest's network card to the   *)
(* host's sockets (iodev/eth_nat.cc over wpb_net_io.cpp).                  *)
(*                                                                         *)
(* The guest's segments are handled, and the frames for the guest are      *)
(* delivered and retransmitted, on the emulator's thread.  Connections,    *)
(* data and ends of stream from the host's sockets arrive on the thread    *)
(* pool, for one socket possibly on two threads at once.  flow_mutex makes *)
(* each handler one step; what a task does before it takes flow_mutex is a *)
(* step of its own.                                                        *)
(*                                                                         *)
(* A payload is one byte, named by its place in the stream: the guest's    *)
(* k-th byte has sequence number k after the guest's initial one, and so   *)
(* for the bytes of the remote host.  Segments that only acknowledge are   *)
(* not queued: the guest's retransmissions are unconstrained without them. *)
(***************************************************************************)
EXTENDS Integers, FiniteSets, SequencesExt, TcpSocket

CONSTANTS
  Keys,               \* the guest's <<port, address, port>> triples
  MaxHandle,          \* bound: connections the NAT opens
  MaxGuest,           \* bound: bytes the guest sends on a connection
  MaxRemote,          \* bound: bytes the remote host sends on a connection
  RetransmitTicks,    \* TCP_RETRANSMIT_TICKS: ticks before a retransmission
  MaxRetries,         \* TCP_MAX_RETRIES: retransmissions before the flow is given up
  MaxLost             \* bound: frames the guest's network card drops

ConstantsOK ==
  /\ MaxHandle \in Nat \ {0} /\ MaxGuest \in Nat /\ MaxRemote \in Nat
  /\ RetransmitTicks \in Nat \ {0} /\ MaxRetries \in Nat
  /\ MaxLost \in Nat

VARIABLES
  tcp_by_key,         \* the handle of each key, or None
  flow,               \* tcp_by_handle: the flow of each handle, or NoFlow
  socket,             \* s_tcp, and the tasks of each socket
  rx_queue,           \* frames for the guest
  draining,           \* the timer handler is between delivery and retransmission
  next_handle,        \* s_nextHandle
  remote,             \* the remote end of each socket, with the number of its bytes
                      \* that came too early to be passed on
  guest,              \* the guest's end of each key
  lost                \* frames dropped so far

nat == <<tcp_by_key, flow, socket, rx_queue, next_handle>>
vars == <<nat, draining, remote, guest, lost>>

Handle == 1 .. MaxHandle
GuestByte == 1 .. MaxGuest
RemoteByte == 1 .. MaxRemote
None == 0

\* A segment from the NAT to the guest.  "isn" tells the guest's connections
\* on one key apart, "handle" the NAT's.
Segment ==
  [key : Keys, handle : Handle, isn : Nat, kind : {"synack", "data", "fin", "rst"},
   seq : Nat, byte : {None} \cup RemoteByte]

Pending == [seq_end : Nat, raw : Segment, age : 0 .. RetransmitTicks, retries : 0 .. MaxRetries]

Flow == [key : Keys, isn : Nat, guest_next_seq : Nat, our_next_seq : Nat,
         established : BOOLEAN, unacked : Seq(Pending)]

NoFlow == [established |-> FALSE]

TypeOK ==
  /\ tcp_by_key \in [Keys -> {None} \cup Handle]
  /\ \A h \in Handle : flow[h] = NoFlow \/ flow[h] \in Flow
  /\ socket \in [Handle -> SocketType(GuestByte)]
  /\ rx_queue \in Seq(Segment)
  /\ draining \in BOOLEAN
  /\ next_handle \in 1 .. MaxHandle + 1
  /\ remote \in [Handle -> [sent : 0 .. MaxRemote, read : 0 .. MaxRemote, early : 0 .. MaxRemote,
                            received : Seq(GuestByte)]]
  /\ guest \in [Keys -> [state : {"closed", "connecting", "open", "finished"}, isn : Nat,
                         handle : {None} \cup Handle, sent : 0 .. MaxGuest,
                         got : Seq(RemoteByte), ended : BOOLEAN]]
  /\ lost \in 0 .. MaxLost

Init ==
  /\ tcp_by_key = [k \in Keys |-> None]
  /\ flow = [h \in Handle |-> NoFlow]
  /\ socket = [h \in Handle |-> Unopened]
  /\ rx_queue = <<>>
  /\ draining = FALSE
  /\ next_handle = 1
  /\ remote = [h \in Handle |-> [sent |-> 0, read |-> 0, early |-> 0, received |-> <<>>]]
  /\ guest = [k \in Keys |-> [state |-> "closed", isn |-> 0, handle |-> None, sent |-> 0,
                              got |-> <<>>, ended |-> FALSE]]
  /\ lost = 0

-----------------------------------------------------------------------------
(* Frames to the guest.                                                    *)

SegmentOf(h, kind, byte) ==
  [key |-> flow[h].key, handle |-> h, isn |-> flow[h].isn, kind |-> kind,
   seq |-> flow[h].our_next_seq, byte |-> byte]

\* send_tcp_segment and send_synack on flow f: a segment that consumes a
\* sequence number is kept until it is acknowledged.
Sending(f, seg) ==
  [f EXCEPT !.our_next_seq = @ + 1,
            !.unacked = Append(@, [seq_end |-> f.our_next_seq + 1, raw |-> seg,
                                   age |-> 0, retries |-> 0])]

\* A variant of EraseFlow that leaves the key behind.
EraseFlowKeepsKey(h) ==
  /\ UNCHANGED tcp_by_key
  /\ flow' = [flow EXCEPT ![h] = NoFlow]

\* tcp_by_key.erase and tcp_by_handle.erase
EraseFlow(h) ==
  /\ tcp_by_key' = [tcp_by_key EXCEPT ![flow[h].key] = None]
  /\ flow' = [flow EXCEPT ![h] = NoFlow]

rcv_nxt(g) == 1 + Len(g.got) + (IF g.ended THEN 1 ELSE 0)

\* What the guest's TCP makes of a segment.
Received(g, seg) ==
  CASE /\ seg.kind = "synack" /\ g.state = "connecting" /\ seg.isn = g.isn
         -> [g EXCEPT !.state = "open", !.handle = seg.handle]
    [] /\ seg.kind = "data" /\ g.handle = seg.handle /\ seg.seq = rcv_nxt(g) /\ ~g.ended
         -> [g EXCEPT !.got = Append(@, seg.byte)]
    [] /\ seg.kind = "fin" /\ g.handle = seg.handle /\ seg.seq = rcv_nxt(g) /\ ~g.ended
         -> [g EXCEPT !.ended = TRUE]
    [] /\ seg.kind = "rst" /\ seg.isn = g.isn
         -> [g EXCEPT !.state = "closed", !.handle = None]
    [] OTHER -> g

\* The guest's end of a key when the frames of the queue have been given to it,
\* one after another, but for those that are dropped.
GuestAfter(k, dropped) ==
  LET after[i \in 0 .. Len(rx_queue)] ==
        IF i = 0 THEN guest[k]
        ELSE IF i \in dropped \/ rx_queue[i].key # k THEN after[i - 1]
        ELSE Received(after[i - 1], rx_queue[i])
  IN  after[Len(rx_queue)]

\* A pending segment a tick later.
Older(p) == [p EXCEPT !.age = IF @ < RetransmitTicks THEN @ + 1 ELSE @]

\* The timer handler: the queue is swapped and its frames given to the network
\* card, which drops some of them.
DrainQueue ==
  /\ ~draining
  /\ draining' = TRUE
  /\ flow' = [h \in Handle |->
       IF flow[h] = NoFlow THEN NoFlow
       ELSE [flow[h] EXCEPT !.unacked = [i \in DOMAIN @ |-> Older(@[i])]]]
  /\ \E dropped \in SUBSET DOMAIN rx_queue :
       /\ lost + Cardinality(dropped) <= MaxLost
       /\ lost' = lost + Cardinality(dropped)
       /\ guest' = [k \in Keys |-> GuestAfter(k, dropped)]
  /\ rx_queue' = <<>>
  /\ UNCHANGED <<tcp_by_key, socket, next_handle, remote>>

Due(p) == p.age >= RetransmitTicks

\* A variant of Exhausted that allows one retransmission more.
ExhaustedLate(f) == {i \in DOMAIN f.unacked : Due(f.unacked[i]) /\ f.unacked[i].retries > MaxRetries}

Exhausted(f) == {i \in DOMAIN f.unacked : Due(f.unacked[i]) /\ f.unacked[i].retries >= MaxRetries}

\* The pending segments of a flow that are sent again: none after the first
\* that has been sent too often.
Resent(f) ==
  {i \in DOMAIN f.unacked : Due(f.unacked[i]) /\ \A j \in Exhausted(f) : i < j}

\* A variant of AfterResend that does not count.
AfterUncountedResend(f) ==
  [f EXCEPT !.unacked =
     [i \in DOMAIN @ |-> IF i \in Resent(f) THEN [@[i] EXCEPT !.age = 0] ELSE @[i]]]

SentAgain(p) == [p EXCEPT !.age = 0, !.retries = @ + 1]

AfterResend(f) ==
  [f EXCEPT !.unacked = [i \in DOMAIN @ |-> IF i \in Resent(f) THEN SentAgain(@[i]) ELSE @[i]]]

\* The elements of a sequence at some of its places.
Selected(q, places) ==
  LET part[i \in 0 .. Len(q)] ==
        IF i = 0 THEN <<>> ELSE IF i \in places THEN Append(part[i - 1], q[i]) ELSE part[i - 1]
  IN  part[Len(q)]

\* The queue with the frames of the first n flows that are sent again.
ResentFrames(f) == Selected([i \in DOMAIN f.unacked |-> f.unacked[i].raw], Resent(f))
QueueAfter(n) ==
  LET queue[h \in 0 .. n] ==
        IF h = 0 THEN rx_queue
        ELSE IF flow[h] = NoFlow THEN queue[h - 1] ELSE queue[h - 1] \o ResentFrames(flow[h])
  IN  queue[n]

\* CheckRetransmits: the flows in the order of their handles.
CheckRetransmits ==
  LET Alive == {h \in Handle : flow[h] # NoFlow}
      Dropped == {h \in Alive : Exhausted(flow[h]) # {}}
  IN  /\ draining
      /\ draining' = FALSE
      /\ rx_queue' = QueueAfter(MaxHandle)
      /\ flow' = [h \in Handle |-> IF h \in Alive \ Dropped THEN AfterResend(flow[h]) ELSE NoFlow]
      /\ tcp_by_key' = [k \in Keys |-> IF tcp_by_key[k] \in Dropped THEN None ELSE tcp_by_key[k]]
      /\ socket' = [h \in Handle |-> IF h \in Dropped THEN Closed(socket[h]) ELSE socket[h]]
      /\ UNCHANGED <<next_handle, remote, guest, lost>>

-----------------------------------------------------------------------------
(* Callbacks of the host's sockets, on the thread pool.                    *)

ConnectCompletes(h, ok) ==
  /\ socket[h].connecting = "pending"
  /\ socket' = [socket EXCEPT ![h] = Connected(@, ok)]
  /\ UNCHANGED <<tcp_by_key, flow, rx_queue, next_handle, draining, remote, guest, lost>>

\* OnTcpConnect
OnTcpConnect(h) ==
  /\ socket[h].connecting = "calling"
  /\ socket' = [socket EXCEPT ![h].connecting = "none"]
  /\ \/ /\ flow[h] = NoFlow
        /\ UNCHANGED <<tcp_by_key, flow, rx_queue>>
     \/ /\ flow[h] # NoFlow /\ ~socket[h].connected
        /\ rx_queue' = Append(rx_queue, SegmentOf(h, "rst", None))
        /\ EraseFlow(h)
     \/ /\ flow[h] # NoFlow /\ socket[h].connected
        /\ LET seg == SegmentOf(h, "synack", None)
           IN  /\ rx_queue' = Append(rx_queue, seg)
               /\ flow' = [flow EXCEPT ![h] = Sending([@ EXCEPT !.established = TRUE], seg)]
        /\ UNCHANGED tcp_by_key
  /\ UNCHANGED <<next_handle, draining, remote, guest, lost>>

\* A load completes with a byte, or with the end of the stream or an error.
LoadCompletes(h, some) ==
  /\ socket[h].reading = "loading"
  /\ some => remote[h].read < remote[h].sent
  /\ socket' = [socket EXCEPT ![h] = Loaded(@, some)]
  /\ remote' = [remote EXCEPT ![h].read = IF some /\ socket[h].open THEN @ + 1 ELSE @]
  /\ UNCHANGED <<tcp_by_key, flow, rx_queue, next_handle, draining, guest, lost>>

\* Data for a flow that is not established yet is dropped, and for one that is
\* gone.
DroppedEarly(h) ==
  remote' = [remote EXCEPT ![h].early = IF flow[h] # NoFlow THEN @ + 1 ELSE @]

\* A variant of OnTcpData that gives up when the emulator holds the frames.
OnTcpDataUnlessBusy(h) ==
  /\ socket[h].reading = "data"
  /\ socket' = [socket EXCEPT ![h].reading = "loading"]
  /\ \/ /\ flow[h].established /\ ~draining
        /\ LET seg == SegmentOf(h, "data", remote[h].read)
           IN  /\ rx_queue' = Append(rx_queue, seg)
               /\ flow' = [flow EXCEPT ![h] = Sending(@, seg)]
        /\ UNCHANGED remote
     \/ /\ flow[h].established => draining
        /\ IF flow[h].established THEN UNCHANGED remote ELSE DroppedEarly(h)
        /\ UNCHANGED <<rx_queue, flow>>
  /\ UNCHANGED <<tcp_by_key, next_handle, draining, guest, lost>>

\* OnTcpData, and the next load.
OnTcpData(h) ==
  /\ socket[h].reading = "data"
  /\ socket' = [socket EXCEPT ![h].reading = "loading"]
  /\ \/ /\ flow[h].established
        /\ LET seg == SegmentOf(h, "data", remote[h].read)
           IN  /\ rx_queue' = Append(rx_queue, seg)
               /\ flow' = [flow EXCEPT ![h] = Sending(@, seg)]
        /\ UNCHANGED remote
     \/ /\ ~flow[h].established
        /\ DroppedEarly(h)
        /\ UNCHANGED <<rx_queue, flow>>
  /\ UNCHANGED <<tcp_by_key, next_handle, draining, guest, lost>>

\* OnTcpClosed: the guest is told only if the flow is established, and the
\* flow is gone before the guest can acknowledge.
OnTcpClosed(h) ==
  /\ socket[h].reading = "end"
  /\ socket' = [socket EXCEPT ![h].reading = "none"]
  /\ rx_queue' = IF flow[h].established THEN Append(rx_queue, SegmentOf(h, "fin", None))
                                        ELSE rx_queue
  /\ IF flow[h] = NoFlow THEN UNCHANGED <<tcp_by_key, flow>> ELSE EraseFlow(h)
  /\ UNCHANGED <<next_handle, draining, remote, guest, lost>>

\* A chunk has been stored, or could not be.
StoreCompletes(h, ok) ==
  /\ socket[h].storing # <<>>
  /\ socket' = [socket EXCEPT ![h] = Stored(@, ok)]
  /\ remote' = [remote EXCEPT ![h].received = IF ok THEN @ \o socket[h].storing ELSE @]
  /\ UNCHANGED <<tcp_by_key, flow, rx_queue, next_handle, draining, guest, lost>>

\* The remote host sends a byte.
RemoteSends(h) ==
  /\ socket[h].connected
  /\ remote[h].sent < MaxRemote
  /\ remote' = [remote EXCEPT ![h].sent = @ + 1]
  /\ UNCHANGED <<nat, draining, guest, lost>>

-----------------------------------------------------------------------------
(* The guest's segments (handle_tcp).  A segment of the guest is a record   *)
(* of its flags, its sequence and acknowledgement numbers and its payload.  *)

Plain(k) == [isn |-> guest[k].isn, seq |-> 0, ack |-> rcv_nxt(guest[k]),
             byte |-> None, syn |-> FALSE, fin |-> FALSE, rst |-> FALSE]

\* A segment without a flow: a SYN opens one, anything else is ignored.
OpenFlow(k, seg) ==
  /\ tcp_by_key[k] = None
  /\ IF seg.syn
     THEN /\ next_handle <= MaxHandle
          /\ next_handle' = next_handle + 1
          /\ tcp_by_key' = [tcp_by_key EXCEPT ![k] = next_handle]
          /\ flow' = [flow EXCEPT ![next_handle] =
               [key |-> k, isn |-> seg.isn, guest_next_seq |-> 1, our_next_seq |-> 0,
                established |-> FALSE, unacked |-> <<>>]]
          /\ socket' = [socket EXCEPT ![next_handle] = Opened]
          /\ UNCHANGED rx_queue
     ELSE UNCHANGED nat

\* A variant of ResetFlow that does not close the socket.
ResetFlowOnly(k, seg) ==
  /\ tcp_by_key[k] # None /\ seg.rst
  /\ EraseFlow(tcp_by_key[k])
  /\ UNCHANGED <<socket, rx_queue, next_handle>>

ResetFlow(k, seg) ==
  /\ tcp_by_key[k] # None /\ seg.rst
  /\ EraseFlow(tcp_by_key[k])
  /\ socket' = [socket EXCEPT ![tcp_by_key[k]] = Closed(@)]
  /\ UNCHANGED <<rx_queue, next_handle>>

IgnoreSegment(k, seg) ==
  /\ tcp_by_key[k] # None /\ ~seg.rst
  /\ ~flow[tcp_by_key[k]].established \/ seg.syn
  /\ UNCHANGED nat

\* ack_pending
Acked(f, ack) == [f EXCEPT !.unacked = Selected(@, {i \in DOMAIN @ : @[i].seq_end > ack})]

\* A variant of InOrder that accepts whatever comes.
InAnyOrder(f, seg) == TRUE

InOrder(f, seg) == seg.seq = f.guest_next_seq

\* A segment of an established flow: the acknowledgement, then the payload,
\* then the FIN, which ends the flow and the socket at once.
AcceptSegment(k, seg) ==
  LET h == tcp_by_key[k]
      f == flow[h]
      takes == InOrder(f, seg) /\ seg.byte # None
      ends == InOrder(f, seg) /\ seg.fin
      now == IF takes THEN Sent(socket[h], seg.byte) ELSE socket[h]
  IN  /\ h # None /\ ~seg.rst /\ ~seg.syn
      /\ f.established
      /\ IF ends
         THEN /\ rx_queue' = Append(rx_queue, SegmentOf(h, "fin", None))
              /\ EraseFlow(h)
              /\ socket' = [socket EXCEPT ![h] = Closed(now)]
         ELSE /\ flow' = [flow EXCEPT ![h] =
                   [Acked(f, seg.ack) EXCEPT
                      !.guest_next_seq = IF takes THEN @ + 1 ELSE @]]
              /\ socket' = [socket EXCEPT ![h] = now]
              /\ UNCHANGED <<tcp_by_key, rx_queue>>
      /\ UNCHANGED next_handle

handle_tcp(k, seg) ==
  /\ ~draining
  /\ OpenFlow(k, seg) \/ ResetFlow(k, seg) \/ IgnoreSegment(k, seg) \/ AcceptSegment(k, seg)
  /\ UNCHANGED <<draining, remote, lost>>

\* The guest opens a connection, on a key whose last one is over, or sends its
\* SYN again.
GuestConnects(k) ==
  /\ \/ guest[k].state = "closed"
     \/ (guest[k].state = "finished" /\ guest[k].ended)
  /\ next_handle <= MaxHandle
  /\ guest' = [guest EXCEPT ![k] = [state |-> "connecting", isn |-> @.isn + 1, handle |-> None,
                                    sent |-> 0, got |-> <<>>, ended |-> FALSE]]
  /\ guest[k].isn < MaxHandle
  /\ handle_tcp(k, [Plain(k) EXCEPT !.syn = TRUE, !.isn = @ + 1])

GuestRetriesSyn(k) ==
  /\ guest[k].state = "connecting"
  /\ handle_tcp(k, [Plain(k) EXCEPT !.syn = TRUE])
  /\ UNCHANGED guest

\* A new byte, or one that has been sent before.
GuestSends(k, b) ==
  /\ guest[k].state \in {"open", "finished"}
  /\ guest[k].state = "finished" => b <= guest[k].sent
  /\ b <= guest[k].sent + 1
  /\ guest' = [guest EXCEPT ![k].sent = IF b > @ THEN b ELSE @]
  /\ handle_tcp(k, [Plain(k) EXCEPT !.seq = b, !.byte = b])

GuestAcks(k) ==
  /\ guest[k].state \in {"open", "finished"}
  /\ handle_tcp(k, Plain(k))
  /\ UNCHANGED guest

\* The guest ends its stream, or sends its FIN again.
GuestFinishes(k) ==
  /\ guest[k].state \in {"open", "finished"}
  /\ guest' = [guest EXCEPT ![k].state = "finished"]
  /\ handle_tcp(k, [Plain(k) EXCEPT !.seq = guest[k].sent + 1, !.fin = TRUE])

GuestResets(k) ==
  /\ guest[k].state # "closed"
  /\ guest' = [guest EXCEPT ![k].state = "closed", ![k].handle = None]
  /\ handle_tcp(k, [Plain(k) EXCEPT !.rst = TRUE])

Next ==
  \/ DrainQueue
  \/ CheckRetransmits
  \/ \E h \in Handle :
       \/ \E ok \in BOOLEAN : ConnectCompletes(h, ok) \/ StoreCompletes(h, ok)
       \/ \E some \in BOOLEAN : LoadCompletes(h, some)
       \/ OnTcpConnect(h) \/ OnTcpData(h) \/ OnTcpClosed(h)
       \/ RemoteSends(h)
  \/ \E k \in Keys :
       \/ GuestConnects(k) \/ GuestRetriesSyn(k)
       \/ \E b \in GuestByte : GuestSends(k, b)
       \/ GuestAcks(k) \/ GuestFinishes(k) \/ GuestResets(k)

\* The PC's timer runs the timer handler for as long as the emulator runs.
Fairness == WF_vars(DrainQueue) /\ WF_vars(CheckRetransmits)

Spec == Init /\ [][Next]_vars /\ Fairness

-----------------------------------------------------------------------------
\* The two maps of the flows agree: a key is bound to a handle exactly while
\* that handle has a flow with that key, whichever of the three threads ended
\* the flow or opened the next one.
KeysMatchFlows ==
  \A k \in Keys, h \in Handle : tcp_by_key[k] = h <=> flow[h] # NoFlow /\ flow[h].key = k

\* A socket that may still be used belongs to a flow: none stays open behind a
\* flow that was given up.
NoOrphanSocket ==
  \A h \in Handle : socket[h].open /\ ~socket[h].closed => flow[h] # NoFlow

Stream(n) == [i \in 1 .. n |-> i]

\* The remote host reads what the guest sent, without gap, repetition or
\* exchange, however the guest repeats its segments and the writes interleave.
RemoteReadsInOrder ==
  \A h \in Handle : remote[h].received = Stream(Len(remote[h].received))

\* While the connection stands, what the guest has been told is acknowledged is
\* exactly what is with the remote host or on its way.
AcknowledgedIsKept ==
  \A h \in Handle : flow[h] # NoFlow /\ ~socket[h].closed =>
    remote[h].received \o socket[h].storing \o socket[h].write_queue
      = Stream(flow[h].guest_next_seq - 1)

\* Of the bytes of the remote host the guest reads all in order, however frames
\* are lost and sent again, but for those at the beginning that were read
\* before on_connect was called, which OnTcpData drops (748).
GuestReadsInOrder ==
  \A k \in Keys : guest[k].handle # None =>
    \A i \in 1 .. Len(guest[k].got) : guest[k].got[i] = remote[guest[k].handle].early + i

\* When the guest, still sending, sees the end of the stream, it has everything
\* that was read from the remote host, but for what was dropped at the
\* beginning.
EndMeansAll ==
  \A k \in Keys :
    guest[k].state = "open" /\ guest[k].ended =>
      remote[guest[k].handle].early + Len(guest[k].got) = remote[guest[k].handle].read

\* A segment that the guest never acknowledges does not stay for ever: it is
\* acknowledged at last or the flow is given up.
Pends(h) == flow[h] # NoFlow /\ flow[h].unacked # <<>>
NothingPendsForever == \A h \in Handle : Pends(h) ~> ~Pends(h)
=============================================================================
