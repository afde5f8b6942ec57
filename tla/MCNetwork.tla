----------------------------- MODULE MCNetwork -----------------------------
(***************************************************************************)
(* The guest's network: TCP connections that carry data both ways, TCP     *)
(* connections that follow each other, and UDP flows.  One run drives each *)
(* of the three; those that are not driven stay in one initial state.      *)
(***************************************************************************)
EXTENDS Integers, Sequences

CONSTANTS
  Keys,               \* the guest's <<port, address, port>> triples of its connections
  StreamHandles,      \* bound: connections of the guest that carry data both ways
  StreamBytes,        \* bound: bytes each way on one of them
  StreamLost,         \* bound: frames lost on them
  FlowHandles,        \* bound: connections that follow each other
  FlowSends,          \* bound: bytes that the guest sends on one of them
  FlowBytes,          \* bound: bytes that the remote host sends on one of them
  FlowLost,           \* bound: frames lost on them
  RetransmitTicks, MaxRetries,
  Ports,              \* the guest's triples of its datagrams
  MaxDatagrams        \* bound: datagrams that the guest sends for each of them

VARIABLES
  driven,
  tcp_by_key, flow, socket, rx_queue, draining, next_handle, remote, guest, lost,
  udp_by_key, udp, sender, given

tcp == <<tcp_by_key, flow, socket, rx_queue, draining, next_handle, remote, guest, lost>>
datagrams == <<udp_by_key, udp, sender, given>>

\* Connections that carry data both ways.
Stream == INSTANCE NatTcp WITH
  MaxHandle <- StreamHandles, MaxGuest <- StreamBytes, MaxRemote <- StreamBytes, MaxLost <- StreamLost

\* Connections that follow each other on the same keys.
Flows == INSTANCE NatTcp WITH
  MaxHandle <- FlowHandles, MaxGuest <- FlowSends, MaxRemote <- FlowBytes, MaxLost <- FlowLost

Datagrams == INSTANCE UdpFlows WITH Key <- Ports

ASSUME ConstantsAssumption ==
  Stream!ConstantsOK /\ Flows!ConstantsOK /\ Datagrams!ConstantsOK

vars == <<driven, tcp, datagrams>>

Init ==
  /\ driven \in {"stream", "flows", "datagrams"}
  /\ IF driven = "stream" THEN Stream!Init ELSE Flows!Init
  /\ Datagrams!Init

Next ==
  \/ driven = "stream" /\ Stream!Next /\ UNCHANGED <<driven, datagrams>>
  \/ driven = "flows" /\ Flows!Next /\ UNCHANGED <<driven, datagrams>>
  \/ driven = "datagrams" /\ Datagrams!Next /\ UNCHANGED <<driven, tcp>>

\* The PC's timer runs the timer handler for as long as the emulator runs.
Fairness ==
  /\ WF_vars(driven = "flows" /\ Flows!DrainQueue /\ UNCHANGED <<driven, datagrams>>)
  /\ WF_vars(driven = "flows" /\ Flows!CheckRetransmits /\ UNCHANGED <<driven, datagrams>>)

Spec == Init /\ [][Next]_vars /\ Fairness

-----------------------------------------------------------------------------
\* Flows, sockets, queues and datagrams are well formed at any instant.
TypeOK ==
  /\ driven = "stream" => Stream!TypeOK
  /\ driven = "flows" => Flows!TypeOK
  /\ driven = "datagrams" => Datagrams!TypeOK

\* The maps of the flows agree, and no socket stays open behind a flow that was
\* given up, whichever thread ended it.
FlowsAgree == driven = "flows" => Flows!KeysMatchFlows /\ Flows!NoOrphanSocket

\* What the guest sends is neither lost, repeated nor exchanged between the
\* guest's segments, the queue and the continuations of the socket: the remote
\* host of a connection reads in order what the guest was told is acknowledged,
\* and every datagram is sent once, but for one that may stay queued.
SentAsGiven ==
  /\ driven = "stream" => Stream!RemoteReadsInOrder /\ Stream!AcknowledgedIsKept
  /\ driven = "datagrams" => Datagrams!SentOnceOrWaiting /\ Datagrams!AtMostOneStranded

\* The guest reads the bytes of the remote host in order and without gap, and
\* has all of them when it sees the end: all but the first ones, if they were
\* delivered before the connection was (eth_nat.cc:748).
GuestReadsInOrder == driven = "stream" => Stream!GuestReadsInOrder /\ Stream!EndMeansAll

\* A segment that the guest never acknowledges does not stay for ever: it is
\* acknowledged at last or the flow is given up.
NothingPendsForever ==
  \A h \in 1 .. FlowHandles : (driven = "flows" /\ Flows!Pends(h)) ~> ~(driven = "flows" /\ Flows!Pends(h))
=============================================================================
