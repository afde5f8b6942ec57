--------------------------- MODULE NetworkProofs ---------------------------
(***************************************************************************)
(* The run of the guest's network.  What NatTcpProofs says of the TCP half *)
(* of the NAT holds of the two instances of it that the run drives: the    *)
(* instances of this module extend the proofs where those of MCNetwork     *)
(* extend the model, and the lemmas of the first part bring one to the     *)
(* other.  The UDP half is proved here, for the instance of the run.       *)
(***************************************************************************)
EXTENDS MCNetwork, FiniteSetTheorems, TLAPS

SP == INSTANCE NatTcpProofs WITH
  MaxHandle <- StreamHandles, MaxGuest <- StreamBytes, MaxRemote <- StreamBytes, MaxLost <- StreamLost

FP == INSTANCE NatTcpProofs WITH
  MaxHandle <- FlowHandles, MaxGuest <- FlowSends, MaxRemote <- FlowBytes, MaxLost <- FlowLost

\* The constants of the run are in the ranges that the proofs need.
LEMMA ConstantsFit ==
  SP!ConstantsOK /\ FP!ConstantsOK /\ Datagrams!ConstantsOK
  BY ConstantsAssumption, Zenon
  DEF Stream!ConstantsOK, SP!ConstantsOK, Flows!ConstantsOK, FP!ConstantsOK,
      Datagrams!ConstantsOK

\* Connections that carry data both ways: the timer handler.
LEMMA StreamTimer ==
  /\ Stream!DrainQueue => SP!DrainQueue
  /\ Stream!CheckRetransmits => SP!CheckRetransmits
<1>1. Stream!DrainQueue => SP!DrainQueue
  BY Zenon
  DEF Stream!NoFlow, SP!NoFlow, Stream!Handle, SP!Handle, Stream!rcv_nxt, SP!rcv_nxt,
      Stream!Received, SP!Received, Stream!GuestAfter, SP!GuestAfter, Stream!Older, SP!Older,
      Stream!None, SP!None, Stream!Cardinality, SP!Cardinality, Cardinality, Stream!DrainQueue, SP!DrainQueue
<1>2. Stream!CheckRetransmits => SP!CheckRetransmits
  BY Zenon
  DEF Stream!None, SP!None, Stream!NoFlow, SP!NoFlow, Stream!Handle, SP!Handle, Stream!Due, SP!Due,
      Stream!Exhausted, SP!Exhausted, Stream!Resent, SP!Resent, Stream!SentAgain, SP!SentAgain,
      Stream!AfterResend, SP!AfterResend, Stream!Selected, SP!Selected, Stream!ResentFrames,
      SP!ResentFrames, Stream!QueueAfter, SP!QueueAfter, Stream!Closed, SP!Closed,
      Stream!CheckRetransmits, SP!CheckRetransmits
<1> QED  BY <1>1, <1>2

\* Connections that carry data both ways: a segment of the guest.
LEMMA StreamSegment ==
  ASSUME NEW k, NEW seg, Stream!handle_tcp(k, seg)
  PROVE  SP!handle_tcp(k, seg)
  BY Zenon
  DEF Stream!None, SP!None, Stream!NoFlow, SP!NoFlow, Stream!Handle, SP!Handle,
      Stream!handle_tcp, SP!handle_tcp, Stream!nat, SP!nat, Stream!OpenFlow, SP!OpenFlow,
      Stream!ResetFlow, SP!ResetFlow, Stream!IgnoreSegment, SP!IgnoreSegment,
      Stream!AcceptSegment, SP!AcceptSegment, Stream!SegmentOf, SP!SegmentOf, Stream!EraseFlow,
      SP!EraseFlow, Stream!Acked, SP!Acked, Stream!Selected, SP!Selected, Stream!InOrder, SP!InOrder,
      Stream!Sent, SP!Sent,
      Stream!Flushed, SP!Flushed, Stream!Closed, SP!Closed, Stream!Unopened, SP!Unopened,
      Stream!Opened, SP!Opened

\* Connections that carry data both ways: every step is one of the NAT that is proved about.
LEMMA StreamSteps ==
  ASSUME Stream!Next
  PROVE  SP!Next
<1> USE DEF Stream!None, SP!None, Stream!NoFlow, SP!NoFlow, Stream!Handle, SP!Handle, Stream!GuestByte,
            SP!GuestByte
<1>1. ASSUME NEW h, NEW ok, Stream!ConnectCompletes(h, ok) PROVE SP!ConnectCompletes(h, ok)
  BY <1>1, Zenon
  DEF Stream!ConnectCompletes, SP!ConnectCompletes, Stream!Connected, SP!Connected
<1>2. ASSUME NEW h, NEW ok, Stream!StoreCompletes(h, ok) PROVE SP!StoreCompletes(h, ok)
  BY <1>2, Zenon
  DEF Stream!StoreCompletes, SP!StoreCompletes, Stream!Stored, SP!Stored, Stream!Flushed,
      SP!Flushed
<1>3. ASSUME NEW h, NEW some, Stream!LoadCompletes(h, some) PROVE SP!LoadCompletes(h, some)
  BY <1>3, Zenon
  DEF Stream!LoadCompletes, SP!LoadCompletes, Stream!Loaded, SP!Loaded
<1>4. ASSUME NEW h, Stream!OnTcpConnect(h) PROVE SP!OnTcpConnect(h)
  BY <1>4, Zenon
  DEF Stream!OnTcpConnect, SP!OnTcpConnect, Stream!SegmentOf, SP!SegmentOf, Stream!Sending,
      SP!Sending, Stream!EraseFlow, SP!EraseFlow
<1>5. ASSUME NEW h, Stream!OnTcpData(h) PROVE SP!OnTcpData(h)
  BY <1>5, Zenon
  DEF Stream!OnTcpData, SP!OnTcpData, Stream!DroppedEarly, SP!DroppedEarly, Stream!SegmentOf, SP!SegmentOf,
      Stream!Sending, SP!Sending
<1>6. ASSUME NEW h, Stream!OnTcpClosed(h) PROVE SP!OnTcpClosed(h)
  BY <1>6, Zenon
  DEF Stream!OnTcpClosed, SP!OnTcpClosed, Stream!SegmentOf, SP!SegmentOf, Stream!EraseFlow,
      SP!EraseFlow
<1>7. ASSUME NEW h, Stream!RemoteSends(h) PROVE SP!RemoteSends(h)
  BY <1>7, Zenon
  DEF Stream!RemoteSends, SP!RemoteSends, Stream!nat, SP!nat
<1>8. ASSUME NEW k, Stream!GuestConnects(k) PROVE SP!GuestConnects(k)
  BY <1>8, StreamSegment, Zenon
  DEF Stream!GuestConnects, SP!GuestConnects, Stream!Plain, SP!Plain, Stream!rcv_nxt, SP!rcv_nxt
<1>9. ASSUME NEW k, Stream!GuestRetriesSyn(k) PROVE SP!GuestRetriesSyn(k)
  BY <1>9, StreamSegment, Zenon
  DEF Stream!GuestRetriesSyn, SP!GuestRetriesSyn, Stream!Plain, SP!Plain, Stream!rcv_nxt,
      SP!rcv_nxt
<1>10. ASSUME NEW k, NEW b, Stream!GuestSends(k, b) PROVE SP!GuestSends(k, b)
  BY <1>10, StreamSegment, Zenon
  DEF Stream!GuestSends, SP!GuestSends, Stream!Plain, SP!Plain, Stream!rcv_nxt, SP!rcv_nxt
<1>11. ASSUME NEW k, Stream!GuestAcks(k) PROVE SP!GuestAcks(k)
  BY <1>11, StreamSegment, Zenon
  DEF Stream!GuestAcks, SP!GuestAcks, Stream!Plain, SP!Plain, Stream!rcv_nxt, SP!rcv_nxt
<1>12. ASSUME NEW k, Stream!GuestFinishes(k) PROVE SP!GuestFinishes(k)
  BY <1>12, StreamSegment, Zenon
  DEF Stream!GuestFinishes, SP!GuestFinishes, Stream!Plain, SP!Plain, Stream!rcv_nxt, SP!rcv_nxt
<1>13. ASSUME NEW k, Stream!GuestResets(k) PROVE SP!GuestResets(k)
  BY <1>13, StreamSegment, Zenon
  DEF Stream!GuestResets, SP!GuestResets, Stream!Plain, SP!Plain, Stream!rcv_nxt, SP!rcv_nxt
<1> QED  BY StreamTimer, <1>1, <1>2, <1>3, <1>4, <1>5, <1>6, <1>7, <1>8, <1>9, <1>10, <1>11, <1>12, <1>13, Zenon
      DEF Stream!Next, SP!Next

\* Connections that follow each other: the timer handler.
LEMMA FlowsTimer ==
  /\ Flows!DrainQueue => FP!DrainQueue
  /\ Flows!CheckRetransmits => FP!CheckRetransmits
<1>1. Flows!DrainQueue => FP!DrainQueue
  BY Zenon
  DEF Flows!NoFlow, FP!NoFlow, Flows!Handle, FP!Handle, Flows!rcv_nxt, FP!rcv_nxt,
      Flows!Received, FP!Received, Flows!GuestAfter, FP!GuestAfter, Flows!Older, FP!Older,
      Flows!None, FP!None, Flows!Cardinality, FP!Cardinality, Cardinality, Flows!DrainQueue, FP!DrainQueue
<1>2. Flows!CheckRetransmits => FP!CheckRetransmits
  BY Zenon
  DEF Flows!None, FP!None, Flows!NoFlow, FP!NoFlow, Flows!Handle, FP!Handle, Flows!Due, FP!Due,
      Flows!Exhausted, FP!Exhausted, Flows!Resent, FP!Resent, Flows!SentAgain, FP!SentAgain,
      Flows!AfterResend, FP!AfterResend, Flows!Selected, FP!Selected, Flows!ResentFrames,
      FP!ResentFrames, Flows!QueueAfter, FP!QueueAfter, Flows!Closed, FP!Closed,
      Flows!CheckRetransmits, FP!CheckRetransmits
<1> QED  BY <1>1, <1>2

\* Connections that follow each other: a segment of the guest.
LEMMA FlowsSegment ==
  ASSUME NEW k, NEW seg, Flows!handle_tcp(k, seg)
  PROVE  FP!handle_tcp(k, seg)
  BY Zenon
  DEF Flows!None, FP!None, Flows!NoFlow, FP!NoFlow, Flows!Handle, FP!Handle, Flows!handle_tcp,
      FP!handle_tcp, Flows!nat, FP!nat, Flows!OpenFlow, FP!OpenFlow, Flows!ResetFlow,
      FP!ResetFlow, Flows!IgnoreSegment, FP!IgnoreSegment, Flows!AcceptSegment, FP!AcceptSegment,
      Flows!SegmentOf, FP!SegmentOf, Flows!EraseFlow, FP!EraseFlow, Flows!Acked, FP!Acked, Flows!Selected, FP!Selected,
      Flows!InOrder, FP!InOrder, Flows!Sent, FP!Sent, Flows!Flushed, FP!Flushed, Flows!Closed,
      FP!Closed, Flows!Unopened, FP!Unopened, Flows!Opened, FP!Opened

\* Connections that follow each other: every step is one of the NAT that is proved about.
LEMMA FlowsSteps ==
  ASSUME Flows!Next
  PROVE  FP!Next
<1> USE DEF Flows!None, FP!None, Flows!NoFlow, FP!NoFlow, Flows!Handle, FP!Handle, Flows!GuestByte,
            FP!GuestByte
<1>1. ASSUME NEW h, NEW ok, Flows!ConnectCompletes(h, ok) PROVE FP!ConnectCompletes(h, ok)
  BY <1>1, Zenon
  DEF Flows!ConnectCompletes, FP!ConnectCompletes, Flows!Connected, FP!Connected
<1>2. ASSUME NEW h, NEW ok, Flows!StoreCompletes(h, ok) PROVE FP!StoreCompletes(h, ok)
  BY <1>2, Zenon
  DEF Flows!StoreCompletes, FP!StoreCompletes, Flows!Stored, FP!Stored, Flows!Flushed,
      FP!Flushed
<1>3. ASSUME NEW h, NEW some, Flows!LoadCompletes(h, some) PROVE FP!LoadCompletes(h, some)
  BY <1>3, Zenon
  DEF Flows!LoadCompletes, FP!LoadCompletes, Flows!Loaded, FP!Loaded
<1>4. ASSUME NEW h, Flows!OnTcpConnect(h) PROVE FP!OnTcpConnect(h)
  BY <1>4, Zenon
  DEF Flows!OnTcpConnect, FP!OnTcpConnect, Flows!SegmentOf, FP!SegmentOf, Flows!Sending,
      FP!Sending, Flows!EraseFlow, FP!EraseFlow
<1>5. ASSUME NEW h, Flows!OnTcpData(h) PROVE FP!OnTcpData(h)
  BY <1>5, Zenon
  DEF Flows!OnTcpData, FP!OnTcpData, Flows!DroppedEarly, FP!DroppedEarly, Flows!SegmentOf, FP!SegmentOf,
      Flows!Sending, FP!Sending
<1>6. ASSUME NEW h, Flows!OnTcpClosed(h) PROVE FP!OnTcpClosed(h)
  BY <1>6, Zenon
  DEF Flows!OnTcpClosed, FP!OnTcpClosed, Flows!SegmentOf, FP!SegmentOf, Flows!EraseFlow,
      FP!EraseFlow
<1>7. ASSUME NEW h, Flows!RemoteSends(h) PROVE FP!RemoteSends(h)
  BY <1>7, Zenon
  DEF Flows!RemoteSends, FP!RemoteSends, Flows!nat, FP!nat
<1>8. ASSUME NEW k, Flows!GuestConnects(k) PROVE FP!GuestConnects(k)
  BY <1>8, FlowsSegment, Zenon
  DEF Flows!GuestConnects, FP!GuestConnects, Flows!Plain, FP!Plain, Flows!rcv_nxt, FP!rcv_nxt
<1>9. ASSUME NEW k, Flows!GuestRetriesSyn(k) PROVE FP!GuestRetriesSyn(k)
  BY <1>9, FlowsSegment, Zenon
  DEF Flows!GuestRetriesSyn, FP!GuestRetriesSyn, Flows!Plain, FP!Plain, Flows!rcv_nxt,
      FP!rcv_nxt
<1>10. ASSUME NEW k, NEW b, Flows!GuestSends(k, b) PROVE FP!GuestSends(k, b)
  BY <1>10, FlowsSegment, Zenon
  DEF Flows!GuestSends, FP!GuestSends, Flows!Plain, FP!Plain, Flows!rcv_nxt, FP!rcv_nxt
<1>11. ASSUME NEW k, Flows!GuestAcks(k) PROVE FP!GuestAcks(k)
  BY <1>11, FlowsSegment, Zenon
  DEF Flows!GuestAcks, FP!GuestAcks, Flows!Plain, FP!Plain, Flows!rcv_nxt, FP!rcv_nxt
<1>12. ASSUME NEW k, Flows!GuestFinishes(k) PROVE FP!GuestFinishes(k)
  BY <1>12, FlowsSegment, Zenon
  DEF Flows!GuestFinishes, FP!GuestFinishes, Flows!Plain, FP!Plain, Flows!rcv_nxt, FP!rcv_nxt
<1>13. ASSUME NEW k, Flows!GuestResets(k) PROVE FP!GuestResets(k)
  BY <1>13, FlowsSegment, Zenon
  DEF Flows!GuestResets, FP!GuestResets, Flows!Plain, FP!Plain, Flows!rcv_nxt, FP!rcv_nxt
<1> QED  BY FlowsTimer, <1>1, <1>2, <1>3, <1>4, <1>5, <1>6, <1>7, <1>8, <1>9, <1>10, <1>11, <1>12, <1>13, Zenon
      DEF Flows!Next, FP!Next

-----------------------------------------------------------------------------
(* Datagrams. *)

Task == {"none", "connecting", "connected", "swapped", "done"}
UdpType == [key : Ports \cup {Datagrams!None}, task : Task, connected : BOOLEAN, closed : BOOLEAN,
            pending : Seq(Nat), swapped : Seq(Nat), sent : Seq(Nat)]
UdpFields == {"key", "task", "connected", "closed", "pending", "swapped", "sent"}
SenderType == [handle : Datagrams!Handle \cup {Datagrams!None}, datagram : Nat, queues : BOOLEAN]

DatagramsTyped ==
  /\ udp_by_key \in [Ports -> {Datagrams!None} \cup Datagrams!Handle]
  /\ udp \in [Datagrams!Handle -> UdpType]
  /\ sender \in SenderType
  /\ given \in [Ports -> Nat]

Bound == {q \in Ports : udp_by_key[q] # Datagrams!None}

\* Keys and sockets agree, and the sockets are used in the order of the handles.
SocketsBound ==
  /\ \A k \in Ports, h \in Datagrams!Handle : udp_by_key[k] = h <=> udp[h].key = k
  /\ \A h \in Datagrams!Handle : udp[h].key # Datagrams!None => h <= Cardinality(Bound)
  /\ \A h \in Datagrams!Handle : udp[h].key = Datagrams!None => udp[h].task = "none"
  /\ \A k \in Ports : udp_by_key[k] = Datagrams!None => given[k] = 0

\* The sender holds the last datagram of its key.
SenderSound ==
  /\ sender.handle = Datagrams!None => sender = Datagrams!Away
  /\ sender.handle # Datagrams!None => /\ udp[sender.handle].key # Datagrams!None
                             /\ sender.datagram = given[udp[sender.handle].key]

\* The datagrams that a socket has, sent or waiting, and how many there are.
Has(u) == Datagrams!ToSet(u.sent) \cup Datagrams!ToSet(u.swapped) \cup Datagrams!ToSet(u.pending)
Count(u) == Len(u.sent) + Len(u.swapped) + Len(u.pending)

\* A socket to which n datagrams were given, the last of which its sender holds or not.
WaitSound(u, n, held) ==
  IF held THEN n # 0 /\ Has(u) \cup {n} = 1 .. n /\ Count(u) + 1 = n
          ELSE Has(u) = 1 .. n /\ Count(u) = n

\* A socket, where "late" says that the sender looked before it was connected
\* and is about to queue: nothing else may be stranded then.
UdpSound(u, n, held, late) ==
  /\ u \in UdpType
  /\ u.task = "connecting" => ~u.connected /\ ~u.closed /\ u.swapped = <<>>
  /\ u.task = "connected" => u.connected /\ ~u.closed /\ u.swapped = <<>>
  /\ u.task = "swapped" => ~u.closed
  /\ u.task \in {"swapped", "done"} /\ ~u.closed =>
       u.connected /\ Len(u.pending) <= 1 /\ (late => u.pending = <<>>)
  /\ ~u.closed => WaitSound(u, n, held)

SocketsSound ==
  \A h \in Datagrams!Handle : udp[h].key # Datagrams!None =>
    UdpSound(udp[h], given[udp[h].key], sender.handle = h, sender.handle = h /\ sender.queues)

\* The fields of a socket.
LEMMA UdpFieldsAre ==
  ASSUME NEW u \in UdpType
  PROVE  /\ DOMAIN u = UdpFields /\ u.key \in Ports \cup {Datagrams!None}
         /\ u.pending \in Seq(Nat) /\ u.swapped \in Seq(Nat) /\ u.sent \in Seq(Nat)
<1>1. DOMAIN u = UdpFields
  BY SMT DEF UdpType, UdpFields
<1> QED  BY <1>1, Zenon DEF UdpType

\* A datagram appended to a sequence of datagrams.
LEMMA SetOfAppend ==
  ASSUME NEW s \in Seq(Nat), NEW x \in Nat
  PROVE  Datagrams!ToSet(Append(s, x)) = Datagrams!ToSet(s) \cup {x} /\ Append(s, x) \in Seq(Nat) /\ Len(Append(s, x)) = Len(s) + 1
<1>1. Append(s, x) \in Seq(Nat) /\ Len(Append(s, x)) = Len(s) + 1
  BY SMT
<1>2. \A i \in 1 .. Len(s) : Append(s, x)[i] = s[i]
  BY SMT
<1>3. /\ Append(s, x)[Len(s) + 1] = x /\ DOMAIN Append(s, x) = 1 .. Len(s) + 1
      /\ DOMAIN s = 1 .. Len(s) /\ Len(s) \in Nat
  BY <1>1, SMT
<1> DEFINE t == Append(s, x)
<1> HIDE DEF t
<1>4. Datagrams!ToSet(t) = Datagrams!ToSet(s) \cup {x}
  BY <1>2, <1>3, SMT DEF Datagrams!ToSet, t
<1> QED  BY <1>1, <1>4, Zenon DEF t

\* The first datagram of a sequence, and the others.
LEMMA SetOfHead ==
  ASSUME NEW s \in Seq(Nat), s # <<>>
  PROVE  /\ Datagrams!ToSet(s) = {Head(s)} \cup Datagrams!ToSet(Tail(s)) /\ Head(s) \in Nat /\ Tail(s) \in Seq(Nat)
         /\ Len(s) = Len(Tail(s)) + 1
<1>1. Head(s) \in Nat /\ Tail(s) \in Seq(Nat) /\ Len(s) = Len(Tail(s)) + 1 /\ Head(s) = s[1]
  BY SMT
<1>2. \A i \in 1 .. Len(s) - 1 : Tail(s)[i] = s[i + 1]
  BY SMT
<1>3. DOMAIN s = 1 .. Len(s) /\ DOMAIN Tail(s) = 1 .. Len(s) - 1 /\ Len(s) \in Nat \ {0}
  BY SMT
<1>4. Datagrams!ToSet(s) = {s[1]} \cup Datagrams!ToSet(Tail(s))
  <2> DEFINE t == Tail(s)
  <2> HIDE DEF t
  <2>1. \A x \in Datagrams!ToSet(s) : x \in {s[1]} \cup Datagrams!ToSet(t)
    <3> SUFFICES ASSUME NEW i \in 1 .. Len(s) PROVE s[i] \in {s[1]} \cup Datagrams!ToSet(t)
      BY <1>3, Zenon DEF Datagrams!ToSet
    <3>1. CASE i # 1
      <4>1. i - 1 \in 1 .. Len(s) - 1 /\ (i - 1) + 1 = i
        BY <1>3, <3>1, SMT
      <4>2. t[i - 1] = s[i]
        BY <1>2, <4>1, Zenon DEF t
      <4> QED  BY <1>3, <4>1, <4>2, Zenon DEF Datagrams!ToSet, t
    <3> QED  BY <3>1, Zenon
  <2>2. \A x \in {s[1]} \cup Datagrams!ToSet(t) : x \in Datagrams!ToSet(s)
    BY <1>2, <1>3, SMT DEF Datagrams!ToSet, t
  <2> QED  BY <2>1, <2>2, Zenon DEF t
<1> QED  BY <1>1, <1>4, Zenon

\* Two sequences of datagrams, one after the other.
LEMMA SetOfJoined ==
  ASSUME NEW s \in Seq(Nat), NEW t \in Seq(Nat)
  PROVE  Datagrams!ToSet(s \o t) = Datagrams!ToSet(s) \cup Datagrams!ToSet(t) /\ s \o t \in Seq(Nat) /\ Len(s \o t) = Len(s) + Len(t)
<1>1. s \o t \in Seq(Nat) /\ Len(s \o t) = Len(s) + Len(t) /\ Len(s) \in Nat /\ Len(t) \in Nat
  BY SMT
<1>2. \A i \in 1 .. Len(s) : (s \o t)[i] = s[i]
  BY SMT
<1>3. \A i \in 1 .. Len(t) : (s \o t)[Len(s) + i] = t[i]
  BY SMT
<1> DEFINE p == s \o t
<1>4. DOMAIN p = 1 .. Len(s) + Len(t) /\ DOMAIN s = 1 .. Len(s) /\ DOMAIN t = 1 .. Len(t)
  BY <1>1, SMT
<1> HIDE DEF p
<1>5. \A x \in Datagrams!ToSet(p) : x \in Datagrams!ToSet(s) \cup Datagrams!ToSet(t)
  <2> SUFFICES ASSUME NEW i \in 1 .. Len(s) + Len(t) PROVE p[i] \in Datagrams!ToSet(s) \cup Datagrams!ToSet(t)
    BY <1>4, Zenon DEF Datagrams!ToSet
  <2>1. CASE i <= Len(s)
    BY <1>1, <1>2, <1>4, <2>1, SMT DEF Datagrams!ToSet, p
  <2>2. CASE i > Len(s)
    <3>1. i - Len(s) \in 1 .. Len(t) /\ Len(s) + (i - Len(s)) = i
      BY <1>1, <2>2, SMT
    <3>2. p[i] = t[i - Len(s)]
      BY <1>3, <3>1, Zenon DEF p
    <3> QED  BY <1>4, <3>1, <3>2, Zenon DEF Datagrams!ToSet
  <2> QED  BY <1>1, <2>1, <2>2, SMT
<1>6. \A x \in Datagrams!ToSet(s) : x \in Datagrams!ToSet(p)
  BY <1>1, <1>2, <1>4, SMT DEF Datagrams!ToSet, p
<1>7. \A x \in Datagrams!ToSet(t) : x \in Datagrams!ToSet(p)
  <2> SUFFICES ASSUME NEW i \in 1 .. Len(t) PROVE t[i] \in Datagrams!ToSet(p)
    BY <1>4, Zenon DEF Datagrams!ToSet
  <2>1. Len(s) + i \in 1 .. Len(s) + Len(t)
    BY <1>1, SMT
  <2>2. p[Len(s) + i] = t[i]
    BY <1>3, Zenon DEF p
  <2> QED  BY <1>4, <2>1, <2>2, Zenon DEF Datagrams!ToSet
<1> QED  BY <1>1, <1>5, <1>6, <1>7, Zenon DEF p

\* The sequence of no datagrams.
LEMMA SetOfNone ==
  Datagrams!ToSet(<<>>) = {} /\ <<>> \in Seq(Nat) /\ Len(<<>>) = 0
  BY SMT DEF Datagrams!ToSet

\* Arithmetic: one more in the last of three sequences.
LEMMA OneMoreLast ==
  ASSUME NEW p, NEW q, NEW r, Len(p) \in Nat, Len(q) \in Nat, Len(r) \in Nat
  PROVE  Len(p) + Len(q) + (Len(r) + 1) = (Len(p) + Len(q) + Len(r)) + 1
  BY SMT

\* Arithmetic: what was pending is swapped.
LEMMA CountsMoved ==
  ASSUME NEW p, NEW q, Len(p) \in Nat, Len(q) \in Nat
  PROVE  Len(p) + Len(q) + 0 = Len(p) + 0 + Len(q)
  BY SMT

\* The guest gives one datagram more, which the sender holds.
LEMMA GivenKeeps ==
  ASSUME NEW u, NEW n \in Nat, UdpSound(u, n, FALSE, FALSE)
  PROVE  UdpSound(u, n + 1, TRUE, FALSE)
<1>1. ASSUME ~u.closed PROVE WaitSound(u, n + 1, TRUE)
  <2>1. Has(u) = 1 .. n /\ Count(u) = n
    BY <1>1, Zenon DEF UdpSound, WaitSound
  <2>2. n + 1 # 0 /\ (1 .. n) \cup {n + 1} = 1 .. n + 1
    BY SMT
  <2> QED  BY <2>1, <2>2, Zenon DEF WaitSound
<1> QED  BY <1>1, Zenon DEF UdpSound

\* A socket that wpb_net_udp_open opens.
LEMMA NewSound ==
  ASSUME NEW k \in Ports
  PROVE  LET u == [Datagrams!Unused EXCEPT !.key = k, !.task = "connecting"]
         IN  u \in UdpType /\ u.key = k /\ UdpSound(u, 0, FALSE, FALSE)
<1> DEFINE u == [Datagrams!Unused EXCEPT !.key = k, !.task = "connecting"]
<1>1. u.key = k /\ u.task = "connecting" /\ ~u.connected /\ ~u.closed
  BY SMT DEF Datagrams!Unused
<1>2. u.pending = <<>> /\ u.swapped = <<>> /\ u.sent = <<>>
  BY SMT DEF Datagrams!Unused
<1>3. /\ "connecting" \in Task /\ "none" \in Task /\ FALSE \in BOOLEAN
      /\ k \in Ports \cup {Datagrams!None} /\ Datagrams!None \in Ports \cup {Datagrams!None}
  BY SMT DEF Task
<1>4. u \in UdpType
  <2>1. Datagrams!Unused \in UdpType
    BY <1>3, SetOfNone, SMT DEF UdpType, Datagrams!Unused
  <2> QED  BY <1>3, <2>1, Zenon DEF UdpType
<1> HIDE DEF u
<1>5. Has(u) = {} /\ Count(u) = 0
  <2>1. Count(u) = 0
    BY <1>2, SetOfNone, SMT DEF Count
  <2> QED  BY <1>2, <2>1, SetOfNone, Zenon DEF Has
<1>6. WaitSound(u, 0, FALSE)
  <2>1. 1 .. 0 = {}
    BY SMT
  <2> QED  BY <1>5, <2>1, Zenon DEF WaitSound
<1>7. u.task # "connected" /\ u.task # "swapped" /\ u.task \notin {"swapped", "done"}
  BY <1>1, SMT
<1>8. UdpSound(u, 0, FALSE, FALSE)
  BY <1>1, <1>2, <1>4, <1>6, <1>7, Zenon DEF UdpSound
<1> QED  BY <1>1, <1>4, <1>8, Zenon DEF u

\* What Sends changes.
LEMMA SendsIs ==
  ASSUME NEW u \in UdpType, NEW d \in Nat
  PROVE  LET v == Datagrams!Sends(u, d)
         IN  /\ v \in UdpType /\ v.key = u.key /\ v.task = u.task /\ v.connected = u.connected /\ v.closed = u.closed
             /\ v.pending = u.pending /\ v.swapped = u.swapped
             /\ Has(v) = Has(u) \cup {d} /\ Count(v) = Count(u) + 1
<1> DEFINE v == Datagrams!Sends(u, d)
<1>1. DOMAIN u = UdpFields /\ u.pending \in Seq(Nat) /\ u.swapped \in Seq(Nat) /\ u.sent \in Seq(Nat)
  BY UdpFieldsAre, Zenon
<1>2. v = [u EXCEPT !.sent = Append(u.sent, d)]
  BY Zenon DEF Datagrams!Sends
<1>3. /\ Datagrams!ToSet(Append(u.sent, d)) = Datagrams!ToSet(u.sent) \cup {d} /\ Append(u.sent, d) \in Seq(Nat)
      /\ Len(Append(u.sent, d)) = Len(u.sent) + 1
  BY <1>1, SetOfAppend, Zenon
<1>4. v \in UdpType
  BY <1>2, <1>3, Zenon DEF UdpType
<1>5. v.key = u.key /\ v.task = u.task /\ v.connected = u.connected /\ v.closed = u.closed
  BY ONLY <1>1, <1>2, SMT DEF UdpFields
<1>6. v.pending = u.pending /\ v.swapped = u.swapped /\ v.sent = Append(u.sent, d)
  BY ONLY <1>1, <1>2, SMT DEF UdpFields
<1> HIDE DEF v
<1>7. Has(v) = Has(u) \cup {d}
  BY <1>3, <1>6, Zenon DEF Has
<1>8. Count(v) = Count(u) + 1
  <2>1. Len(u.sent) \in Nat /\ Len(u.swapped) \in Nat /\ Len(u.pending) \in Nat
    BY <1>1, SMT
  <2>2. Count(v) = (Len(u.sent) + 1) + Len(u.swapped) + Len(u.pending)
    BY <1>3, <1>6, Zenon DEF Count
  <2>3. (Len(u.sent) + 1) + Len(u.swapped) + Len(u.pending) = (Len(u.sent) + Len(u.swapped) + Len(u.pending)) + 1
    <3> DEFINE a == Len(u.sent)
               b == Len(u.swapped)
               c == Len(u.pending)
    <3>1. a \in Nat /\ b \in Nat /\ c \in Nat
      BY <2>1
    <3> HIDE DEF a, b, c
    <3>2. (a + 1) + b + c = (a + b + c) + 1
      BY <3>1, SMT
    <3> QED  BY <3>2, Zenon DEF a, b, c
  <2> QED  BY <2>2, <2>3, Zenon DEF Count
<1> QED  BY <1>4, <1>5, <1>6, <1>7, <1>8, Zenon DEF v

\* The sender sends its datagram on a connected socket.
LEMMA SentNow ==
  ASSUME NEW u, NEW n \in Nat, UdpSound(u, n, TRUE, FALSE)
  PROVE  UdpSound(Datagrams!Sends(u, n), n, FALSE, FALSE)
<1> DEFINE v == Datagrams!Sends(u, n)
<1>1. /\ v \in UdpType /\ v.key = u.key /\ v.task = u.task /\ v.connected = u.connected /\ v.closed = u.closed
      /\ v.pending = u.pending /\ v.swapped = u.swapped
      /\ Has(v) = Has(u) \cup {n} /\ Count(v) = Count(u) + 1
  BY SendsIs, Zenon DEF UdpSound
<1> HIDE DEF v
<1>2. ~v.closed => WaitSound(v, n, FALSE)
  BY <1>1, Zenon DEF UdpSound, WaitSound
<1>3. UdpSound(v, n, FALSE, FALSE)
  BY <1>1, <1>2, Zenon DEF UdpSound
<1> QED  BY <1>3, Zenon DEF v

\* The sender queues its datagram, on a socket that was not connected when it
\* looked, and may be now.
LEMMA QueuedLate ==
  ASSUME NEW u, NEW n \in Nat, UdpSound(u, n, TRUE, TRUE)
  PROVE  LET v == [u EXCEPT !.pending = Append(u.pending, n)]
         IN  UdpSound(v, n, FALSE, FALSE) /\ v.key = u.key
<1> DEFINE v == [u EXCEPT !.pending = Append(u.pending, n)]
<1>1. u \in UdpType
  BY Zenon DEF UdpSound
<1>2. DOMAIN u = UdpFields /\ u.pending \in Seq(Nat) /\ u.swapped \in Seq(Nat) /\ u.sent \in Seq(Nat)
  BY <1>1, UdpFieldsAre, Zenon
<1>3. /\ Datagrams!ToSet(Append(u.pending, n)) = Datagrams!ToSet(u.pending) \cup {n} /\ Append(u.pending, n) \in Seq(Nat)
      /\ Len(Append(u.pending, n)) = Len(u.pending) + 1
  BY <1>2, SetOfAppend, Zenon
<1>4. v \in UdpType
  BY <1>1, <1>3, Zenon DEF UdpType
<1>5. v.key = u.key /\ v.task = u.task /\ v.connected = u.connected /\ v.closed = u.closed
  BY ONLY <1>2, SMT DEF UdpFields
<1>6. v.pending = Append(u.pending, n) /\ v.swapped = u.swapped /\ v.sent = u.sent
  BY ONLY <1>2, SMT DEF UdpFields
<1> HIDE DEF v
<1>7. Has(v) = Has(u) \cup {n}
  BY <1>3, <1>6, Zenon DEF Has
<1>8. Count(v) = Count(u) + 1
  <2>1. Len(u.sent) \in Nat /\ Len(u.swapped) \in Nat /\ Len(u.pending) \in Nat
    BY <1>2, SMT
  <2>2. Count(v) = Len(u.sent) + Len(u.swapped) + (Len(u.pending) + 1)
    BY <1>3, <1>6, Zenon DEF Count
  <2>3. Count(u) = Len(u.sent) + Len(u.swapped) + Len(u.pending)
    BY Zenon DEF Count
  <2>4. Len(u.sent) + Len(u.swapped) + (Len(u.pending) + 1) = (Len(u.sent) + Len(u.swapped) + Len(u.pending)) + 1
    BY ONLY <2>1, OneMoreLast, Zenon
  <2> QED  BY ONLY <2>2, <2>3, <2>4, Zenon
<1>9. ~v.closed => WaitSound(v, n, FALSE)
  BY <1>5, <1>7, <1>8, Zenon DEF UdpSound, WaitSound
<1>10. u.pending = <<>> => Len(v.pending) <= 1
  BY <1>3, <1>6, SMT
<1>11. UdpSound(v, n, FALSE, FALSE)
  BY <1>4, <1>5, <1>6, <1>9, <1>10, Zenon DEF UdpSound
<1> QED  BY <1>5, <1>11, Zenon DEF v

\* The sender finds that the socket is not connected: nothing is stranded yet.
LEMMA LooksTooEarly ==
  ASSUME NEW u, NEW n \in Nat, UdpSound(u, n, TRUE, FALSE), ~u.connected
  PROVE  UdpSound(u, n, TRUE, TRUE)
  BY Zenon DEF UdpSound

\* The sender drops its datagram for a socket that is closed.
LEMMA DropsClosed ==
  ASSUME NEW u, NEW n, NEW held \in BOOLEAN, NEW late \in BOOLEAN, UdpSound(u, n, held, late), u.closed
  PROVE  UdpSound(u, n, FALSE, FALSE)
  BY Zenon DEF UdpSound

\* The continuation of connect, when it succeeds.
LEMMA ConnectsKeeps ==
  ASSUME NEW u, NEW n, NEW held \in BOOLEAN, NEW late \in BOOLEAN, UdpSound(u, n, held, late), u.task = "connecting"
  PROVE  LET v == [u EXCEPT !.task = "connected", !.connected = TRUE]
         IN  UdpSound(v, n, held, late) /\ v.key = u.key
<1> DEFINE v == [u EXCEPT !.task = "connected", !.connected = TRUE]
<1>1. u \in UdpType /\ DOMAIN u = UdpFields
  BY UdpFieldsAre, Zenon DEF UdpSound
<1>2. v \in UdpType
  <2>1. "connected" \in Task /\ TRUE \in BOOLEAN
    BY SMT DEF Task
  <2> QED  BY <1>1, <2>1, Zenon DEF UdpType
<1>3. v.key = u.key /\ v.task = "connected" /\ v.connected /\ v.closed = u.closed
  BY ONLY <1>1, SMT DEF UdpFields
<1>4. v.pending = u.pending /\ v.swapped = u.swapped /\ v.sent = u.sent
  BY ONLY <1>1, SMT DEF UdpFields
<1> HIDE DEF v
<1>5. ~u.closed /\ u.swapped = <<>>
  BY Zenon DEF UdpSound
<1>6. WaitSound(v, n, held)
  BY <1>4, <1>5, Zenon DEF UdpSound, WaitSound, Has, Count
<1>7. v.task \notin {"connecting", "swapped", "done"}
  BY <1>3, SMT
<1>8. UdpSound(v, n, held, late)
  BY <1>2, <1>3, <1>4, <1>5, <1>6, <1>7, SMT DEF UdpSound
<1> QED  BY <1>3, <1>8, Zenon DEF v

\* The continuation of connect, when it fails.
LEMMA FailsKeeps ==
  ASSUME NEW u, NEW n, NEW held \in BOOLEAN, NEW late \in BOOLEAN, UdpSound(u, n, held, late), u.task = "connecting"
  PROVE  LET v == [u EXCEPT !.task = "done", !.closed = TRUE]
         IN  UdpSound(v, n, held, late) /\ v.key = u.key
<1> DEFINE v == [u EXCEPT !.task = "done", !.closed = TRUE]
<1>1. u \in UdpType /\ DOMAIN u = UdpFields
  BY UdpFieldsAre, Zenon DEF UdpSound
<1>2. v \in UdpType
  <2>1. "done" \in Task /\ TRUE \in BOOLEAN
    BY SMT DEF Task
  <2> QED  BY <1>1, <2>1, Zenon DEF UdpType
<1>3. v.key = u.key /\ v.task = "done" /\ v.closed
  BY ONLY <1>1, SMT DEF UdpFields
<1> HIDE DEF v
<1>4. v.task \notin {"connecting", "connected", "swapped"}
  BY <1>3, SMT
<1>5. UdpSound(v, n, held, late)
  BY <1>2, <1>3, <1>4, SMT DEF UdpSound
<1> QED  BY <1>3, <1>5, Zenon DEF v

\* The continuation takes what was queued, under the mutex.
LEMMA SwapsKeeps ==
  ASSUME NEW u, NEW n, NEW held \in BOOLEAN, NEW late \in BOOLEAN, UdpSound(u, n, held, late), u.task = "connected"
  PROVE  LET v == [Datagrams!Taken(u) EXCEPT !.task = "swapped"]
         IN  UdpSound(v, n, held, late) /\ v.key = u.key
<1> DEFINE w == Datagrams!Taken(u)
           v == [Datagrams!Taken(u) EXCEPT !.task = "swapped"]
<1>1. u \in UdpType
  BY Zenon DEF UdpSound
<1>2. DOMAIN u = UdpFields /\ u.pending \in Seq(Nat) /\ u.swapped \in Seq(Nat) /\ u.sent \in Seq(Nat)
  BY <1>1, UdpFieldsAre, Zenon
<1>3. w = [u EXCEPT !.swapped = u.pending, !.pending = <<>>]
  BY Zenon DEF Datagrams!Taken
<1>4. w \in UdpType
  BY <1>1, <1>2, <1>3, SetOfNone, Zenon DEF UdpType
<1>5. w.key = u.key /\ w.connected = u.connected /\ w.closed = u.closed
  BY ONLY <1>2, <1>3, SMT DEF UdpFields
<1>6. w.pending = <<>> /\ w.swapped = u.pending /\ w.sent = u.sent
  BY ONLY <1>2, <1>3, SMT DEF UdpFields
<1>7. v = [w EXCEPT !.task = "swapped"]
  BY Zenon
<1> HIDE DEF w, v
<1>8. DOMAIN w = UdpFields
  BY <1>4, UdpFieldsAre, Zenon
<1>9. v \in UdpType
  <2>1. "swapped" \in Task
    BY SMT DEF Task
  <2> QED  BY <1>4, <1>7, <2>1, Zenon DEF UdpType
<1>10. v.key = w.key /\ v.task = "swapped" /\ v.connected = w.connected /\ v.closed = w.closed
  BY ONLY <1>7, <1>8, SMT DEF UdpFields
<1>11. v.pending = w.pending /\ v.swapped = w.swapped /\ v.sent = w.sent
  BY ONLY <1>7, <1>8, SMT DEF UdpFields
<1>12. u.connected /\ ~u.closed /\ u.swapped = <<>> /\ WaitSound(u, n, held)
  BY Zenon DEF UdpSound
<1>13. Has(v) = Has(u)
  BY <1>6, <1>11, <1>12, SetOfNone, Zenon DEF Has
<1>14. Count(v) = Count(u)
  <2>1. Len(u.sent) \in Nat /\ Len(u.pending) \in Nat
    BY <1>2, SMT
  <2>2. Count(v) = Len(u.sent) + Len(u.pending) + 0 /\ Count(u) = Len(u.sent) + 0 + Len(u.pending)
    BY <1>6, <1>11, <1>12, SetOfNone, Zenon DEF Count
  <2> QED  BY <2>1, <2>2, CountsMoved, Zenon
<1>15. WaitSound(v, n, held)
  BY <1>12, <1>13, <1>14, Zenon DEF WaitSound
<1>16. v.task \notin {"connecting", "connected"} /\ Len(v.pending) <= 1
  BY <1>6, <1>10, <1>11, SMT
<1>17. UdpSound(v, n, held, late)
  BY <1>5, <1>6, <1>9, <1>10, <1>11, <1>12, <1>15, <1>16, SMT DEF UdpSound
<1> QED  BY <1>5, <1>10, <1>17, Zenon DEF v

\* The continuation has sent all that it took.
LEMMA DoneKeeps ==
  ASSUME NEW u, NEW n, NEW held \in BOOLEAN, NEW late \in BOOLEAN, UdpSound(u, n, held, late), u.task = "swapped"
  PROVE  LET v == [u EXCEPT !.task = "done"]
         IN  UdpSound(v, n, held, late) /\ v.key = u.key
<1> DEFINE v == [u EXCEPT !.task = "done"]
<1>1. u \in UdpType /\ DOMAIN u = UdpFields
  BY UdpFieldsAre, Zenon DEF UdpSound
<1>2. v \in UdpType
  <2>1. "done" \in Task
    BY SMT DEF Task
  <2> QED  BY <1>1, <2>1, Zenon DEF UdpType
<1>3. v.key = u.key /\ v.task = "done" /\ v.connected = u.connected /\ v.closed = u.closed
  BY ONLY <1>1, SMT DEF UdpFields
<1>4. v.pending = u.pending /\ v.swapped = u.swapped /\ v.sent = u.sent
  BY ONLY <1>1, SMT DEF UdpFields
<1> HIDE DEF v
<1>5. u.task \in {"swapped", "done"} /\ v.task # "connecting" /\ v.task # "connected" /\ v.task # "swapped"
  BY <1>3, SMT
<1>6. ~v.closed => WaitSound(v, n, held)
  BY <1>3, <1>4, Zenon DEF UdpSound, WaitSound, Has, Count
<1>7. UdpSound(v, n, held, late)
  BY <1>2, <1>3, <1>4, <1>5, <1>6, Zenon DEF UdpSound
<1> QED  BY <1>3, <1>7, Zenon DEF v

\* The continuation sends the first of the datagrams that it took.
LEMMA SendsPendingKeeps ==
  ASSUME NEW u, NEW n, NEW held \in BOOLEAN, NEW late \in BOOLEAN, UdpSound(u, n, held, late),
         u.task = "swapped", u.swapped # <<>>
  PROVE  LET v == [Datagrams!Sends(u, Head(u.swapped)) EXCEPT !.swapped = Tail(@)]
         IN  UdpSound(v, n, held, late) /\ v.key = u.key
<1> DEFINE d == Head(u.swapped)
           w == Datagrams!Sends(u, d)
           v == [w EXCEPT !.swapped = Tail(w.swapped)]
<1>1. u \in UdpType
  BY Zenon DEF UdpSound
<1>2. DOMAIN u = UdpFields /\ u.pending \in Seq(Nat) /\ u.swapped \in Seq(Nat) /\ u.sent \in Seq(Nat)
  BY <1>1, UdpFieldsAre, Zenon
<1>3. /\ Datagrams!ToSet(u.swapped) = {d} \cup Datagrams!ToSet(Tail(u.swapped)) /\ d \in Nat /\ Tail(u.swapped) \in Seq(Nat)
      /\ Len(u.swapped) = Len(Tail(u.swapped)) + 1
  BY <1>2, SetOfHead, Zenon
<1> HIDE DEF d
<1>4. /\ w \in UdpType /\ w.key = u.key /\ w.task = u.task /\ w.connected = u.connected /\ w.closed = u.closed
      /\ w.pending = u.pending /\ w.swapped = u.swapped
  BY <1>1, <1>3, SendsIs, Zenon
<1>5. w.sent = Append(u.sent, d)
  <2>1. w = [u EXCEPT !.sent = Append(u.sent, d)]
    BY Zenon DEF Datagrams!Sends
  <2> HIDE DEF w
  <2> QED  BY ONLY <1>2, <2>1, SMT DEF UdpFields
<1> HIDE DEF w
<1>6. v \in UdpType
  BY <1>3, <1>4, Zenon DEF UdpType
<1>7. DOMAIN w = UdpFields
  BY <1>4, UdpFieldsAre, Zenon
<1>8. v.key = w.key /\ v.task = w.task /\ v.connected = w.connected /\ v.closed = w.closed
  BY ONLY <1>7, SMT DEF UdpFields
<1>9. v.pending = w.pending /\ v.swapped = Tail(w.swapped) /\ v.sent = w.sent
  BY ONLY <1>7, SMT DEF UdpFields
<1> HIDE DEF v
<1>10. Datagrams!ToSet(v.sent) = Datagrams!ToSet(u.sent) \cup {d} /\ Len(v.sent) = Len(u.sent) + 1
  <2>1. /\ Datagrams!ToSet(Append(u.sent, d)) = Datagrams!ToSet(u.sent) \cup {d}
        /\ Len(Append(u.sent, d)) = Len(u.sent) + 1
    <3>1. d \in Nat /\ u.sent \in Seq(Nat)
      BY <1>2, <1>3, Zenon
    <3> QED  BY <3>1, SetOfAppend, Zenon
  <2> QED  BY <1>5, <1>9, <2>1, Zenon
<1>11. Datagrams!ToSet(u.swapped) = {d} \cup Datagrams!ToSet(v.swapped) /\ Len(u.swapped) = Len(v.swapped) + 1 /\ v.swapped \in Seq(Nat)
  BY <1>3, <1>4, <1>9, Zenon
<1>12. Has(v) = Has(u)
  BY <1>4, <1>9, <1>10, <1>11, Zenon DEF Has
<1>13. Count(v) = Count(u)
  <2> DEFINE a == Len(u.sent)
             b == Len(v.swapped)
             c == Len(u.pending)
  <2>1. a \in Nat /\ b \in Nat /\ c \in Nat
    BY <1>2, <1>11, SMT
  <2>2. Count(v) = (a + 1) + b + c /\ Count(u) = a + (b + 1) + c
    BY <1>4, <1>9, <1>10, <1>11, Zenon DEF Count
  <2> HIDE DEF a, b, c
  <2> QED  BY <2>1, <2>2, SMT
<1>14. WaitSound(u, n, held) /\ ~u.closed
  BY Zenon DEF UdpSound
<1>15. WaitSound(v, n, held)
  BY <1>12, <1>13, <1>14, Zenon DEF WaitSound
<1>16. v.task = "swapped" /\ v.task # "connecting" /\ v.task # "connected"
  BY <1>4, <1>8, SMT
<1>17. UdpSound(v, n, held, late)
  BY <1>4, <1>6, <1>8, <1>9, <1>15, <1>16, Zenon DEF UdpSound
<1> QED  BY <1>4, <1>8, <1>17, Zenon DEF v, w, d

-----------------------------------------------------------------------------

DatagramsSound == DatagramsTyped /\ SocketsBound /\ SenderSound /\ SocketsSound

\* A step of a task of socket h, or of the sender with it, after which the
\* datagrams of the socket are still sound.
LEMMA OneSocket ==
  ASSUME DatagramsSound, NEW h \in Datagrams!Handle, NEW v, udp' = [udp EXCEPT ![h] = v], udp[h].key # Datagrams!None,
         v.key = udp[h].key, UNCHANGED <<udp_by_key, given>>,
         \/ UNCHANGED sender
         \/ sender.handle = h /\ sender' = Datagrams!Away
         \/ sender.handle = h /\ sender' = [sender EXCEPT !.queues = TRUE],
         UdpSound(v, given[v.key], sender'.handle = h, sender'.handle = h /\ sender'.queues)
  PROVE  DatagramsSound'
<1> USE DEF DatagramsSound
<1>1. v \in UdpType
  BY Zenon DEF UdpSound
<1>2. /\ udp' \in [Datagrams!Handle -> UdpType] /\ udp'[h] = v
      /\ \A g \in Datagrams!Handle : (g # h => udp'[g] = udp[g]) /\ udp'[g].key = udp[g].key
  BY <1>1, Zenon DEF DatagramsTyped
<1>3. DOMAIN sender = {"handle", "datagram", "queues"}
  BY SMT DEF DatagramsTyped, SenderType
<1>4. sender' \in SenderType
  <2>1. Datagrams!Away \in SenderType
    <3>1. Datagrams!None \in Datagrams!Handle \cup {Datagrams!None} /\ 0 \in Nat /\ FALSE \in BOOLEAN
      BY SMT
    <3> QED  BY <3>1, SMT DEF Datagrams!Away, SenderType
  <2>2. [sender EXCEPT !.queues = TRUE] \in SenderType
    <3>1. TRUE \in BOOLEAN
      BY SMT
    <3> QED  BY <3>1, Zenon DEF DatagramsTyped, SenderType
  <2> QED  BY <2>1, <2>2, Zenon DEF DatagramsTyped, SenderType, Datagrams!Handle
<1>5. Datagrams!Away.handle = Datagrams!None /\ ~Datagrams!Away.queues
  BY SMT DEF Datagrams!Away
<1>6. \/ UNCHANGED sender
      \/ sender.handle = h /\ sender' = Datagrams!Away /\ sender'.handle = Datagrams!None
      \/ sender.handle = h /\ sender'.handle = h /\ sender'.datagram = sender.datagram
  <2>1. LET s == [sender EXCEPT !.queues = TRUE]
        IN  s.handle = sender.handle /\ s.datagram = sender.datagram
    BY <1>3, SMT
  <2> QED  BY <1>5, <2>1, Zenon
<1>7. Datagrams!None \notin Datagrams!Handle
  BY SMT DEF Datagrams!None, Datagrams!Handle
<1>8. DatagramsTyped'
  BY <1>2, <1>4, Zenon DEF DatagramsTyped, Datagrams!Handle, SenderType, UdpType, Task
<1>9. SocketsBound'
  <2>1. Bound' = Bound
    BY Zenon DEF Bound
  <2>2. \A k \in Ports, g \in Datagrams!Handle : udp_by_key'[k] = g <=> udp'[g].key = k
    <3> SUFFICES ASSUME NEW k \in Ports, NEW g \in Datagrams!Handle PROVE udp_by_key'[k] = g <=> udp'[g].key = k
      BY Zenon
    <3>1. udp_by_key[k] = g <=> udp[g].key = k
      BY Zenon DEF SocketsBound
    <3>2. udp'[g].key = udp[g].key /\ udp_by_key' = udp_by_key
      BY <1>2, Zenon
    <3> QED  BY <3>1, <3>2, Zenon
  <2>3. \A g \in Datagrams!Handle : udp'[g].key # Datagrams!None => g <= Cardinality(Bound')
    BY <1>2, <2>1, Zenon DEF SocketsBound
  <2>4. \A k \in Ports : udp_by_key'[k] = Datagrams!None => given'[k] = 0
    BY Zenon DEF SocketsBound
  <2>5. \A g \in Datagrams!Handle : udp'[g].key = Datagrams!None => udp'[g].task = "none"
    BY <1>2, Zenon DEF SocketsBound
  <2> QED  BY <2>2, <2>3, <2>4, <2>5, Zenon DEF SocketsBound, Datagrams!Handle
<1>10. SenderSound'
  <2>1. CASE UNCHANGED sender
    <3>1. sender.handle \in Datagrams!Handle \cup {Datagrams!None}
      BY Zenon DEF DatagramsTyped, SenderType
    <3>2. sender.handle # Datagrams!None => udp'[sender.handle].key = udp[sender.handle].key
      BY <1>2, <3>1, Zenon
    <3> QED  BY <2>1, <3>2, Zenon DEF SenderSound, Datagrams!Away
  <2>2. CASE sender' = Datagrams!Away /\ sender'.handle = Datagrams!None
    BY <2>2, Zenon DEF SenderSound, Datagrams!Away
  <2>3. CASE sender.handle = h /\ sender'.handle = h /\ sender'.datagram = sender.datagram
    <3>1. udp[h].key # Datagrams!None /\ sender.datagram = given[udp[h].key] /\ h # Datagrams!None /\ given' = given
      BY <1>7, <2>3, Zenon DEF SenderSound
    <3> QED  BY <1>2, <2>3, <3>1, Zenon DEF SenderSound
  <2> QED  BY <1>6, <2>1, <2>2, <2>3, Zenon
<1>11. SocketsSound'
  <2> SUFFICES ASSUME NEW g \in Datagrams!Handle, udp'[g].key # Datagrams!None
               PROVE  UdpSound(udp'[g], given'[udp'[g].key], sender'.handle = g, sender'.handle = g /\ sender'.queues)
    BY Zenon DEF SocketsSound, Datagrams!Handle, UdpSound, UdpType, Task, WaitSound, Has, Count
  <2>1. CASE g = h
    BY <1>2, <2>1, Zenon
  <2>2. CASE g # h
    <3>1. (sender'.handle = g <=> sender.handle = g) /\ (sender'.handle = g => sender' = sender)
      BY <1>6, <1>7, <2>2, Zenon
    <3>2. UdpSound(udp[g], given[udp[g].key], sender.handle = g, sender.handle = g /\ sender.queues)
      BY <1>2, <2>2, Zenon DEF SocketsSound
    <3>3. CASE sender.handle = g
      BY <1>2, <2>2, <3>1, <3>2, <3>3, Zenon
    <3>4. CASE sender.handle # g
      <4>1. (sender'.handle = g) = FALSE /\ (sender.handle = g) = FALSE
        BY <3>1, <3>4, Zenon
      <4> QED  BY <1>2, <2>2, <3>2, <4>1, Zenon DEF UdpSound, WaitSound
    <3> QED  BY <3>3, <3>4
  <2> QED  BY <2>1, <2>2
<1> QED  BY <1>8, <1>9, <1>10, <1>11, Zenon

\* The sender holds the last datagram given to a socket that is open.
LEMMA SenderIs ==
  ASSUME DatagramsSound, sender # Datagrams!Away
  PROVE  /\ sender.handle \in Datagrams!Handle /\ sender.handle # Datagrams!None /\ udp[sender.handle].key # Datagrams!None
         /\ udp[sender.handle].key \in Ports
         /\ sender.datagram = given[udp[sender.handle].key] /\ sender.datagram \in Nat
         /\ UdpSound(udp[sender.handle], sender.datagram, TRUE, sender.queues)
<1> USE DEF DatagramsSound
<1>1. sender.handle # Datagrams!None
  BY Zenon DEF SenderSound
<1>2. sender.handle \in Datagrams!Handle /\ sender.datagram \in Nat /\ sender.queues \in BOOLEAN
  BY <1>1, Zenon DEF DatagramsTyped, SenderType
<1>3. udp[sender.handle].key # Datagrams!None /\ sender.datagram = given[udp[sender.handle].key]
  BY <1>1, Zenon DEF SenderSound
<1>4. udp[sender.handle].key \in Ports
  BY <1>2, <1>3, Zenon DEF DatagramsTyped, UdpType
<1>5. UdpSound(udp[sender.handle], sender.datagram, sender.handle = sender.handle,
               sender.handle = sender.handle /\ sender.queues)
  BY <1>2, <1>3, Zenon DEF SocketsSound
<1>6. (sender.handle = sender.handle) = TRUE
  BY Zenon
<1>7. (TRUE /\ sender.queues) = sender.queues
  BY <1>2, Zenon
<1>8. UdpSound(udp[sender.handle], sender.datagram, TRUE, sender.queues)
  BY <1>5, <1>6, <1>7, Zenon
<1> QED  BY <1>1, <1>2, <1>3, <1>4, <1>8, Zenon

\* wpb_net_udp_send, up to the look at "connected", keeps the invariant.
LEMMA SendKeeps ==
  ASSUME DatagramsSound, Datagrams!wpb_net_udp_send
  PROVE  DatagramsSound'
<1> DEFINE h == sender.handle
           u == udp[h]
           d == sender.datagram
<1>1. sender # Datagrams!Away /\ ~sender.queues /\ UNCHANGED <<udp_by_key, given>>
  BY Zenon DEF Datagrams!wpb_net_udp_send
<1>2. /\ h \in Datagrams!Handle /\ h # Datagrams!None /\ u.key # Datagrams!None /\ u.key \in Ports
      /\ d = given[u.key] /\ d \in Nat /\ UdpSound(u, d, TRUE, sender.queues)
  BY <1>1, SenderIs, Zenon
<1>3. UdpSound(u, d, TRUE, FALSE)
  <2>1. sender.queues \in BOOLEAN
    BY Zenon DEF DatagramsSound, DatagramsTyped, SenderType
  <2>2. sender.queues = FALSE
    BY <1>1, <2>1, Zenon
  <2> QED  BY <1>2, <2>2, Zenon
<1>4. Datagrams!Away.handle = Datagrams!None /\ ~Datagrams!Away.queues
  BY SMT DEF Datagrams!Away
<1>5. udp \in [Datagrams!Handle -> UdpType]
  BY Zenon DEF DatagramsSound, DatagramsTyped
<1>6. CASE u.closed
  <2>1. sender' = Datagrams!Away /\ udp' = [udp EXCEPT ![h] = u]
    <3>1. sender' = Datagrams!Away /\ udp' = udp
      BY <1>6, Zenon DEF Datagrams!wpb_net_udp_send, Datagrams!Mine
    <3> QED  BY <1>5, <3>1, Zenon
  <2>2. (sender'.handle = h) = FALSE
    BY <1>2, <1>4, <2>1, Zenon
  <2>3. UdpSound(u, d, FALSE, FALSE)
    BY <1>3, <1>6, DropsClosed, Zenon
  <2>4. (FALSE /\ sender'.queues) = FALSE
    BY Zenon
  <2>5. UdpSound(u, given[u.key], sender'.handle = h, sender'.handle = h /\ sender'.queues)
    BY <1>2, <2>2, <2>3, <2>4, Zenon
  <2> HIDE DEF u
  <2> QED  BY <1>1, <1>2, <2>1, <2>5, OneSocket, Zenon DEF u
<1>7. CASE ~u.closed /\ u.connected
  <2> DEFINE v == Datagrams!Sends(u, d)
  <2>1. sender' = Datagrams!Away /\ udp' = [udp EXCEPT ![h] = v]
    BY <1>7, Zenon DEF Datagrams!wpb_net_udp_send, Datagrams!Mine
  <2>2. UdpSound(v, d, FALSE, FALSE)
    BY <1>2, <1>3, SentNow, Zenon
  <2>3. v.key = u.key
    BY <1>2, SendsIs, Zenon DEF UdpSound
  <2> HIDE DEF v
  <2>4. (sender'.handle = h) = FALSE
    BY <1>2, <1>4, <2>1, Zenon
  <2>5. (FALSE /\ sender'.queues) = FALSE
    BY Zenon
  <2>6. UdpSound(v, given[v.key], sender'.handle = h, sender'.handle = h /\ sender'.queues)
    BY <1>2, <2>2, <2>3, <2>4, <2>5, Zenon
  <2> QED  BY <1>1, <1>2, <2>1, <2>3, <2>6, OneSocket, Zenon
<1>8. CASE ~u.closed /\ ~u.connected
  <2>1. sender' = [sender EXCEPT !.queues = TRUE] /\ udp' = [udp EXCEPT ![h] = u]
    <3>1. sender' = [sender EXCEPT !.queues = TRUE] /\ udp' = udp
      BY <1>8, Zenon DEF Datagrams!wpb_net_udp_send, Datagrams!Mine
    <3> QED  BY <1>5, <3>1, Zenon
  <2>2. sender'.handle = h /\ sender'.queues = TRUE
    <3>1. DOMAIN sender = {"handle", "datagram", "queues"}
      BY SMT DEF DatagramsSound, DatagramsTyped, SenderType
    <3> QED  BY <2>1, <3>1, SMT
  <2>3. UdpSound(u, d, TRUE, TRUE)
    BY <1>2, <1>3, <1>8, LooksTooEarly, Zenon
  <2>4. (sender'.handle = h) = TRUE /\ (TRUE /\ sender'.queues) = TRUE
    BY <2>2, Zenon
  <2>5. UdpSound(u, given[u.key], sender'.handle = h, sender'.handle = h /\ sender'.queues)
    BY <1>2, <2>3, <2>4, Zenon
  <2> HIDE DEF u
  <2> QED  BY <1>1, <1>2, <2>1, <2>5, OneSocket, Zenon DEF u
<1> QED  BY <1>6, <1>7, <1>8, Zenon

\* wpb_net_udp_send, from the mutex on, keeps the invariant.
LEMMA QueuesKeeps ==
  ASSUME DatagramsSound, Datagrams!Queues
  PROVE  DatagramsSound'
<1> DEFINE h == sender.handle
           u == udp[h]
           d == sender.datagram
           v == [u EXCEPT !.pending = Append(u.pending, d)]
<1>1. sender.queues /\ sender' = Datagrams!Away /\ UNCHANGED <<udp_by_key, given>>
  BY Zenon DEF Datagrams!Queues
<1>2. ~Datagrams!Away.queues /\ Datagrams!Away.handle = Datagrams!None
  BY SMT DEF Datagrams!Away
<1>3. /\ h \in Datagrams!Handle /\ h # Datagrams!None /\ u.key # Datagrams!None /\ u.key \in Ports
      /\ d = given[u.key] /\ d \in Nat /\ UdpSound(u, d, TRUE, sender.queues)
  BY <1>1, <1>2, SenderIs, Zenon
<1>4. UdpSound(u, d, TRUE, TRUE)
  <2>1. sender.queues \in BOOLEAN
    BY Zenon DEF DatagramsSound, DatagramsTyped, SenderType
  <2>2. sender.queues = TRUE
    BY <1>1, <2>1, Zenon
  <2> QED  BY <1>3, <2>2, Zenon
<1>5. UdpSound(v, d, FALSE, FALSE) /\ v.key = u.key
  BY <1>3, <1>4, QueuedLate, Zenon
<1>6. udp' = [udp EXCEPT ![h] = v]
  BY Zenon DEF Datagrams!Queues
<1> HIDE DEF v
<1>7. (sender'.handle = h) = FALSE /\ (FALSE /\ sender'.queues) = FALSE
  BY <1>1, <1>2, <1>3, Zenon
<1>8. UdpSound(v, given[v.key], sender'.handle = h, sender'.handle = h /\ sender'.queues)
  BY <1>3, <1>5, <1>7, Zenon
<1> QED  BY <1>1, <1>3, <1>5, <1>6, <1>8, OneSocket, Zenon

\* A task that goes from socket u to socket v keeps the socket sound.
Keeps(from, u, v) ==
  \A n \in Nat, held, late \in BOOLEAN :
    UdpSound(u, n, held, late) /\ u.task = from => UdpSound(v, n, held, late) /\ v.key = u.key

\* A step of the thread pool keeps the invariant if it keeps its socket sound,
\* whatever the sender does with that socket.
LEMMA TaskKeeps ==
  ASSUME DatagramsSound, NEW h \in Datagrams!Handle, NEW from, NEW v, Datagrams!TaskDoes(h, from, v), from # "none",
         Keeps(from, udp[h], v)
  PROVE  DatagramsSound'
<1>1. udp[h].task = from /\ udp' = [udp EXCEPT ![h] = v] /\ UNCHANGED <<udp_by_key, sender, given>>
  BY Zenon DEF Datagrams!TaskDoes
<1>2. udp[h].key # Datagrams!None
  BY <1>1, Zenon DEF DatagramsSound, SocketsBound
<1> DEFINE held == sender.handle = h
           late == sender.handle = h /\ sender.queues
           n == given[udp[h].key]
<1>3. UdpSound(udp[h], n, held, late)
  BY <1>2, Zenon DEF DatagramsSound, SocketsSound
<1>4. held \in BOOLEAN /\ late \in BOOLEAN /\ n \in Nat
  <2>1. udp[h].key \in Ports
    BY <1>2, Zenon DEF DatagramsSound, DatagramsTyped, UdpType
  <2>2. n \in Nat
    BY <2>1, Zenon DEF DatagramsSound, DatagramsTyped
  <2>3. held \in BOOLEAN /\ late \in BOOLEAN
    BY Zenon
  <2> QED  BY <2>2, <2>3
<1> HIDE DEF held, late, n
<1>5. UdpSound(v, n, held, late) /\ v.key = udp[h].key
  BY <1>1, <1>3, <1>4, Zenon DEF Keeps
<1>6. UdpSound(v, given[v.key], sender'.handle = h, sender'.handle = h /\ sender'.queues)
  BY <1>1, <1>5, Zenon DEF held, late, n
<1> QED  BY <1>1, <1>2, <1>5, <1>6, OneSocket, Zenon

\* The continuation of connect keeps the invariant.
LEMMA ConnectsStep ==
  ASSUME DatagramsSound, NEW h \in Datagrams!Handle, Datagrams!Connects(h)
  PROVE  DatagramsSound'
<1>1. CASE Datagrams!TaskDoes(h, "connecting", [udp[h] EXCEPT !.task = "connected", !.connected = TRUE])
  <2> DEFINE v == [udp[h] EXCEPT !.task = "connected", !.connected = TRUE]
  <2>1. Datagrams!TaskDoes(h, "connecting", v) /\ "connecting" # "none"
    BY <1>1, SMT
  <2>2. Keeps("connecting", udp[h], v)
    <3> SUFFICES ASSUME NEW n \in Nat, NEW held \in BOOLEAN, NEW late \in BOOLEAN,
                         UdpSound(udp[h], n, held, late), udp[h].task = "connecting"
                  PROVE  UdpSound(v, n, held, late) /\ v.key = udp[h].key
      BY Zenon DEF Keeps
    <3> DEFINE u == udp[h]
    <3>1. UdpSound(u, n, held, late) /\ u.task = "connecting" /\ held \in BOOLEAN /\ late \in BOOLEAN
      BY SMT
    <3> HIDE DEF u
    <3>2. UdpSound([u EXCEPT !.task = "connected", !.connected = TRUE], n, held, late) /\ [u EXCEPT !.task = "connected", !.connected = TRUE].key = u.key
      BY ONLY <3>1, ConnectsKeeps, Zenon
    <3> QED  BY <3>2 DEF u
  <2> HIDE DEF v
  <2> QED  BY <2>1, <2>2, TaskKeeps, Zenon
<1>2. CASE Datagrams!TaskDoes(h, "connecting", [udp[h] EXCEPT !.task = "done", !.closed = TRUE])
  <2> DEFINE v == [udp[h] EXCEPT !.task = "done", !.closed = TRUE]
  <2>1. Datagrams!TaskDoes(h, "connecting", v) /\ "connecting" # "none"
    BY <1>2, SMT
  <2>2. Keeps("connecting", udp[h], v)
    <3> SUFFICES ASSUME NEW n \in Nat, NEW held \in BOOLEAN, NEW late \in BOOLEAN,
                         UdpSound(udp[h], n, held, late), udp[h].task = "connecting"
                  PROVE  UdpSound(v, n, held, late) /\ v.key = udp[h].key
      BY Zenon DEF Keeps
    <3> DEFINE u == udp[h]
    <3> HIDE DEF u
    <3>1. /\ UdpSound([u EXCEPT !.task = "done", !.closed = TRUE], n, held, late)
          /\ [u EXCEPT !.task = "done", !.closed = TRUE].key = u.key
      <4>1. UdpSound(u, n, held, late) /\ u.task = "connecting"
        BY DEF u
      <4> QED  BY <4>1, FailsKeeps, Zenon
    <3> QED  BY <3>1 DEF u
  <2> HIDE DEF v
  <2> QED  BY <2>1, <2>2, TaskKeeps, Zenon
<1> QED  BY <1>1, <1>2, Zenon DEF Datagrams!Connects

\* The swap of the queue keeps the invariant.
LEMMA SwapsStep ==
  ASSUME DatagramsSound, NEW h \in Datagrams!Handle, Datagrams!Swaps(h)
  PROVE  DatagramsSound'
<1> DEFINE v == [Datagrams!Taken(udp[h]) EXCEPT !.task = "swapped"]
<1>1. Datagrams!TaskDoes(h, "connected", v) /\ "connected" # "none"
  BY SMT DEF Datagrams!Swaps
<1>2. Keeps("connected", udp[h], v)
  <2> SUFFICES ASSUME NEW n \in Nat, NEW held \in BOOLEAN, NEW late \in BOOLEAN,
                       UdpSound(udp[h], n, held, late), udp[h].task = "connected"
                PROVE  UdpSound(v, n, held, late) /\ v.key = udp[h].key
    BY Zenon DEF Keeps
  <2> DEFINE u == udp[h]
  <2>1. UdpSound(u, n, held, late) /\ u.task = "connected" /\ held \in BOOLEAN /\ late \in BOOLEAN
    BY SMT
  <2> HIDE DEF u
  <2>2. UdpSound([Datagrams!Taken(u) EXCEPT !.task = "swapped"], n, held, late) /\ [Datagrams!Taken(u) EXCEPT !.task = "swapped"].key = u.key
    BY ONLY <2>1, SwapsKeeps, Zenon
  <2> QED  BY <2>2 DEF u
<1> HIDE DEF v
<1> QED  BY <1>1, <1>2, TaskKeeps, Zenon

\* Sending what was queued keeps the invariant.
LEMMA SendsPendingStep ==
  ASSUME DatagramsSound, NEW h \in Datagrams!Handle, Datagrams!SendsPending(h)
  PROVE  DatagramsSound'
<1>1. CASE udp[h].swapped = <<>>
  <2> DEFINE v == [udp[h] EXCEPT !.task = "done"]
  <2>1. Datagrams!TaskDoes(h, "swapped", v) /\ "swapped" # "none"
    BY <1>1, SMT DEF Datagrams!SendsPending
  <2>2. Keeps("swapped", udp[h], v)
    <3> SUFFICES ASSUME NEW n \in Nat, NEW held \in BOOLEAN, NEW late \in BOOLEAN,
                         UdpSound(udp[h], n, held, late), udp[h].task = "swapped"
                  PROVE  UdpSound(v, n, held, late) /\ v.key = udp[h].key
      BY Zenon DEF Keeps
    <3> DEFINE u == udp[h]
    <3>1. UdpSound(u, n, held, late) /\ u.task = "swapped" /\ held \in BOOLEAN /\ late \in BOOLEAN
      BY SMT
    <3> HIDE DEF u
    <3>2. UdpSound([u EXCEPT !.task = "done"], n, held, late) /\ [u EXCEPT !.task = "done"].key = u.key
      BY ONLY <3>1, DoneKeeps, Zenon
    <3> QED  BY <3>2 DEF u
  <2> HIDE DEF v
  <2> QED  BY <2>1, <2>2, TaskKeeps, Zenon
<1>2. CASE udp[h].swapped # <<>>
  <2> DEFINE v == [Datagrams!Sends(udp[h], Head(udp[h].swapped)) EXCEPT !.swapped = Tail(@)]
  <2>1. Datagrams!TaskDoes(h, "swapped", v) /\ "swapped" # "none"
    BY <1>2, SMT DEF Datagrams!SendsPending
  <2>2. Keeps("swapped", udp[h], v)
    <3> SUFFICES ASSUME NEW n \in Nat, NEW held \in BOOLEAN, NEW late \in BOOLEAN,
                         UdpSound(udp[h], n, held, late), udp[h].task = "swapped"
                  PROVE  UdpSound(v, n, held, late) /\ v.key = udp[h].key
      BY Zenon DEF Keeps
    <3> DEFINE u == udp[h]
    <3>1. UdpSound(u, n, held, late) /\ u.task = "swapped" /\ held \in BOOLEAN /\ late \in BOOLEAN /\ u.swapped # <<>>
      BY <1>2, SMT
    <3> HIDE DEF u
    <3>2. UdpSound([Datagrams!Sends(u, Head(u.swapped)) EXCEPT !.swapped = Tail(@)], n, held, late) /\ [Datagrams!Sends(u, Head(u.swapped)) EXCEPT !.swapped = Tail(@)].key = u.key
      BY ONLY <3>1, SendsPendingKeeps, Zenon
    <3> QED  BY <3>2 DEF u
  <2> HIDE DEF v
  <2> QED  BY <2>1, <2>2, TaskKeeps, Zenon
<1> QED  BY <1>1, <1>2, Zenon

\* A datagram given to a socket that is sound, old or new, keeps the invariant.
LEMMA GivesTo ==
  ASSUME Datagrams!ConstantsOK, DatagramsSound, NEW k \in Ports, NEW h \in Datagrams!Handle, sender = Datagrams!Away,
         udp_by_key' \in [Ports -> {Datagrams!None} \cup Datagrams!Handle], udp' \in [Datagrams!Handle -> UdpType], SocketsBound',
         given' = [given EXCEPT ![k] = given[k] + 1],
         sender' = [handle |-> h, datagram |-> given[k] + 1, queues |-> FALSE],
         udp'[h].key = k, UdpSound(udp'[h], given[k], FALSE, FALSE),
         \A g \in Datagrams!Handle \ {h} : udp'[g] = udp[g] /\ udp[g].key # k
  PROVE  DatagramsSound'
<1> DEFINE n == given[k]
<1>1. n \in Nat /\ n + 1 \in Nat
  <2>1. n \in Nat
    BY Zenon DEF DatagramsSound, DatagramsTyped
  <2> HIDE DEF n
  <2> QED  BY <2>1, SMT
<1>2. given'[k] = n + 1 /\ \A q \in Ports : q # k => given'[q] = given[q]
  BY Zenon DEF DatagramsSound, DatagramsTyped
<1>3. Datagrams!None \notin Ports /\ Datagrams!None \notin Datagrams!Handle
  BY SMT DEF Datagrams!ConstantsOK, Datagrams!None, Datagrams!Handle
<1>4. sender'.handle = h /\ sender'.datagram = n + 1 /\ sender'.queues = FALSE
  BY SMT
<1>5. DatagramsTyped'
  <2>1. sender' \in SenderType
    BY <1>1, Zenon DEF SenderType
  <2>2. given' \in [Ports -> Nat]
    BY <1>1, Zenon DEF DatagramsSound, DatagramsTyped
  <2> QED  BY <2>1, <2>2, Zenon DEF DatagramsTyped, Datagrams!Handle, SenderType, UdpType, Task
<1>6. SenderSound'
  BY <1>2, <1>3, <1>4, Zenon DEF SenderSound, Datagrams!Away
<1>7. SocketsSound'
  <2> SUFFICES ASSUME NEW g \in Datagrams!Handle, udp'[g].key # Datagrams!None
               PROVE  UdpSound(udp'[g], given'[udp'[g].key], sender'.handle = g, sender'.handle = g /\ sender'.queues)
    BY Zenon DEF SocketsSound, Datagrams!Handle, UdpSound, UdpType, Task, WaitSound, Has, Count
  <2>1. CASE g = h
    <3>1. UdpSound(udp'[h], n + 1, TRUE, FALSE)
      BY <1>1, GivenKeeps, Zenon
    <3>2. (sender'.handle = h) = TRUE /\ (TRUE /\ sender'.queues) = FALSE
      BY <1>4, Zenon
    <3> QED  BY <1>2, <2>1, <3>1, <3>2, Zenon
  <2>2. CASE g # h
    <3>1. udp'[g] = udp[g] /\ udp[g].key # k /\ udp[g].key # Datagrams!None
      BY <2>2, Zenon
    <3>2. udp[g].key \in Ports
      BY <3>1, Zenon DEF DatagramsSound, DatagramsTyped, UdpType
    <3>3. sender.handle # g
      <4>1. Datagrams!Away.handle = Datagrams!None
        BY SMT DEF Datagrams!Away
      <4> QED  BY <1>3, <4>1, Zenon
    <3>4. UdpSound(udp[g], given[udp[g].key], sender.handle = g, sender.handle = g /\ sender.queues)
      BY <3>1, Zenon DEF DatagramsSound, SocketsSound
    <3>5. (sender'.handle = g) = FALSE /\ (sender.handle = g) = FALSE
      BY <1>4, <2>2, <3>3, Zenon
    <3>6. (FALSE /\ sender'.queues) = FALSE /\ (FALSE /\ sender.queues) = FALSE
      BY Zenon
    <3>7. given'[udp[g].key] = given[udp[g].key]
      BY <1>2, <3>1, <3>2, Zenon
    <3> QED  BY <3>1, <3>4, <3>5, <3>6, <3>7, Zenon
  <2> QED  BY <2>1, <2>2
<1> QED  BY <1>5, <1>6, <1>7, Zenon DEF DatagramsSound

\* handle_udp on a key that has a socket.
LEMMA KnownStep ==
  ASSUME Datagrams!ConstantsOK, DatagramsSound, NEW k \in Ports, udp_by_key[k] # Datagrams!None, sender = Datagrams!Away,
         given' = [given EXCEPT ![k] = given[k] + 1], udp_by_key' = [udp_by_key EXCEPT ![k] = udp_by_key[k]],
         udp' = udp, sender' = [handle |-> udp_by_key[k], datagram |-> given[k] + 1, queues |-> FALSE]
  PROVE  DatagramsSound'
<1> DEFINE h == udp_by_key[k]
<1>1. h \in Datagrams!Handle /\ udp_by_key' = udp_by_key
  BY Zenon DEF DatagramsSound, DatagramsTyped
<1>2. udp[h].key = k
  BY <1>1, Zenon DEF DatagramsSound, SocketsBound
<1>3. \A g \in Datagrams!Handle \ {h} : udp[g].key # k
  <2>1. \A q \in Ports, g \in Datagrams!Handle : udp_by_key[q] = g <=> udp[g].key = q
    BY Zenon DEF DatagramsSound, SocketsBound
  <2> QED  BY <2>1, Zenon
<1>4. Datagrams!None \notin Ports /\ Datagrams!None \notin Datagrams!Handle
  BY SMT DEF Datagrams!ConstantsOK, Datagrams!None, Datagrams!Handle
<1>5. UdpSound(udp[h], given[k], FALSE, FALSE)
  <2>1. sender.handle # h
    <3>1. Datagrams!Away.handle = Datagrams!None
      BY SMT DEF Datagrams!Away
    <3> QED  BY <1>1, <1>4, <3>1, Zenon
  <2>2. UdpSound(udp[h], given[k], sender.handle = h, sender.handle = h /\ sender.queues)
    BY <1>1, <1>2, <1>4, Zenon DEF DatagramsSound, SocketsSound
  <2>3. (sender.handle = h) = FALSE /\ (FALSE /\ sender.queues) = FALSE
    BY <2>1, Zenon
  <2> QED  BY <2>2, <2>3, Zenon
<1>6. SocketsBound'
  <2>1. Bound' = Bound
    BY <1>1, Zenon DEF Bound
  <2>2. \A q \in Ports : udp_by_key'[q] = Datagrams!None => given'[q] = 0
    BY <1>1, Zenon DEF DatagramsSound, DatagramsTyped, SocketsBound
  <2>3. \A g \in Datagrams!Handle : udp'[g].key # Datagrams!None => g <= Cardinality(Bound')
    BY <2>1, Zenon DEF DatagramsSound, SocketsBound
  <2>4. \A q \in Ports, g \in Datagrams!Handle : udp_by_key'[q] = g <=> udp'[g].key = q
    <3> SUFFICES ASSUME NEW q \in Ports, NEW g \in Datagrams!Handle PROVE udp_by_key'[q] = g <=> udp'[g].key = q
      BY Zenon
    <3>1. udp_by_key[q] = g <=> udp[g].key = q
      BY Zenon DEF DatagramsSound, SocketsBound
    <3> QED  BY <1>1, <3>1, Zenon
  <2> QED  BY <2>2, <2>3, <2>4, Zenon DEF DatagramsSound, SocketsBound, Datagrams!Handle
<1> HIDE DEF h
<1>7. udp_by_key' \in [Ports -> {Datagrams!None} \cup Datagrams!Handle] /\ udp' \in [Datagrams!Handle -> UdpType]
  BY <1>1, Zenon DEF DatagramsSound, DatagramsTyped
<1>8. sender' = [handle |-> h, datagram |-> given[k] + 1, queues |-> FALSE]
  BY Zenon DEF h
<1> QED  BY <1>1, <1>2, <1>3, <1>5, <1>6, <1>7, <1>8, GivesTo, Zenon

\* What UdpFlows counts is what the theorems about finite sets count.
LEMMA FiniteHere ==
  ASSUME Datagrams!ConstantsOK
  PROVE  IsFiniteSet(Ports)
  BY Zenon DEF Datagrams!ConstantsOK, Datagrams!IsFiniteSet, IsFiniteSet

\* The handles of the datagrams' flows.
LEMMA HandlesHere == Datagrams!Handle = 1 .. Cardinality(Ports)
  BY Zenon DEF Datagrams!Handle, Datagrams!Cardinality, Cardinality

\* The next handle is not used, and there is one for every key.
LEMMA NewHandle ==
  ASSUME Datagrams!ConstantsOK, NEW k \in Ports, udp_by_key[k] = Datagrams!None
  PROVE  /\ Cardinality(Bound) \in Nat /\ 1 + Cardinality(Bound) \in Datagrams!Handle
         /\ Cardinality(Bound \cup {k}) = 1 + Cardinality(Bound)
<1>1. IsFiniteSet(Bound) /\ IsFiniteSet(Bound \cup {k}) /\ Bound \cup {k} \subseteq Ports
  <2>1. IsFiniteSet(Ports) /\ Bound \subseteq Ports /\ Bound \cup {k} \subseteq Ports
    BY FiniteHere, Zenon DEF Bound
  <2> QED  BY <2>1, FS_Subset, Zenon
<1>2. k \notin Bound
  BY Zenon DEF Bound
<1>3. Cardinality(Bound \cup {k}) = Cardinality(Bound) + 1
  BY <1>1, <1>2, FS_AddElement, Zenon
<1>4. Cardinality(Bound \cup {k}) <= Cardinality(Ports)
  BY <1>1, FiniteHere, FS_Subset, Zenon
<1>5. Cardinality(Bound) \in Nat /\ Cardinality(Ports) \in Nat
  BY <1>1, FiniteHere, FS_CardinalityType, Zenon
<1> DEFINE c == Cardinality(Bound)
           all == Cardinality(Ports)
<1> HIDE DEF c, all
<1>6. c \in Nat /\ all \in Nat /\ c + 1 <= all => 1 + c \in 1 .. all /\ c + 1 = 1 + c
  BY SMT
<1> QED  BY <1>3, <1>4, <1>5, <1>6, HandlesHere, Zenon DEF c, all

\* handle_udp on a key that has no socket yet.
LEMMA UnknownStep ==
  ASSUME Datagrams!ConstantsOK, DatagramsSound, NEW k \in Ports, udp_by_key[k] = Datagrams!None, sender = Datagrams!Away,
         NEW h, h = 1 + Cardinality(Bound),
         given' = [given EXCEPT ![k] = given[k] + 1], udp_by_key' = [udp_by_key EXCEPT ![k] = h],
         udp' = [udp EXCEPT ![h] = [Datagrams!Unused EXCEPT !.key = k, !.task = "connecting"]],
         sender' = [handle |-> h, datagram |-> given[k] + 1, queues |-> FALSE]
  PROVE  DatagramsSound'
<1>1. Cardinality(Bound) \in Nat /\ h \in Datagrams!Handle /\ Cardinality(Bound \cup {k}) = h
  BY NewHandle, Zenon
<1> DEFINE u == [Datagrams!Unused EXCEPT !.key = k, !.task = "connecting"]
<1>2. u \in UdpType /\ u.key = k /\ UdpSound(u, 0, FALSE, FALSE)
  BY NewSound, Zenon
<1> HIDE DEF u
<1>3. /\ udp' = [udp EXCEPT ![h] = u] /\ udp'[h] = u /\ udp' \in [Datagrams!Handle -> UdpType]
      /\ \A g \in Datagrams!Handle : g # h => udp'[g] = udp[g]
  <2>1. udp' = [udp EXCEPT ![h] = u]
    BY Zenon DEF u
  <2>2. udp \in [Datagrams!Handle -> UdpType]
    BY Zenon DEF DatagramsSound, DatagramsTyped
  <2> QED  BY ONLY <1>1, <1>2, <2>1, <2>2, Zenon
<1>4. /\ udp_by_key'[k] = h /\ udp_by_key' \in [Ports -> {Datagrams!None} \cup Datagrams!Handle]
      /\ \A q \in Ports : q # k => udp_by_key'[q] = udp_by_key[q]
  BY <1>1, Zenon DEF DatagramsSound, DatagramsTyped
<1>5. Datagrams!None \notin Ports /\ Datagrams!None \notin Datagrams!Handle
  BY SMT DEF Datagrams!ConstantsOK, Datagrams!None, Datagrams!Handle
<1>6. udp[h].key = Datagrams!None
  <2>1. ~(h <= Cardinality(Bound))
    BY <1>1, SMT
  <2> QED  BY <1>1, <2>1, Zenon DEF DatagramsSound, SocketsBound
<1>7. given[k] = 0
  BY Zenon DEF DatagramsSound, SocketsBound
<1>8. \A g \in Datagrams!Handle : udp[g].key # k
  BY <1>5, Zenon DEF DatagramsSound, SocketsBound
<1>9. \A q \in Ports : udp_by_key[q] # h
  <2> SUFFICES ASSUME NEW q \in Ports, udp_by_key[q] = h PROVE FALSE
    BY Zenon
  <2>1. udp[h].key = q
    BY <1>1, Zenon DEF DatagramsSound, SocketsBound
  <2> QED  BY <1>5, <1>6, <2>1, Zenon
<1>10. SocketsBound'
  <2>1. Bound' = Bound \cup {k}
    BY <1>1, <1>4, <1>5, Zenon DEF Bound
  <2>2. \A q \in Ports, g \in Datagrams!Handle : udp_by_key'[q] = g <=> udp'[g].key = q
    <3> SUFFICES ASSUME NEW q \in Ports, NEW g \in Datagrams!Handle PROVE udp_by_key'[q] = g <=> udp'[g].key = q
      BY Zenon
    <3>1. udp_by_key[q] = g <=> udp[g].key = q
      BY Zenon DEF DatagramsSound, SocketsBound
    <3>2. CASE q = k /\ g = h
      BY <1>2, <1>3, <1>4, <3>2, Zenon
    <3>3. CASE q = k /\ g # h
      BY <1>3, <1>4, <1>8, <3>3, Zenon
    <3>4. CASE q # k /\ g = h
      BY <1>2, <1>3, <1>4, <1>9, <3>4, Zenon
    <3>5. CASE q # k /\ g # h
      BY <1>3, <1>4, <3>1, <3>5, Zenon
    <3> QED  BY <3>2, <3>3, <3>4, <3>5, Zenon
  <2>3. \A g \in Datagrams!Handle : udp'[g].key # Datagrams!None => g <= Cardinality(Bound')
    <3> SUFFICES ASSUME NEW g \in Datagrams!Handle, udp'[g].key # Datagrams!None PROVE g <= h
      BY <1>1, <2>1, Zenon
    <3>1. CASE g = h
      <4>1. h \in Nat
        BY <1>1, SMT
      <4> QED  BY <3>1, <4>1, SMT
    <3>2. CASE g # h
      <4>1. g <= Cardinality(Bound)
        BY <1>3, <3>2, Zenon DEF DatagramsSound, SocketsBound
      <4>2. g \in Int
        BY SMT DEF Datagrams!Handle
      <4> QED  BY <1>1, <4>1, <4>2, SMT
    <3> QED  BY <3>1, <3>2
  <2>4. \A g \in Datagrams!Handle : udp'[g].key = Datagrams!None => udp'[g].task = "none"
    BY <1>2, <1>3, <1>5, Zenon DEF DatagramsSound, SocketsBound
  <2>5. \A q \in Ports : udp_by_key'[q] = Datagrams!None => given'[q] = 0
    <3> SUFFICES ASSUME NEW q \in Ports, udp_by_key'[q] = Datagrams!None PROVE given'[q] = 0
      BY Zenon
    <3>1. q # k
      BY <1>1, <1>4, <1>5, Zenon
    <3>2. given'[q] = given[q] /\ udp_by_key[q] = Datagrams!None
      BY <1>4, <3>1, Zenon DEF DatagramsSound, DatagramsTyped
    <3> QED  BY <3>2, Zenon DEF DatagramsSound, SocketsBound
  <2> QED  BY <2>2, <2>3, <2>4, <2>5, Zenon DEF SocketsBound, Datagrams!Handle
<1>11. udp'[h].key = k /\ UdpSound(udp'[h], given[k], FALSE, FALSE)
  BY <1>2, <1>3, <1>7, Zenon
<1>12. \A g \in Datagrams!Handle \ {h} : udp'[g] = udp[g] /\ udp[g].key # k
  BY <1>3, <1>8, Zenon
<1>13. /\ udp_by_key' \in [Ports -> {Datagrams!None} \cup Datagrams!Handle] /\ udp' \in [Datagrams!Handle -> UdpType] /\ h \in Datagrams!Handle
       /\ given' = [given EXCEPT ![k] = given[k] + 1]
       /\ sender' = [handle |-> h, datagram |-> given[k] + 1, queues |-> FALSE]
  BY <1>1, <1>3, <1>4, Zenon
<1> QED  BY <1>10, <1>11, <1>12, <1>13, GivesTo, Zenon

\* handle_udp, but for the bound on the datagrams.
Gives(k) ==
  LET known == udp_by_key[k] # Datagrams!None
      h == IF known THEN udp_by_key[k] ELSE 1 + Cardinality(Bound)
  IN  /\ sender = Datagrams!Away
      /\ given' = [given EXCEPT ![k] = given[k] + 1]
      /\ udp_by_key' = [udp_by_key EXCEPT ![k] = h]
      /\ udp' = IF known THEN udp ELSE [udp EXCEPT ![h] = [Datagrams!Unused EXCEPT !.key = k, !.task = "connecting"]]
      /\ sender' = [handle |-> h, datagram |-> given[k] + 1, queues |-> FALSE]

Steps ==
  \/ \E k \in Ports : Gives(k)
  \/ Datagrams!wpb_net_udp_send \/ Datagrams!Queues
  \/ \E h \in Datagrams!Handle : Datagrams!Connects(h) \/ Datagrams!Swaps(h) \/ Datagrams!SendsPending(h)

\* handle_udp keeps the invariant.
LEMMA GivesKeeps ==
  ASSUME Datagrams!ConstantsOK, DatagramsSound, NEW k \in Ports, Gives(k)
  PROVE  DatagramsSound'
<1>1. CASE udp_by_key[k] # Datagrams!None
  BY <1>1, KnownStep, Zenon DEF Gives
<1>2. CASE udp_by_key[k] = Datagrams!None
  <2> DEFINE h == 1 + Cardinality(Bound)
  <2>1. /\ sender = Datagrams!Away /\ given' = [given EXCEPT ![k] = given[k] + 1]
        /\ udp_by_key' = [udp_by_key EXCEPT ![k] = h]
        /\ udp' = [udp EXCEPT ![h] = [Datagrams!Unused EXCEPT !.key = k, !.task = "connecting"]]
        /\ sender' = [handle |-> h, datagram |-> given[k] + 1, queues |-> FALSE]
    BY <1>2, Zenon DEF Gives
  <2>2. h = 1 + Cardinality(Bound)
    BY Zenon
  <2> HIDE DEF h
  <2> QED  BY <1>2, <2>1, <2>2, UnknownStep, Zenon
<1> QED  BY <1>1, <1>2, Zenon

\* Every step keeps the invariant.
LEMMA DatagramsKeep ==
  ASSUME Datagrams!ConstantsOK, DatagramsSound, Steps
  PROVE  DatagramsSound'
<1>1. CASE \E k \in Ports : Gives(k)
  BY <1>1, GivesKeeps, Zenon
<1>2. CASE Datagrams!wpb_net_udp_send
  BY <1>2, SendKeeps, Zenon
<1>3. CASE Datagrams!Queues
  BY <1>3, QueuesKeeps, Zenon
<1>4. CASE \E h \in Datagrams!Handle : Datagrams!Connects(h)
  BY <1>4, ConnectsStep, Zenon
<1>5. CASE \E h \in Datagrams!Handle : Datagrams!Swaps(h)
  BY <1>5, SwapsStep, Zenon
<1>6. CASE \E h \in Datagrams!Handle : Datagrams!SendsPending(h)
  BY <1>6, SendsPendingStep, Zenon
<1> QED  BY <1>1, <1>2, <1>3, <1>4, <1>5, <1>6, Zenon DEF Steps

\* Next takes no other steps.
LEMMA DatagramsSteps ==
  Datagrams!Next => Steps
  BY Zenon DEF Datagrams!Next, Steps, Datagrams!handle_udp, Gives, Bound, Datagrams!Cardinality, Cardinality

\* Nor does a step that changes nothing of this.
LEMMA DatagramsStay ==
  ASSUME DatagramsSound, UNCHANGED Datagrams!vars
  PROVE  DatagramsSound'
<1>1. udp_by_key' = udp_by_key /\ udp' = udp /\ sender' = sender /\ given' = given
  BY Zenon DEF Datagrams!vars
<1>2. DatagramsTyped'
  BY <1>1, Zenon DEF DatagramsSound, DatagramsTyped, Datagrams!Handle, SenderType, UdpType, Task
<1>3. SocketsBound' /\ SenderSound'
  BY <1>1, Zenon DEF DatagramsSound, SocketsBound, SenderSound, Datagrams!Handle, Bound, Datagrams!Away
<1>4. SocketsSound'
  BY <1>1, Zenon DEF DatagramsSound, SocketsSound, Datagrams!Handle, UdpSound, UdpType, Task, WaitSound, Has, Count
<1> QED  BY <1>2, <1>3, <1>4, Zenon DEF DatagramsSound

\* The invariant holds at first.
LEMMA DatagramsStart ==
  ASSUME Datagrams!ConstantsOK, Datagrams!Init
  PROVE  DatagramsSound
<1>1. Datagrams!Unused.key = Datagrams!None /\ Datagrams!Unused.task = "none" /\ Datagrams!Unused \in UdpType
  <2>1. Datagrams!None \in Ports \cup {Datagrams!None} /\ "none" \in Task /\ FALSE \in BOOLEAN
    BY SMT DEF Task
  <2> QED  BY <2>1, SetOfNone, SMT DEF Datagrams!Unused, UdpType
<1>2. \A h \in Datagrams!Handle : udp[h] = Datagrams!Unused
  BY Zenon DEF Datagrams!Init
<1>3. Datagrams!Away.handle = Datagrams!None /\ Datagrams!Away \in SenderType
  <2>1. Datagrams!None \in Datagrams!Handle \cup {Datagrams!None} /\ 0 \in Nat /\ FALSE \in BOOLEAN
    BY SMT
  <2> QED  BY <2>1, SMT DEF Datagrams!Away, SenderType
<1>4. Datagrams!None \notin Ports /\ Datagrams!None \notin Datagrams!Handle /\ 0 \in Nat
  BY SMT DEF Datagrams!ConstantsOK, Datagrams!None, Datagrams!Handle
<1>5. DatagramsTyped
  BY <1>1, <1>3, <1>4, Zenon DEF Datagrams!Init, DatagramsTyped
<1>6. SocketsBound
  BY <1>1, <1>2, <1>4, Zenon DEF Datagrams!Init, SocketsBound
<1>7. SenderSound
  BY <1>3, Zenon DEF Datagrams!Init, SenderSound
<1>8. SocketsSound
  BY <1>1, <1>2, Zenon DEF SocketsSound
<1> QED  BY <1>5, <1>6, <1>7, <1>8, Zenon DEF DatagramsSound

\* Of a sound socket, what was sent, swapped, queued and is held by the sender,
\* one after the other, is every datagram given, each once.
LEMMA InFlight ==
  ASSUME NEW n \in Nat, NEW u \in UdpType, NEW held \in BOOLEAN, WaitSound(u, n, held)
  PROVE  LET all == u.sent \o u.swapped \o u.pending \o (IF held THEN <<n>> ELSE <<>>)
         IN  Datagrams!ToSet(all) = 1 .. n /\ Len(all) = n
<1> DEFINE last == IF held THEN <<n>> ELSE <<>>
           one == u.sent \o u.swapped
           two == one \o u.pending
           all == two \o last
<1>1. u.pending \in Seq(Nat) /\ u.swapped \in Seq(Nat) /\ u.sent \in Seq(Nat)
  BY UdpFieldsAre, Zenon
<1>2. Datagrams!ToSet(one) = Datagrams!ToSet(u.sent) \cup Datagrams!ToSet(u.swapped) /\ one \in Seq(Nat) /\ Len(one) = Len(u.sent) + Len(u.swapped)
  BY <1>1, SetOfJoined, Zenon
<1> HIDE DEF one
<1>3. Datagrams!ToSet(two) = Datagrams!ToSet(one) \cup Datagrams!ToSet(u.pending) /\ two \in Seq(Nat) /\ Len(two) = Len(one) + Len(u.pending)
  BY <1>1, <1>2, SetOfJoined, Zenon
<1> HIDE DEF two
<1>4. Datagrams!ToSet(two) = Has(u) /\ Len(two) = Count(u)
  BY <1>2, <1>3, Zenon DEF Has, Count
<1>5. CASE held
  <2>1. last = Append(<<>>, n)
    BY <1>5, SMT
  <2>2. Datagrams!ToSet(last) = {n} /\ last \in Seq(Nat) /\ Len(last) = 1
    <3>1. Append(<<>>, n) \in Seq(Nat) /\ Len(Append(<<>>, n)) = 0 + 1 /\ Datagrams!ToSet(Append(<<>>, n)) = {} \cup {n}
      BY SetOfNone, SetOfAppend, Zenon
    <3> HIDE DEF last
    <3>2. 0 + 1 = 1
      BY SMT
    <3> QED  BY <2>1, <3>1, <3>2, Zenon
  <2> HIDE DEF last
  <2>3. Datagrams!ToSet(all) = Datagrams!ToSet(two) \cup Datagrams!ToSet(last) /\ Len(all) = Len(two) + Len(last)
    BY <1>3, <2>2, SetOfJoined, Zenon
  <2>4. Datagrams!ToSet(all) = 1 .. n /\ Len(all) = n
    BY <1>4, <1>5, <2>2, <2>3, Zenon DEF WaitSound
  <2> QED  BY <2>4, Zenon DEF last, one, two
<1>6. CASE ~held
  <2>1. last = <<>>
    BY <1>6, Zenon
  <2> HIDE DEF last
  <2>2. Datagrams!ToSet(all) = Datagrams!ToSet(two) \cup Datagrams!ToSet(last) /\ Len(all) = Len(two) + Len(last)
    BY <1>3, <2>1, SetOfNone, SetOfJoined, Zenon
  <2>3. Datagrams!ToSet(all) = Datagrams!ToSet(two)
    BY <2>1, <2>2, SetOfNone, Zenon
  <2>4. Len(all) = Count(u) + 0
    BY <1>4, <2>1, <2>2, SetOfNone, Zenon
  <2>5. Has(u) = 1 .. n /\ Count(u) = n
    BY <1>6, Zenon DEF WaitSound
  <2>6. n + 0 = n
    BY SMT
  <2> QED  BY <1>4, <2>3, <2>4, <2>5, <2>6, Zenon DEF last, one, two
<1> QED  BY <1>5, <1>6, Zenon

\* In a sound state no datagram is lost or doubled, and at most one is stranded
\* on a socket that is connected.
LEMMA DatagramsSay ==
  ASSUME Datagrams!ConstantsOK, DatagramsSound
  PROVE  Datagrams!SentOnceOrWaiting /\ Datagrams!AtMostOneStranded
<1>1. Datagrams!AtMostOneStranded
  <2> SUFFICES ASSUME NEW h \in Datagrams!Handle, ~udp[h].closed, udp[h].task \in {"swapped", "done"}
               PROVE  Len(udp[h].pending) <= 1
    BY Zenon DEF Datagrams!AtMostOneStranded
  <2>1. udp[h].task # "none"
    BY SMT
  <2>2. udp[h].key # Datagrams!None
    BY <2>1, Zenon DEF DatagramsSound, SocketsBound
  <2> QED  BY <2>2, Zenon DEF DatagramsSound, SocketsSound, UdpSound
<1>2. Datagrams!SentOnceOrWaiting
  <2> SUFFICES ASSUME NEW h \in Datagrams!Handle, udp[h].key # Datagrams!None, ~udp[h].closed
               PROVE  LET u == udp[h]
                          all == u.sent \o u.swapped \o u.pending
                                 \o (IF sender.handle = h THEN <<sender.datagram>> ELSE <<>>)
                      IN  Datagrams!ToSet(all) = 1 .. given[u.key] /\ Len(all) = given[u.key]
    BY Zenon DEF Datagrams!SentOnceOrWaiting
  <2> DEFINE u == udp[h]
             n == given[udp[h].key]
             held == sender.handle = h
             late == sender.handle = h /\ sender.queues
             all == u.sent \o u.swapped \o u.pending \o (IF held THEN <<n>> ELSE <<>>)
  <2>1. UdpSound(u, n, held, late)
    BY Zenon DEF DatagramsSound, SocketsSound
  <2>2. u.key \in Ports
    BY Zenon DEF DatagramsSound, DatagramsTyped, UdpType
  <2>3. n \in Nat
    BY <2>2, Zenon DEF DatagramsSound, DatagramsTyped
  <2>4. held \in BOOLEAN
    BY Zenon
  <2>5. Datagrams!None \notin Datagrams!Handle
    BY SMT DEF Datagrams!None, Datagrams!Handle
  <2>6. held => sender.datagram = n
    BY <2>5, Zenon DEF DatagramsSound, SenderSound
  <2> HIDE DEF held, late, n
  <2>7. u \in UdpType /\ WaitSound(u, n, held)
    BY <2>1, Zenon DEF UdpSound
  <2>8. Datagrams!ToSet(all) = 1 .. n /\ Len(all) = n
    BY <2>3, <2>4, <2>7, InFlight, Zenon
  <2>9. CASE held
    BY <2>6, <2>8, <2>9, Zenon DEF held, n
  <2>10. CASE ~held
    BY <2>8, <2>10, Zenon DEF held, n
  <2> QED  BY <2>9, <2>10
<1> QED  BY <1>1, <1>2

-----------------------------------------------------------------------------
(* The run. *)

\* The datagrams given are as many as the bound allows.
DatagramsCounted == given \in [Ports -> 0 .. MaxDatagrams] /\ sender.datagram \in 0 .. MaxDatagrams

\* Every step keeps their count.
LEMMA DatagramsKeepCount ==
  ASSUME Datagrams!ConstantsOK, DatagramsSound, DatagramsCounted, Datagrams!Next
  PROVE  DatagramsCounted'
<1> USE DEF DatagramsCounted
<1>1. DOMAIN sender = {"handle", "datagram", "queues"}
  BY SMT DEF DatagramsSound, DatagramsTyped, SenderType
<1>2. 0 \in 0 .. MaxDatagrams
  BY SMT DEF Datagrams!ConstantsOK
<1>3. Datagrams!Away.datagram = 0
  BY SMT DEF Datagrams!Away
<1>4. CASE Datagrams!handle_udp
  <2>1. PICK k \in Ports :
          /\ given[k] < MaxDatagrams
          /\ given' = [given EXCEPT ![k] = given[k] + 1]
          /\ \E h : sender' = [handle |-> h, datagram |-> given[k] + 1, queues |-> FALSE]
    BY <1>4, Zenon DEF Datagrams!handle_udp
  <2>2. given[k] + 1 \in 0 .. MaxDatagrams
    <3>1. given[k] \in 0 .. MaxDatagrams /\ MaxDatagrams \in Nat
      BY Zenon DEF Datagrams!ConstantsOK
    <3> QED  BY <2>1, <3>1, SMT
  <2>3. sender'.datagram = given[k] + 1
    BY <2>1, SMT
  <2> QED  BY <2>1, <2>2, <2>3, Zenon
<1>5. CASE Datagrams!wpb_net_udp_send
  <2>1. given' = given
    BY <1>5, Zenon DEF Datagrams!wpb_net_udp_send
  <2>2. sender' = Datagrams!Away \/ sender' = [sender EXCEPT !.queues = TRUE]
    BY <1>5, Zenon DEF Datagrams!wpb_net_udp_send
  <2>3. [sender EXCEPT !.queues = TRUE].datagram = sender.datagram
    BY <1>1, SMT
  <2> QED  BY <1>2, <1>3, <2>1, <2>2, <2>3, Zenon
<1>6. CASE Datagrams!Queues
  BY <1>2, <1>3, <1>6, Zenon DEF Datagrams!Queues
<1>7. CASE \E h \in Datagrams!Handle : Datagrams!Connects(h) \/ Datagrams!Swaps(h) \/ Datagrams!SendsPending(h)
  <2>1. UNCHANGED <<sender, given>>
    BY <1>7, Zenon DEF Datagrams!Connects, Datagrams!Swaps, Datagrams!SendsPending, Datagrams!TaskDoes
  <2> QED  BY <2>1, Zenon
<1> QED  BY <1>4, <1>5, <1>6, <1>7, Zenon DEF Datagrams!Next

\* A sound state of the UDP half is well formed.
LEMMA DatagramsWellFormed ==
  ASSUME DatagramsSound, DatagramsCounted
  PROVE  Datagrams!TypeOK
<1>1. ASSUME NEW h \in Datagrams!Handle
      PROVE  /\ udp[h].key \in Ports \union {Datagrams!None}
             /\ udp[h].task \in {"none", "connecting", "connected", "swapped", "done"}
  BY Zenon DEF DatagramsSound, DatagramsTyped, UdpType, Task
<1>2. udp_by_key \in [Ports -> Datagrams!Handle \union {Datagrams!None}]
  <2>1. udp_by_key \in [Ports -> {Datagrams!None} \cup Datagrams!Handle]
    BY Zenon DEF DatagramsSound, DatagramsTyped
  <2> QED  BY <2>1, Zenon
<1>3. sender \in [handle : Datagrams!Handle \union {Datagrams!None}, datagram : 0 .. MaxDatagrams, queues : BOOLEAN]
  <2>1. sender \in SenderType
    BY Zenon DEF DatagramsSound, DatagramsTyped
  <2> QED  BY <2>1, SMT DEF SenderType, DatagramsCounted
<1> QED  BY <1>1, <1>2, <1>3, Zenon DEF Datagrams!TypeOK, DatagramsCounted

-----------------------------------------------------------------------------
StreamSound == SP!IInv /\ SP!Told /\ SP!Counted
ConnectionsSound == FP!IInv /\ FP!Told /\ FP!Counted

\* One part is driven, and it is sound.
NetworkIInv ==
  /\ driven \in {"stream", "flows", "datagrams"}
  /\ driven = "stream" => StreamSound
  /\ driven = "flows" => ConnectionsSound
  /\ driven = "datagrams" => DatagramsSound /\ DatagramsCounted

\* The run starts in states that are sound.
LEMMA NetworkStarts ==
  ASSUME Init
  PROVE  NetworkIInv
<1>1. driven \in {"stream", "flows", "datagrams"}
  BY Zenon DEF Init
<1>2. ASSUME driven = "stream" PROVE StreamSound
  <2>1. Stream!Init
    BY <1>2, Zenon DEF Init
  <2>2. SP!Init
    BY <2>1, Zenon
      DEF Stream!Init, SP!Init, Stream!None, SP!None, Stream!NoFlow, SP!NoFlow, Stream!Handle,
          SP!Handle, Stream!Unopened, SP!Unopened
  <2> QED  BY <2>2, ConstantsFit, SP!InitSound, SP!InitTells, SP!InitCounted, Zenon DEF StreamSound
<1>3. ASSUME driven = "flows" PROVE ConnectionsSound
  <2>1. driven # "stream"
    BY <1>3, SMT
  <2>2. Flows!Init
    BY <2>1, Zenon DEF Init
  <2>3. FP!Init
    BY <2>2, Zenon
      DEF Flows!Init, FP!Init, Flows!None, FP!None, Flows!NoFlow, FP!NoFlow, Flows!Handle, FP!Handle,
          Flows!Unopened, FP!Unopened
  <2> QED  BY <2>3, ConstantsFit, FP!InitSound, FP!InitTells, FP!InitCounted, Zenon DEF ConnectionsSound
<1>4. DatagramsSound
  <2>1. Datagrams!Init
    BY Zenon DEF Init
  <2> QED  BY <2>1, ConstantsFit, DatagramsStart, Zenon
<1>5. DatagramsCounted
  <2>1. Datagrams!Init /\ MaxDatagrams \in Nat
    BY ConstantsFit, Zenon DEF Init, Datagrams!ConstantsOK
  <2>2. given = [k \in Ports |-> 0] /\ sender = Datagrams!Away /\ 0 \in 0 .. MaxDatagrams /\ Datagrams!Away.datagram = 0
    BY <2>1, SMT DEF Datagrams!Init, Datagrams!Away
  <2> QED  BY <2>2, Zenon DEF DatagramsCounted
<1> QED  BY <1>1, <1>2, <1>3, <1>4, <1>5, Zenon DEF NetworkIInv

\* Every step of the run keeps it sound.
LEMMA NetworkKeeps ==
  ASSUME NetworkIInv, [Next]_vars
  PROVE  NetworkIInv'
<1>1. CASE driven = "stream" /\ Stream!Next /\ UNCHANGED <<driven, datagrams>>
  <2>1. StreamSound'
    <3>1. SP!Next /\ SP!IInv /\ SP!Told /\ SP!Counted
      BY <1>1, StreamSteps, Zenon DEF NetworkIInv, StreamSound
    <3>2. SP!IInv'
      BY <3>1, ConstantsFit, SP!NextSteps, SP!StepsKeep, Zenon
    <3>3. SP!Told' /\ SP!Counted'
      BY <3>1, ConstantsFit, SP!StepsTell, SP!StepsCount, Zenon
    <3> QED  BY <3>2, <3>3, Zenon DEF StreamSound
  <2>2. driven' = "stream" /\ driven' # "flows" /\ driven' # "datagrams"
    BY <1>1, SMT
  <2> QED  BY <2>1, <2>2, Zenon DEF NetworkIInv
<1>2. CASE driven = "flows" /\ Flows!Next /\ UNCHANGED <<driven, datagrams>>
  <2>1. ConnectionsSound'
    <3>1. FP!Next /\ FP!IInv /\ FP!Told /\ FP!Counted
      BY <1>2, FlowsSteps, Zenon DEF NetworkIInv, ConnectionsSound
    <3>2. FP!IInv'
      BY <3>1, ConstantsFit, FP!NextSteps, FP!StepsKeep, Zenon
    <3>3. FP!Told' /\ FP!Counted'
      BY <3>1, ConstantsFit, FP!StepsTell, FP!StepsCount, Zenon
    <3> QED  BY <3>2, <3>3, Zenon DEF ConnectionsSound
  <2>2. driven' = "flows" /\ driven' # "stream" /\ driven' # "datagrams"
    BY <1>2, SMT
  <2> QED  BY <2>1, <2>2, Zenon DEF NetworkIInv
<1>3. CASE driven = "datagrams" /\ Datagrams!Next /\ UNCHANGED <<driven, tcp>>
  <2>1. DatagramsSound' /\ DatagramsCounted'
    BY <1>3, DatagramsSteps, ConstantsFit, DatagramsKeep, DatagramsKeepCount, Zenon DEF NetworkIInv
  <2>2. driven' = "datagrams" /\ driven' # "stream" /\ driven' # "flows"
    BY <1>3, SMT
  <2> QED  BY <2>1, <2>2, Zenon DEF NetworkIInv
<1>4. CASE UNCHANGED vars
  <2>1. /\ UNCHANGED <<tcp_by_key, flow, socket, next_handle, remote>>
        /\ UNCHANGED <<flow, socket, next_handle, remote, rx_queue, guest>> /\ UNCHANGED <<draining, lost>>
        /\ UNCHANGED <<udp_by_key, udp, sender, given>> /\ driven' = driven
    BY <1>4, Zenon DEF vars, tcp, datagrams
  <2>2. ASSUME StreamSound PROVE StreamSound'
    <3>1. SP!IInv' /\ SP!Told'
      BY <2>1, <2>2, SP!UnchangedKeeps, SP!UnchangedTells, Zenon DEF StreamSound
    <3>2. SP!Counted'
      BY <2>1, <2>2, Zenon DEF StreamSound, SP!Counted, SP!Handle
    <3> QED  BY <3>1, <3>2, Zenon DEF StreamSound
  <2>3. ASSUME ConnectionsSound PROVE ConnectionsSound'
    <3>1. FP!IInv' /\ FP!Told'
      BY <2>1, <2>3, FP!UnchangedKeeps, FP!UnchangedTells, Zenon DEF ConnectionsSound
    <3>2. FP!Counted'
      BY <2>1, <2>3, Zenon DEF ConnectionsSound, FP!Counted, FP!Handle
    <3> QED  BY <3>1, <3>2, Zenon DEF ConnectionsSound
  <2>4. driven = "datagrams" => DatagramsSound' /\ DatagramsCounted'
    BY <2>1, DatagramsStay, Zenon DEF NetworkIInv, Datagrams!vars, DatagramsCounted
  <2> QED  BY <2>1, <2>2, <2>3, <2>4, Zenon DEF NetworkIInv
<1> QED  BY <1>1, <1>2, <1>3, <1>4, Zenon DEF Next

\* What is sound has the properties of the run.
LEMMA NetworkSays ==
  ASSUME NetworkIInv
  PROVE  FlowsAgree /\ SentAsGiven /\ GuestReadsInOrder
<1>1. FlowsAgree
  <2> SUFFICES ASSUME driven = "flows" PROVE Flows!KeysMatchFlows /\ Flows!NoOrphanSocket
    BY Zenon DEF FlowsAgree
  <2>1. FP!KeysMatchFlows /\ FP!NoOrphanSocket
    BY FP!SoundState, Zenon DEF NetworkIInv, ConnectionsSound
  <2> QED  BY <2>1, Zenon
      DEF Flows!KeysMatchFlows, FP!KeysMatchFlows, Flows!NoOrphanSocket, FP!NoOrphanSocket,
          Flows!NoFlow, FP!NoFlow, Flows!Handle, FP!Handle
<1>2. ASSUME driven = "stream"
      PROVE  /\ Stream!RemoteReadsInOrder /\ Stream!AcknowledgedIsKept
             /\ Stream!GuestReadsInOrder /\ Stream!EndMeansAll
  <2>1. SP!RemoteReadsInOrder /\ SP!AcknowledgedIsKept
    BY <1>2, SP!SoundState, Zenon DEF NetworkIInv, StreamSound
  <2>2. SP!GuestReadsInOrder /\ SP!EndMeansAll
    BY <1>2, SP!ToldSays, Zenon DEF NetworkIInv, StreamSound
  <2>3. Stream!RemoteReadsInOrder /\ Stream!AcknowledgedIsKept
    BY <2>1, Zenon
      DEF Stream!RemoteReadsInOrder, SP!RemoteReadsInOrder, Stream!AcknowledgedIsKept,
          SP!AcknowledgedIsKept, Stream!Stream, SP!Stream, Stream!NoFlow, SP!NoFlow, Stream!Handle,
          SP!Handle
  <2>4. Stream!GuestReadsInOrder /\ Stream!EndMeansAll
    BY <2>2, Zenon
      DEF Stream!GuestReadsInOrder, SP!GuestReadsInOrder, Stream!EndMeansAll, SP!EndMeansAll, Stream!Handle, SP!Handle, Stream!None, SP!None
  <2> QED  BY <2>3, <2>4
<1>3. ASSUME driven = "datagrams" PROVE Datagrams!SentOnceOrWaiting /\ Datagrams!AtMostOneStranded
  BY <1>3, ConstantsFit, DatagramsSay, Zenon DEF NetworkIInv
<1> QED  BY <1>1, <1>2, <1>3, Zenon DEF SentAsGiven, GuestReadsInOrder

\* What is sound is well formed.
LEMMA NetworkWellFormed ==
  ASSUME NetworkIInv
  PROVE  TypeOK
<1>1. ASSUME driven = "stream" PROVE Stream!TypeOK
  <2>1. SP!TypeOK
    BY <1>1, ConstantsFit, SP!SoundTypes, Zenon DEF NetworkIInv, StreamSound
  <2> QED  BY <2>1, Zenon
      DEF Stream!TypeOK, SP!TypeOK, Stream!None, SP!None, Stream!NoFlow, SP!NoFlow, Stream!Handle, SP!Handle,
          Stream!GuestByte, SP!GuestByte, Stream!RemoteByte, SP!RemoteByte, Stream!Segment, SP!Segment,
          Stream!Pending, SP!Pending, Stream!Flow, SP!Flow, Stream!SocketType, SP!SocketType
<1>2. ASSUME driven = "flows" PROVE Flows!TypeOK
  <2>1. FP!TypeOK
    BY <1>2, ConstantsFit, FP!SoundTypes, Zenon DEF NetworkIInv, ConnectionsSound
  <2> QED  BY <2>1, Zenon
      DEF Flows!TypeOK, FP!TypeOK, Flows!None, FP!None, Flows!NoFlow, FP!NoFlow, Flows!Handle, FP!Handle,
          Flows!GuestByte, FP!GuestByte, Flows!RemoteByte, FP!RemoteByte, Flows!Segment, FP!Segment,
          Flows!Pending, FP!Pending, Flows!Flow, FP!Flow, Flows!SocketType, FP!SocketType
<1>3. ASSUME driven = "datagrams" PROVE Datagrams!TypeOK
  BY <1>3, DatagramsWellFormed, Zenon DEF NetworkIInv
<1> QED  BY <1>1, <1>2, <1>3, Zenon DEF TypeOK

\* In every behaviour of the run, for any numbers of keys, connections, bytes
\* and datagrams, the part that is driven is sound.
THEOREM NetworkInvariant == Spec => []NetworkIInv
<1>1. Init => NetworkIInv
  BY NetworkStarts
<1>2. NetworkIInv /\ [Next]_vars => NetworkIInv'
  BY NetworkKeeps
<1> QED  BY <1>1, <1>2, PTL DEF Spec

\* The NAT's flows, sockets, frames and datagrams are well formed at any instant
\* (eth_nat.cc, wpb_net_io.cpp).
THEOREM NetworkTypes == Spec => []TypeOK
<1>1. NetworkIInv => TypeOK
  BY NetworkWellFormed
<1> QED  BY <1>1, NetworkInvariant, PTL

\* The NAT's maps of the TCP flows agree at any instant, and no socket stays
\* open behind a flow that was given up (eth_nat.cc).
THEOREM MapsAgree == Spec => []FlowsAgree
<1>1. NetworkIInv => FlowsAgree
  BY NetworkSays
<1> QED  BY <1>1, NetworkInvariant, PTL

\* What the guest sends through the NAT, bytes and datagrams, is neither lost,
\* repeated nor exchanged on the way to the remote host (eth_nat.cc,
\* wpb_net_io.cpp).
THEOREM NothingLost == Spec => []SentAsGiven
<1>1. NetworkIInv => SentAsGiven
  BY NetworkSays
<1> QED  BY <1>1, NetworkInvariant, PTL

\* The guest reads consecutive bytes of the remote host, however frames are lost
\* and sent again: from the first byte of the stream, but for the bytes that
\* OnTcpData drops because they came before the flow was established, and as
\* many bytes as it drops are missing.  When it sees the end of the stream it has
\* every other byte that was read before the end (eth_nat.cc, wpb_net_io.cpp).
THEOREM GuestReads == Spec => []GuestReadsInOrder
<1>1. NetworkIInv => GuestReadsInOrder
  BY NetworkSays
<1> QED  BY <1>1, NetworkInvariant, PTL
=============================================================================
