---------------------------- MODULE NatTcpProofs ----------------------------
(***************************************************************************)
(* The TCP half of the NAT, for any numbers of keys, connections, bytes,   *)
(* losses and retries.  The invariant says of each handle that the bytes   *)
(* with the remote host, in the store and in the queue follow each other,  *)
(* up to the sequence number that its flow expects next, and of the maps   *)
(* that they agree (IInv).  Of each connection it says that there are a    *)
(* key, an initial number and a number of bytes read before the guest      *)
(* could be told, by which every frame on its way to the guest, every      *)
(* pending segment and what the guest has read are numbered (Told).        *)
(***************************************************************************)
EXTENDS NatTcp, FiniteSetTheorems, WellFoundedInduction, TLAPS

FlowFields == {"key", "isn", "guest_next_seq", "our_next_seq", "established", "unacked"}

\* What the proofs need of a flow: not its pending segments.
FlowShape(f) ==
  f = NoFlow \/
    /\ DOMAIN f = FlowFields
    /\ f.key \in Keys /\ f.guest_next_seq \in Nat \ {0} /\ f.established \in BOOLEAN

\* The bytes of s come after n bytes.
Continues(s, n) == \A i \in 1 .. Len(s) : s[i] = n + i

Queued(s, r) == Len(r) + Len(s.storing) + Len(s.write_queue)

SocketSound(s) ==
  /\ s \in SocketType(GuestByte)
  /\ s.storing # <<>> => s.writing
  /\ s.connecting = "pending" => ~s.connected /\ (s.open => ~s.closed /\ s.storing = <<>> /\ s.reading = "none")
  /\ s.connecting = "calling" => s.connected \/ s.closed
  /\ s.reading = "end" => s.closed

BytesSound(s, r) ==
  /\ r \in Seq(GuestByte)
  /\ Continues(r, 0) /\ Continues(s.storing, Len(r))
  /\ s.open /\ ~s.closed => Continues(s.write_queue, Len(r) + Len(s.storing))

FlowSound(s, r, f) ==
  /\ FlowShape(f)
  /\ s.open /\ ~s.closed => f # NoFlow /\ Queued(s, r) = f.guest_next_seq - 1
  /\ f # NoFlow => s.open \/ s.closed
  /\ f.established => s.connected

HandleSound(s, r, f) == SocketSound(s) /\ BytesSound(s, r) /\ FlowSound(s, r, f)

SocketFields == {"open", "connected", "closed", "writing", "connecting", "reading", "write_queue", "storing"}

\* The fields of a socket.
LEMMA SocketFieldsAre ==
  ASSUME NEW s \in SocketType(GuestByte)
  PROVE  /\ DOMAIN s = SocketFields
         /\ s.open \in BOOLEAN /\ s.connected \in BOOLEAN /\ s.closed \in BOOLEAN /\ s.writing \in BOOLEAN
         /\ s.write_queue \in Seq(GuestByte) /\ s.storing \in Seq(GuestByte)
<1>1. DOMAIN s = SocketFields
  BY SMT DEF SocketType, SocketFields
<1> QED  BY <1>1, Zenon DEF SocketType

\* The fields of a flow.
LEMMA FlowFieldsAre ==
  ASSUME NEW f, FlowShape(f), f # NoFlow
  PROVE  /\ DOMAIN f = FlowFields /\ f.key \in Keys /\ f.guest_next_seq \in Nat \ {0} /\ f.established \in BOOLEAN
  BY Zenon DEF FlowShape

\* What has the fields of a flow is not NoFlow.
LEMMA NoFlowIs ==
  ASSUME NEW f, DOMAIN f = FlowFields
  PROVE  f # NoFlow
  BY SMT DEF FlowFields, NoFlow

\* The continuation of connect keeps the end of a handle sound.
LEMMA ConnectedKeeps ==
  ASSUME NEW s, NEW r, NEW f, NEW ok \in BOOLEAN, HandleSound(s, r, f), s.connecting = "pending"
  PROVE  HandleSound(Connected(s, ok), r, f)
<1> USE DEF HandleSound
<1> DEFINE t == Connected(s, ok)
<1>1. s \in SocketType(GuestByte)
  BY Zenon DEF SocketSound
<1>2. DOMAIN s = SocketFields
  BY <1>1, SocketFieldsAre, Zenon
<1>3. ~s.connected /\ ~f.established
  BY Zenon DEF SocketSound, FlowSound
<1>4. CASE s.open
  <2>1. t = [s EXCEPT !.connected = ok, !.closed = ~ok, !.connecting = "calling",
                      !.reading = IF ok THEN "loading" ELSE s.reading]
    BY <1>4, Zenon DEF Connected
  <2>2. t \in SocketType(GuestByte)
    <3>1. /\ "calling" \in {"none", "pending", "calling"} /\ "loading" \in {"none", "loading", "data", "end"}
      BY SMT
    <3> QED  BY <1>1, <2>1, <3>1, Zenon DEF SocketType
  <2>3. t.open = s.open /\ t.writing = s.writing /\ t.write_queue = s.write_queue /\ t.storing = s.storing
    BY <1>2, <2>1, SMT DEF SocketFields
  <2>4. t.connected = ok /\ t.closed = ~ok
    BY <1>2, <2>1, SMT DEF SocketFields
  <2>5. t.connecting = "calling" /\ t.reading = (IF ok THEN "loading" ELSE s.reading)
    BY <1>2, <2>1, SMT DEF SocketFields
  <2>6. s.reading = "none" /\ ~s.closed
    BY <1>4, Zenon DEF SocketSound
  <2>7. t.connecting # "pending" /\ t.reading # "end"
    BY <2>5, <2>6, SMT
  <2> HIDE DEF t
  <2>8. SocketSound(t)
    BY <2>2, <2>3, <2>4, <2>7, Zenon DEF SocketSound
  <2>9. BytesSound(t, r)
    BY <1>4, <2>3, <2>6, Zenon DEF BytesSound
  <2>10. FlowSound(t, r, f)
    BY <1>3, <1>4, <2>3, <2>6, Zenon DEF FlowSound, Queued
  <2> QED  BY <2>8, <2>9, <2>10, Zenon DEF t
<1>5. CASE ~s.open
  <2>1. t = [s EXCEPT !.connecting = "none"]
    BY <1>5, Zenon DEF Connected
  <2>2. t \in SocketType(GuestByte)
    <3>1. "none" \in {"none", "pending", "calling"}
      BY SMT
    <3> QED  BY <1>1, <2>1, <3>1, Zenon DEF SocketType
  <2>3. t.open = s.open /\ t.writing = s.writing /\ t.write_queue = s.write_queue /\ t.storing = s.storing
    BY <1>2, <2>1, SMT DEF SocketFields
  <2>4. t.connected = s.connected /\ t.closed = s.closed /\ t.reading = s.reading /\ t.connecting = "none"
    BY <1>2, <2>1, SMT DEF SocketFields
  <2>5. t.connecting \notin {"pending", "calling"}
    BY <2>4, SMT
  <2> HIDE DEF t
  <2>6. SocketSound(t)
    BY <2>2, <2>3, <2>4, <2>5, SMT DEF SocketSound
  <2>7. BytesSound(t, r)
    BY <2>3, <2>4, Zenon DEF BytesSound
  <2>8. FlowSound(t, r, f)
    BY <2>3, <2>4, Zenon DEF FlowSound, Queued
  <2> QED  BY <2>6, <2>7, <2>8, Zenon DEF t
<1> QED  BY <1>4, <1>5

\* Arithmetic: the first byte queued is the one that is stored.
LEMMA MovedOne ==
  ASSUME NEW a \in Nat, NEW b \in Nat
  PROVE  a + 1 + (b - 1) = a + 0 + b
  BY SMT

\* Arithmetic: the place of the next byte.
LEMMA NextPlace ==
  ASSUME NEW r, NEW p, NEW q, NEW n, n \in Nat,
         Len(r) \in Nat, Len(p) \in Nat, Len(q) \in Nat, Len(r) + Len(p) + Len(q) = n - 1
  PROVE  n = Len(r) + Len(p) + Len(q) + 1
  BY SMT

\* Flushing moves the bytes queued to the store and loses none.
LEMMA FlushedKeeps ==
  ASSUME NEW s \in SocketType(GuestByte), NEW r \in Seq(GuestByte), BytesSound(s, r), s.storing = <<>>, s.open
  PROVE  LET t == Flushed(s)
         IN  /\ t \in SocketType(GuestByte) /\ BytesSound(t, r) /\ Queued(t, r) = Queued(s, r)
             /\ t.open /\ t.closed = s.closed /\ t.connected = s.connected /\ t.connecting = s.connecting
             /\ t.reading = s.reading
             /\ s.writing => (t.storing # <<>> => t.writing)
<1> DEFINE t == Flushed(s)
<1>1. DOMAIN s = SocketFields
  BY SocketFieldsAre, Zenon
<1>2. CASE s.closed \/ s.write_queue = <<>>
  <2>1. t = [s EXCEPT !.writing = FALSE]
    BY <1>2, Zenon DEF Flushed
  <2>2. t \in SocketType(GuestByte)
    BY <2>1, Zenon DEF SocketType
  <2>3. t.open = s.open /\ t.closed = s.closed /\ t.connected = s.connected /\ t.connecting = s.connecting
    BY ONLY <1>1, <2>1, SMT DEF SocketFields
  <2>4. t.reading = s.reading /\ t.storing = s.storing /\ t.write_queue = s.write_queue
    BY ONLY <1>1, <2>1, SMT DEF SocketFields
  <2> HIDE DEF t
  <2>5. BytesSound(t, r)
    BY <2>3, <2>4, Zenon DEF BytesSound
  <2>6. Queued(t, r) = Queued(s, r)
    BY <2>4, Zenon DEF Queued
  <2> QED  BY <2>2, <2>3, <2>4, <2>5, <2>6, Zenon DEF t
<1>3. CASE ~s.closed /\ s.write_queue # <<>>
  <2>1. t = [s EXCEPT !.storing = <<Head(s.write_queue)>>, !.write_queue = Tail(s.write_queue)]
    BY <1>3, Zenon DEF Flushed
  <2>2. s.write_queue \in Seq(GuestByte) /\ s.write_queue # <<>>
    BY <1>3, Zenon DEF SocketType
  <2>3. <<Head(s.write_queue)>> \in Seq(GuestByte) /\ Tail(s.write_queue) \in Seq(GuestByte)
    BY <2>2, SMT
  <2>4. t \in SocketType(GuestByte)
    BY <2>1, <2>3, Zenon DEF SocketType
  <2>5. t.open = s.open /\ t.closed = s.closed /\ t.connected = s.connected /\ t.connecting = s.connecting
    BY ONLY <1>1, <2>1, SMT DEF SocketFields
  <2>6. t.reading = s.reading /\ t.writing = s.writing
    BY ONLY <1>1, <2>1, SMT DEF SocketFields
  <2>7. t.storing = <<Head(s.write_queue)>> /\ t.write_queue = Tail(s.write_queue)
    BY ONLY <1>1, <2>1, SMT DEF SocketFields
  <2> HIDE DEF t
  <2>8. /\ Len(t.storing) = 1 /\ Len(t.write_queue) = Len(s.write_queue) - 1 /\ Len(s.storing) = 0 /\ Len(r) \in Nat
        /\ Len(s.write_queue) \in Nat
    BY <2>2, <2>7, SMT
  <2>9. Queued(t, r) = Queued(s, r)
    <3>1. Queued(t, r) = Len(r) + 1 + (Len(s.write_queue) - 1)
      BY ONLY <2>8, Zenon DEF Queued
    <3>2. Queued(s, r) = Len(r) + 0 + Len(s.write_queue)
      BY ONLY <2>8, Zenon DEF Queued
    <3> QED  BY ONLY <2>8, <3>1, <3>2, MovedOne, Zenon
  <2>10. Continues(s.write_queue, Len(r) + 0)
    BY <1>3, <2>8, Zenon DEF BytesSound
  <2>11. Continues(t.storing, Len(r))
    BY <2>2, <2>7, <2>8, <2>10, SMT DEF Continues
  <2>12. Continues(t.write_queue, Len(r) + Len(t.storing))
    BY <2>2, <2>7, <2>8, <2>10, SMT DEF Continues
  <2>13. BytesSound(t, r)
    BY <2>11, <2>12, Zenon DEF BytesSound
  <2> QED  BY <2>4, <2>5, <2>6, <2>9, <2>13, Zenon DEF t
<1> QED  BY <1>2, <1>3

\* The next byte after those that follow each other.
LEMMA Longer ==
  ASSUME NEW q \in Seq(GuestByte), NEW n \in Nat, NEW b \in GuestByte, Continues(q, n), b = n + Len(q) + 1
  PROVE  Continues(Append(q, b), n) /\ Append(q, b) \in Seq(GuestByte) /\ Len(Append(q, b)) = Len(q) + 1
  BY SMT DEF Continues

\* Bytes that follow each other, then those that follow them.
LEMMA Joined ==
  ASSUME NEW p \in Seq(GuestByte), NEW q \in Seq(GuestByte), Continues(p, 0), Continues(q, Len(p))
  PROVE  Continues(p \o q, 0) /\ p \o q \in Seq(GuestByte) /\ Len(p \o q) = Len(p) + Len(q)
<1>1. p \o q \in Seq(GuestByte) /\ Len(p \o q) = Len(p) + Len(q)
  BY SMT
<1>2. ASSUME NEW i \in 1 .. Len(p \o q) PROVE (p \o q)[i] = 0 + i
  <2>1. CASE i <= Len(p)
    BY <2>1, SMT DEF Continues
  <2>2. CASE i > Len(p)
    <3>1. i - Len(p) \in 1 .. Len(q) /\ (p \o q)[i] = q[i - Len(p)]
      BY <1>1, <2>2, SMT
    <3> QED  BY <3>1, SMT DEF Continues
  <2> QED  BY <2>1, <2>2, SMT
<1> QED  BY <1>1, <1>2, Zenon DEF Continues

\* wpb_net_tcp_send with the byte that the flow expects next.
LEMMA SentKeeps ==
  ASSUME NEW s, NEW r, NEW f, HandleSound(s, r, f), f # NoFlow, f.established,
         NEW b \in GuestByte, f.guest_next_seq = b,
         NEW g, FlowShape(g), g # NoFlow, g.guest_next_seq = b + 1, g.established = f.established
  PROVE  HandleSound(Sent(s, b), r, g)
<1> USE DEF HandleSound
<1>1. s \in SocketType(GuestByte) /\ r \in Seq(GuestByte) /\ b \in Nat
  BY Zenon DEF SocketSound, BytesSound, FlowSound, FlowShape
<1>2. DOMAIN s = SocketFields /\ s.write_queue \in Seq(GuestByte) /\ s.storing \in Seq(GuestByte)
  BY <1>1, SocketFieldsAre, Zenon
<1>3. CASE ~s.open \/ s.closed \/ ~s.connected
  <2>1. Sent(s, b) = s
    BY <1>3, Zenon DEF Sent
  <2>2. s.connected
    BY Zenon DEF FlowSound
  <2>3. FlowSound(s, r, g)
    BY <1>3, <2>2, Zenon DEF FlowSound
  <2> QED  BY <2>1, <2>3, Zenon
<1>4. CASE s.open /\ ~s.closed /\ s.connected
  <2> DEFINE q == [s EXCEPT !.write_queue = Append(s.write_queue, b), !.writing = TRUE]
             t == Sent(s, b)
  <2>1. t = IF s.writing THEN q ELSE Flushed(q)
    BY <1>4, Zenon DEF Sent
  <2>2. Queued(s, r) = b - 1 /\ Continues(s.write_queue, Len(r) + Len(s.storing))
    BY <1>4, Zenon DEF FlowSound, BytesSound
  <2>3. Len(r) + Len(s.storing) \in Nat /\ b = Len(r) + Len(s.storing) + Len(s.write_queue) + 1
    <3>1. Len(r) \in Nat /\ Len(s.storing) \in Nat /\ Len(s.write_queue) \in Nat
      BY <1>1, <1>2, SMT
    <3>2. Len(r) + Len(s.storing) + Len(s.write_queue) = b - 1
      BY <2>2, Zenon DEF Queued
    <3>3. b = Len(r) + Len(s.storing) + Len(s.write_queue) + 1
      BY ONLY <1>1, <3>1, <3>2, NextPlace, Zenon
    <3>4. Len(r) + Len(s.storing) \in Nat
      BY <3>1, SMT
    <3> QED  BY <3>3, <3>4, Zenon
  <2>4. /\ Continues(Append(s.write_queue, b), Len(r) + Len(s.storing)) /\ Append(s.write_queue, b) \in Seq(GuestByte)
        /\ Len(Append(s.write_queue, b)) = Len(s.write_queue) + 1
    BY <1>2, <2>2, <2>3, Longer, Zenon
  <2>5. q \in SocketType(GuestByte)
    BY <1>1, <2>4, Zenon DEF SocketType
  <2>6. q.open = s.open /\ q.closed = s.closed /\ q.connected = s.connected /\ q.connecting = s.connecting
    BY <1>2, SMT DEF SocketFields
  <2>7. q.reading = s.reading /\ q.storing = s.storing /\ q.write_queue = Append(s.write_queue, b) /\ q.writing
    BY <1>2, SMT DEF SocketFields
  <2> HIDE DEF q, t
  <2>8. Queued(q, r) = g.guest_next_seq - 1
    <3>1. Len(r) \in Nat /\ Len(s.storing) \in Nat /\ Len(s.write_queue) \in Nat
      BY <1>1, <1>2, SMT
    <3>2. Queued(q, r) = Len(r) + Len(s.storing) + (Len(s.write_queue) + 1)
      BY <2>4, <2>7, Zenon DEF Queued
    <3>3. g.guest_next_seq = b + 1
      BY Zenon
    <3>4. Len(r) + Len(s.storing) + Len(s.write_queue) = b - 1
      BY <2>2, Zenon DEF Queued
    <3> DEFINE x == Len(r)
               y == Len(s.storing)
               z == Len(s.write_queue)
    <3>5. Len(r) + Len(s.storing) + (Len(s.write_queue) + 1) = (b + 1) - 1
      <4>1. x \in Nat /\ y \in Nat /\ z \in Nat /\ x + y + z = b - 1 /\ b \in Nat
        BY <1>1, <3>1, <3>4, Zenon
      <4> HIDE DEF x, y, z
      <4>2. x + y + (z + 1) = (b + 1) - 1
        BY ONLY <4>1, SMT
      <4> QED  BY <4>2 DEF x, y, z
    <3> QED  BY <3>2, <3>3, <3>5, Zenon
  <2>9. BytesSound(q, r)
    BY <2>4, <2>6, <2>7, Zenon DEF BytesSound
  <2>10. CASE s.writing
    <3>1. t = q
      BY <2>1, <2>10, Zenon
    <3>2. SocketSound(q)
      BY <1>4, <2>5, <2>6, <2>7, Zenon DEF SocketSound
    <3>3. FlowSound(q, r, g)
      BY <1>4, <2>6, <2>8, Zenon DEF FlowSound
    <3> QED  BY <2>9, <3>1, <3>2, <3>3, Zenon DEF t
  <2>11. CASE ~s.writing
    <3>1. t = Flushed(q) /\ q.storing = <<>> /\ q.open
      BY <1>4, <2>1, <2>6, <2>7, <2>11, Zenon DEF SocketSound
    <3>2. /\ t \in SocketType(GuestByte) /\ BytesSound(t, r) /\ Queued(t, r) = Queued(q, r)
          /\ t.open /\ t.closed = q.closed /\ t.connected = q.connected /\ t.connecting = q.connecting
          /\ t.reading = q.reading /\ (t.storing # <<>> => t.writing)
      BY <1>1, <2>5, <2>7, <2>9, <3>1, FlushedKeeps, Zenon
    <3>3. SocketSound(t)
      BY <1>4, <2>6, <2>7, <3>2, Zenon DEF SocketSound
    <3>4. FlowSound(t, r, g)
      BY <1>4, <2>6, <2>8, <3>2, Zenon DEF FlowSound
    <3> QED  BY <3>2, <3>3, <3>4, Zenon DEF t
  <2> QED  BY <2>10, <2>11
<1> QED  BY <1>3, <1>4

\* The continuation of a store: the remote host has the bytes, and the queue is
\* flushed again.
LEMMA StoredKeeps ==
  ASSUME NEW s, NEW r, NEW f, NEW ok \in BOOLEAN, HandleSound(s, r, f), s.storing # <<>>
  PROVE  HandleSound(Stored(s, ok), IF ok THEN r \o s.storing ELSE r, f)
<1> USE DEF HandleSound
<1> DEFINE q == [s EXCEPT !.storing = <<>>]
           x == IF ok THEN r \o s.storing ELSE r
           t == Stored(s, ok)
<1>1. s \in SocketType(GuestByte) /\ r \in Seq(GuestByte)
  BY Zenon DEF SocketSound, BytesSound
<1>2. DOMAIN s = SocketFields /\ s.write_queue \in Seq(GuestByte) /\ s.storing \in Seq(GuestByte)
  BY <1>1, SocketFieldsAre, Zenon
<1>3. q \in SocketType(GuestByte)
  <2>1. <<>> \in Seq(GuestByte)
    BY SMT
  <2> QED  BY <1>1, <2>1, Zenon DEF SocketType
<1>4. q.open = s.open /\ q.closed = s.closed /\ q.connected = s.connected /\ q.connecting = s.connecting
  BY <1>2, SMT DEF SocketFields
<1>5. q.reading = s.reading /\ q.storing = <<>> /\ q.write_queue = s.write_queue /\ q.writing = s.writing
  BY <1>2, SMT DEF SocketFields
<1>6. t = IF ~s.open THEN q ELSE IF ok THEN Flushed(q) ELSE [q EXCEPT !.closed = TRUE]
  BY <1>4, Zenon DEF Stored
<1> HIDE DEF q, t
<1>7. Continues(r, 0) /\ Continues(s.storing, Len(r))
  BY Zenon DEF BytesSound
<1>8. ok => x \in Seq(GuestByte) /\ Len(x) = Len(r) + Len(s.storing) /\ Continues(x, 0)
  BY <1>1, <1>2, <1>7, Joined, Zenon
<1>9. Continues(q.storing, Len(x))
  BY <1>5, SMT DEF Continues
<1>10. Continues(x, 0) /\ x \in Seq(GuestByte)
  BY <1>1, <1>7, <1>8, Zenon
<1> HIDE DEF x
<1>11. s.writing /\ (s.open => s.connecting # "pending")
  BY Zenon DEF SocketSound
<1>12. CASE ~s.open
  <2>1. t = q
    BY <1>6, <1>12, Zenon
  <2>2. SocketSound(q)
    BY <1>3, <1>4, <1>5, <1>12, Zenon DEF SocketSound
  <2>3. BytesSound(q, x)
    BY <1>4, <1>9, <1>10, <1>12, Zenon DEF BytesSound
  <2>4. FlowSound(q, x, f)
    BY <1>4, <1>12, Zenon DEF FlowSound
  <2> QED  BY <2>1, <2>2, <2>3, <2>4, Zenon DEF t, x
<1>13. CASE s.open /\ ok
  <2>1. t = Flushed(q)
    BY <1>6, <1>13, Zenon
  <2>2. Len(q.storing) = 0 /\ Len(x) = Len(r) + Len(s.storing) /\ Len(x) \in Nat /\ Len(x) + 0 = Len(x)
    BY <1>5, <1>8, <1>10, <1>13, SMT
  <2>3. BytesSound(q, x)
    BY <1>4, <1>5, <1>9, <1>10, <2>2, Zenon DEF BytesSound
  <2>4. Queued(q, x) = Queued(s, r)
    BY <1>1, <1>2, <1>5, <2>2, SMT DEF Queued
  <2>5. /\ t \in SocketType(GuestByte) /\ BytesSound(t, x) /\ Queued(t, x) = Queued(q, x)
        /\ t.open /\ t.closed = q.closed /\ t.connected = q.connected /\ t.connecting = q.connecting
        /\ t.reading = q.reading /\ (t.storing # <<>> => t.writing)
    BY <1>3, <1>4, <1>5, <1>10, <1>11, <1>13, <2>1, <2>3, FlushedKeeps, Zenon
  <2>6. SocketSound(t)
    BY <1>4, <1>5, <1>11, <1>13, <2>5, Zenon DEF SocketSound
  <2>7. FlowSound(t, x, f)
    BY <1>4, <1>13, <2>4, <2>5, Zenon DEF FlowSound
  <2> QED  BY <2>5, <2>6, <2>7, Zenon DEF t, x
<1>14. CASE s.open /\ ~ok
  <2>1. t = [q EXCEPT !.closed = TRUE] /\ x = r
    BY <1>6, <1>14, Zenon DEF x
  <2>2. DOMAIN q = SocketFields
    BY <1>3, SocketFieldsAre, Zenon
  <2>3. t \in SocketType(GuestByte)
    BY <1>3, <2>1, Zenon DEF SocketType
  <2>4. t.open = q.open /\ t.closed /\ t.connected = q.connected /\ t.connecting = q.connecting
    BY <2>1, <2>2, SMT DEF SocketFields
  <2>5. t.reading = q.reading /\ t.storing = q.storing /\ t.writing = q.writing
    BY <2>1, <2>2, SMT DEF SocketFields
  <2>6. SocketSound(t)
    BY <1>4, <1>5, <1>11, <1>14, <2>3, <2>4, <2>5, Zenon DEF SocketSound
  <2>7. BytesSound(t, x)
    BY <1>9, <1>10, <2>4, <2>5, Zenon DEF BytesSound
  <2>8. FlowSound(t, x, f)
    BY <1>4, <2>4, Zenon DEF FlowSound
  <2> QED  BY <2>6, <2>7, <2>8, Zenon DEF t, x
<1> QED  BY <1>12, <1>13, <1>14

\* The continuation of a load.
LEMMA LoadedKeeps ==
  ASSUME NEW s, NEW r, NEW f, NEW some \in BOOLEAN, HandleSound(s, r, f), s.reading = "loading"
  PROVE  HandleSound(Loaded(s, some), r, f)
<1> USE DEF HandleSound
<1> DEFINE t == Loaded(s, some)
<1>1. s \in SocketType(GuestByte)
  BY Zenon DEF SocketSound
<1>2. DOMAIN s = SocketFields
  BY <1>1, SocketFieldsAre, Zenon
<1>3. s.open => s.connecting # "pending"
  <2>1. s.reading # "none"
    BY SMT
  <2> QED  BY <2>1, Zenon DEF SocketSound
<1>4. CASE ~s.open \/ some
  <2> DEFINE reading == IF s.open THEN "data" ELSE "none"
  <2>1. t = [s EXCEPT !.reading = reading]
    BY <1>4, Zenon DEF Loaded
  <2>2. reading \in {"none", "loading", "data", "end"} /\ reading # "end"
    BY SMT
  <2> HIDE DEF reading
  <2>3. t \in SocketType(GuestByte)
    BY <1>1, <2>1, <2>2, Zenon DEF SocketType
  <2>4. t.open = s.open /\ t.closed = s.closed /\ t.connected = s.connected /\ t.connecting = s.connecting
    BY <1>2, <2>1, SMT DEF SocketFields
  <2>5. t.reading = reading /\ t.storing = s.storing /\ t.write_queue = s.write_queue /\ t.writing = s.writing
    BY <1>2, <2>1, SMT DEF SocketFields
  <2> HIDE DEF t
  <2>6. SocketSound(t)
    BY <1>3, <2>2, <2>3, <2>4, <2>5, Zenon DEF SocketSound
  <2>7. BytesSound(t, r)
    BY <2>4, <2>5, Zenon DEF BytesSound
  <2>8. FlowSound(t, r, f)
    BY <2>4, <2>5, Zenon DEF FlowSound, Queued
  <2> QED  BY <2>6, <2>7, <2>8, Zenon DEF t
<1>5. CASE s.open /\ ~some
  <2>1. t = [s EXCEPT !.reading = "end", !.closed = TRUE]
    BY <1>5, Zenon DEF Loaded
  <2>2. "end" \in {"none", "loading", "data", "end"}
    BY SMT
  <2>3. t \in SocketType(GuestByte)
    BY <1>1, <2>1, <2>2, Zenon DEF SocketType
  <2>4. t.open = s.open /\ t.closed /\ t.connected = s.connected /\ t.connecting = s.connecting
    BY <1>2, <2>1, SMT DEF SocketFields
  <2>5. t.storing = s.storing /\ t.write_queue = s.write_queue /\ t.writing = s.writing
    BY <1>2, <2>1, SMT DEF SocketFields
  <2> HIDE DEF t
  <2>6. SocketSound(t)
    BY <1>3, <1>5, <2>3, <2>4, <2>5, Zenon DEF SocketSound
  <2>7. BytesSound(t, r)
    BY <2>4, <2>5, Zenon DEF BytesSound
  <2>8. FlowSound(t, r, f)
    BY <2>4, Zenon DEF FlowSound
  <2> QED  BY <2>6, <2>7, <2>8, Zenon DEF t
<1> QED  BY <1>4, <1>5

\* Closing a socket, whether its flow is given up or stays.
LEMMA ClosedKeeps ==
  ASSUME NEW s, NEW r, NEW f, HandleSound(s, r, f)
  PROVE  HandleSound(Closed(s), r, NoFlow) /\ (f # NoFlow => HandleSound(Closed(s), r, f))
<1> USE DEF HandleSound
<1> DEFINE t == Closed(s)
<1>1. s \in SocketType(GuestByte)
  BY Zenon DEF SocketSound
<1>2. DOMAIN s = SocketFields
  BY <1>1, SocketFieldsAre, Zenon
<1>3. FlowShape(NoFlow) /\ ~NoFlow.established
  BY SMT DEF FlowShape, NoFlow
<1>4. CASE s.open
  <2>1. t = [s EXCEPT !.closed = TRUE, !.open = FALSE]
    BY <1>4, Zenon DEF Closed
  <2>2. t \in SocketType(GuestByte)
    BY <1>1, <2>1, Zenon DEF SocketType
  <2>3. ~t.open /\ t.closed /\ t.connected = s.connected /\ t.connecting = s.connecting
    BY <1>2, <2>1, SMT DEF SocketFields
  <2>4. t.reading = s.reading /\ t.storing = s.storing /\ t.writing = s.writing
    BY <1>2, <2>1, SMT DEF SocketFields
  <2> HIDE DEF t
  <2>5. SocketSound(t)
    BY <2>2, <2>3, <2>4, Zenon DEF SocketSound
  <2>6. BytesSound(t, r)
    BY <2>3, <2>4, Zenon DEF BytesSound
  <2>7. FlowSound(t, r, NoFlow) /\ FlowSound(t, r, f)
    BY <1>3, <2>3, Zenon DEF FlowSound
  <2> QED  BY <2>5, <2>6, <2>7, Zenon DEF t
<1>5. CASE ~s.open
  <2>1. t = s
    BY <1>5, Zenon DEF Closed
  <2>2. FlowSound(s, r, NoFlow)
    BY <1>3, <1>5, Zenon DEF FlowSound
  <2> QED  BY <2>1, <2>2, Zenon
<1> QED  BY <1>4, <1>5
-----------------------------------------------------------------------------
(* The state. *)

\* A flow that differs only in its segments.
LikeFlow(g, f) ==
  /\ FlowShape(g) /\ (g = NoFlow <=> f = NoFlow)
  /\ f # NoFlow => g.key = f.key /\ g.guest_next_seq = f.guest_next_seq /\ g.established = f.established

RemoteEnd == [sent : Nat, read : Nat, early : Nat, received : Seq(GuestByte)]

\* The remote end of a handle that was not given out.
Unread == [sent |-> 0, read |-> 0, early |-> 0, received |-> <<>>]

FlowsTyped ==
  /\ tcp_by_key \in [Keys -> {None} \cup Handle]
  /\ next_handle \in 1 .. MaxHandle + 1
  /\ DOMAIN flow = Handle /\ DOMAIN socket = Handle
  /\ remote \in [Handle -> RemoteEnd]

HandlesSound == \A h \in Handle : HandleSound(socket[h], remote[h].received, flow[h])

UnusedSound ==
  \A h \in Handle : h >= next_handle => flow[h] = NoFlow /\ socket[h] = Unopened /\ remote[h] = Unread

IInv == FlowsTyped /\ HandlesSound /\ KeysMatchFlows /\ UnusedSound

\* A flow that differs in its pending segments only.
LEMMA LikeKeeps ==
  ASSUME NEW s, NEW r, NEW f, NEW g, HandleSound(s, r, f), LikeFlow(g, f)
  PROVE  HandleSound(s, r, g)
<1>1. ~NoFlow.established
  BY SMT DEF NoFlow
<1> QED  BY <1>1, Zenon DEF HandleSound, FlowSound, LikeFlow

\* Sending a segment to the guest changes no more than that.
LEMMA SendingIsLike ==
  ASSUME NEW f, FlowShape(f), f # NoFlow, NEW seg
  PROVE  LikeFlow(Sending(f, seg), f)
<1> DEFINE g == Sending(f, seg)
<1>1. DOMAIN f = FlowFields
  BY FlowFieldsAre, Zenon
<1>2. /\ DOMAIN g = FlowFields /\ g.key = f.key /\ g.guest_next_seq = f.guest_next_seq
      /\ g.established = f.established
  BY ONLY <1>1, SMT DEF Sending, FlowFields
<1>3. g # NoFlow
  BY <1>2, NoFlowIs, Zenon
<1> QED  BY <1>2, <1>3, FlowFieldsAre, Zenon DEF LikeFlow, FlowShape

\* Nor does any other change of the pending segments,
LEMMA RecountedIsLike ==
  ASSUME NEW f, FlowShape(f), f # NoFlow, NEW u
  PROVE  LikeFlow([f EXCEPT !.unacked = u], f)
<1> DEFINE g == [f EXCEPT !.unacked = u]
<1>1. DOMAIN f = FlowFields
  BY FlowFieldsAre, Zenon
<1>2. /\ DOMAIN g = FlowFields /\ g.key = f.key /\ g.guest_next_seq = f.guest_next_seq
      /\ g.established = f.established
  BY ONLY <1>1, SMT DEF FlowFields
<1>3. g # NoFlow
  BY <1>2, NoFlowIs, Zenon
<1> QED  BY <1>2, <1>3, FlowFieldsAre, Zenon DEF LikeFlow, FlowShape

\* such as a retransmission.
LEMMA ResentIsLike ==
  ASSUME NEW f, FlowShape(f), f # NoFlow
  PROVE  LikeFlow(AfterResend(f), f)
  BY RecountedIsLike, Zenon DEF AfterResend

\* A step that changes one handle's socket, flow and remote end keeps the
\* invariant if it keeps them sound, and the maps together.
LEMMA OneHandle ==
  ASSUME IInv, NEW h \in Handle, h < next_handle, next_handle' = next_handle,
         DOMAIN socket' = Handle, DOMAIN flow' = Handle,
         remote' \in [Handle -> RemoteEnd],
         \A g \in Handle : g # h => /\ socket'[g] = socket[g] /\ flow'[g] = flow[g]
                                    /\ remote'[g] = remote[g],
         HandleSound(socket'[h], remote'[h].received, flow'[h]),
         \/ /\ tcp_by_key' = tcp_by_key
            /\ flow'[h] = NoFlow <=> flow[h] = NoFlow
            /\ flow[h] # NoFlow => flow'[h].key = flow[h].key
         \/ /\ tcp_by_key' = [tcp_by_key EXCEPT ![flow[h].key] = None]
            /\ flow[h] # NoFlow /\ flow'[h] = NoFlow
  PROVE  IInv'
<1> USE DEF IInv
<1>1. HandlesSound'
  BY Zenon DEF HandlesSound
<1>2. UnusedSound'
  <2>1. ASSUME NEW g \in Handle, g >= next_handle' PROVE g # h /\ g >= next_handle
    BY <2>1, SMT DEF FlowsTyped, Handle
  <2> QED  BY <2>1, Zenon DEF UnusedSound
<1>3. FlowsTyped' /\ KeysMatchFlows'
  <2>1. CASE tcp_by_key' = tcp_by_key /\ (flow'[h] = NoFlow <=> flow[h] = NoFlow)
             /\ (flow[h] # NoFlow => flow'[h].key = flow[h].key)
    <3>1. ASSUME NEW k \in Keys, NEW g \in Handle
          PROVE  tcp_by_key'[k] = g <=> flow'[g] # NoFlow /\ flow'[g].key = k
      <4>1. tcp_by_key[k] = g <=> flow[g] # NoFlow /\ flow[g].key = k
        BY Zenon DEF KeysMatchFlows
      <4>2. (flow'[g] # NoFlow <=> flow[g] # NoFlow) /\ (flow[g] # NoFlow => flow'[g].key = flow[g].key)
        BY <2>1, Zenon
      <4> QED  BY <2>1, <4>1, <4>2, Zenon
    <3> QED  BY <2>1, <3>1, Zenon DEF FlowsTyped, KeysMatchFlows, Handle
  <2>2. CASE tcp_by_key' = [tcp_by_key EXCEPT ![flow[h].key] = None] /\ flow[h] # NoFlow /\ flow'[h] = NoFlow
    <3>1. flow[h].key \in Keys
      BY <2>2, FlowFieldsAre, Zenon DEF HandlesSound, HandleSound, FlowSound
    <3>2. tcp_by_key' \in [Keys -> {None} \cup Handle] /\ tcp_by_key'[flow[h].key] = None
      BY <2>2, <3>1, Zenon DEF FlowsTyped
    <3>3. \A k \in Keys : k # flow[h].key => tcp_by_key'[k] = tcp_by_key[k]
      BY <2>2, <3>1, Zenon DEF FlowsTyped
    <3>4. None \notin Handle
      BY SMT DEF None, Handle
    <3>5. KeysMatchFlows'
      <4> SUFFICES ASSUME NEW k \in Keys, NEW g \in Handle
                   PROVE  tcp_by_key'[k] = g <=> flow'[g] # NoFlow /\ flow'[g].key = k
        BY Zenon DEF KeysMatchFlows, Handle
      <4>1. tcp_by_key[k] = g <=> flow[g] # NoFlow /\ flow[g].key = k
        BY Zenon DEF KeysMatchFlows
      <4>2. tcp_by_key[flow[h].key] = h
        BY <2>2, <3>1, SMT DEF KeysMatchFlows
      <4>3. CASE k = flow[h].key
        BY <2>2, <3>2, <3>4, <4>1, <4>2, <4>3, Zenon
      <4>4. CASE k # flow[h].key
        <5>1. CASE g = h
          BY <2>2, <3>3, <4>1, <4>4, <5>1, Zenon
        <5>2. CASE g # h
          BY <3>3, <4>1, <4>4, <5>2, Zenon
        <5> QED  BY <5>1, <5>2
      <4> QED  BY <4>3, <4>4
    <3> QED  BY <3>2, <3>5, Zenon DEF FlowsTyped, Handle
  <2> QED  BY <2>1, <2>2, Zenon
<1> QED  BY <1>1, <1>2, <1>3, Zenon

\* Such a step that leaves the maps and the flows alone.
LEMMA SameFlows ==
  ASSUME IInv, NEW h \in Handle, h < next_handle,
         next_handle' = next_handle, tcp_by_key' = tcp_by_key, flow' = flow,
         DOMAIN socket' = Handle, remote' \in [Handle -> RemoteEnd],
         \A g \in Handle : g # h => socket'[g] = socket[g],
         \A g \in Handle : g # h => remote'[g] = remote[g],
         HandleSound(socket'[h], remote'[h].received, flow[h])
  PROVE  IInv'
<1>1. DOMAIN flow' = Handle
  BY Zenon DEF IInv, FlowsTyped
<1>2. HandleSound(socket'[h], remote'[h].received, flow'[h])
  BY Zenon
<1>3. \A g \in Handle : g # h => /\ socket'[g] = socket[g] /\ flow'[g] = flow[g]
                                /\ remote'[g] = remote[g]
  BY Zenon
<1>4. /\ tcp_by_key' = tcp_by_key
      /\ flow'[h] = NoFlow <=> flow[h] = NoFlow
      /\ flow[h] # NoFlow => flow'[h].key = flow[h].key
  BY Zenon
<1> QED  BY <1>1, <1>2, <1>3, <1>4, OneHandle, Zenon

\* A step that changes none of this keeps the invariant.
LEMMA UnchangedKeeps ==
  ASSUME IInv, UNCHANGED <<tcp_by_key, flow, socket, next_handle, remote>>
  PROVE  IInv'
<1> USE DEF IInv
<1>1. FlowsTyped'
  BY Zenon DEF FlowsTyped, Handle, RemoteEnd
<1>2. HandlesSound'
  BY Zenon DEF HandlesSound, Handle
<1>3. KeysMatchFlows'
  BY Zenon DEF KeysMatchFlows, Handle
<1>4. UnusedSound'
  BY Zenon DEF UnusedSound, Handle
<1> QED  BY <1>1, <1>2, <1>3, <1>4, Zenon

\* A function changed at one argument.
LEMMA At ==
  ASSUME NEW S, NEW f, DOMAIN f = S, NEW h \in S, NEW x, NEW g, g = [f EXCEPT ![h] = x]
  PROVE  DOMAIN g = S /\ g[h] = x /\ \A i \in S : i # h => g[i] = f[i]
  BY SMT

\* A handle with a flow or a socket has been given out.
LEMMA Used ==
  ASSUME IInv, NEW h \in Handle, flow[h] # NoFlow \/ socket[h] # Unopened
  PROVE  h < next_handle
  BY SMT DEF IInv, UnusedSound, FlowsTyped, Handle

\* What the invariant says of one handle.
LEMMA HandleIs ==
  ASSUME IInv, NEW h \in Handle
  PROVE  /\ HandleSound(socket[h], remote[h].received, flow[h]) /\ FlowShape(flow[h])
         /\ DOMAIN socket = Handle /\ DOMAIN flow = Handle
         /\ remote \in [Handle -> RemoteEnd]
  BY Zenon DEF IInv, HandlesSound, HandleSound, FlowSound, FlowsTyped

\* The fields of a remote end.
LEMMA RemoteEndIs ==
  ASSUME NEW r \in RemoteEnd
  PROVE  /\ DOMAIN r = {"sent", "read", "early", "received"} /\ r.sent \in Nat /\ r.read \in Nat
         /\ r.early \in Nat /\ r.received \in Seq(GuestByte)
<1>1. DOMAIN r = {"sent", "read", "early", "received"}
  BY SMT DEF RemoteEnd
<1> QED  BY <1>1, Zenon DEF RemoteEnd

\* The remote ends, one of them changed.
LEMMA RemoteAt ==
  ASSUME NEW R \in [Handle -> RemoteEnd], NEW h \in Handle, NEW x \in RemoteEnd, NEW T, T = [R EXCEPT ![h] = x]
  PROVE  T \in [Handle -> RemoteEnd] /\ T[h] = x /\ \A g \in Handle : g # h => T[g] = R[g]
  BY Zenon

\* The continuation of connect keeps the invariant.
LEMMA ConnectCompletesKeeps ==
  ASSUME IInv, NEW h \in Handle, NEW ok \in BOOLEAN, ConnectCompletes(h, ok)
  PROVE  IInv'
<1>1. socket[h].connecting = "pending" /\ socket' = [socket EXCEPT ![h] = Connected(socket[h], ok)]
  BY Zenon DEF ConnectCompletes
<1>2. UNCHANGED <<tcp_by_key, flow, next_handle, remote>>
  BY Zenon DEF ConnectCompletes
<1>3. socket[h] # Unopened
  BY <1>1, SMT DEF Unopened
<1>4. h < next_handle
  BY <1>3, Used, Zenon
<1>5. HandleSound(Connected(socket[h], ok), remote[h].received, flow[h])
  BY <1>1, HandleIs, ConnectedKeeps, Zenon
<1>6. /\ DOMAIN socket' = Handle /\ socket'[h] = Connected(socket[h], ok)
      /\ \A g \in Handle : g # h => socket'[g] = socket[g]
  BY <1>1, HandleIs, At, Zenon
<1>7. next_handle' = next_handle /\ tcp_by_key' = tcp_by_key /\ flow' = flow /\ remote' = remote
  BY <1>2, Zenon
<1>8. remote' \in [Handle -> RemoteEnd] /\ \A g \in Handle : g # h => remote'[g] = remote[g]
  BY <1>7, HandleIs, Zenon
<1>9. HandleSound(socket'[h], remote'[h].received, flow[h])
  BY <1>5, <1>6, <1>7, Zenon
<1> QED  BY <1>4, <1>6, <1>7, <1>8, <1>9, SameFlows, Zenon

\* The continuation of a load keeps the invariant.
LEMMA LoadCompletesKeeps ==
  ASSUME IInv, NEW h \in Handle, NEW some \in BOOLEAN, LoadCompletes(h, some)
  PROVE  IInv'
<1> DEFINE n == IF some /\ socket[h].open THEN remote[h].read + 1 ELSE remote[h].read
<1>1. socket[h].reading = "loading" /\ socket' = [socket EXCEPT ![h] = Loaded(socket[h], some)]
  BY Zenon DEF LoadCompletes
<1>2. UNCHANGED <<tcp_by_key, flow, next_handle>> /\ remote' = [remote EXCEPT ![h].read = n]
  BY Zenon DEF LoadCompletes
<1>3. socket[h] # Unopened
  BY <1>1, SMT DEF Unopened
<1>4. h < next_handle
  BY <1>3, Used, Zenon
<1>5. HandleSound(Loaded(socket[h], some), remote[h].received, flow[h])
  BY <1>1, HandleIs, LoadedKeeps, Zenon
<1>6. /\ DOMAIN socket' = Handle /\ socket'[h] = Loaded(socket[h], some)
      /\ \A g \in Handle : g # h => socket'[g] = socket[g]
  BY <1>1, HandleIs, At, Zenon
<1>7. n \in Nat
  <2>1. remote[h].read \in Nat
    BY HandleIs, RemoteEndIs, Zenon
  <2> QED  BY <2>1, SMT
<1> HIDE DEF n
<1>8. /\ remote' \in [Handle -> RemoteEnd]
      /\ remote'[h].received = remote[h].received /\ \A g \in Handle : g # h => remote'[g] = remote[g]
  <2> DEFINE x == [remote[h] EXCEPT !.read = n]
  <2>1. remote[h] \in RemoteEnd /\ remote' = [remote EXCEPT ![h] = x]
    BY <1>2, HandleIs, Zenon
  <2>2. DOMAIN remote[h] = {"sent", "read", "early", "received"}
    BY <2>1, RemoteEndIs, Zenon
  <2>3. x.received = remote[h].received
    BY <2>2, SMT
  <2>4. x \in RemoteEnd
    BY <1>7, <2>1, Zenon DEF RemoteEnd
  <2> HIDE DEF x
  <2>5. remote' \in [Handle -> RemoteEnd] /\ remote'[h] = x /\ \A g \in Handle : g # h => remote'[g] = remote[g]
    BY <2>1, <2>4, HandleIs, RemoteAt, Zenon
  <2> QED  BY <2>3, <2>5, Zenon
<1>9. next_handle' = next_handle /\ tcp_by_key' = tcp_by_key /\ flow' = flow
  BY <1>2, Zenon
<1>10. HandleSound(socket'[h], remote'[h].received, flow[h])
  BY <1>5, <1>6, <1>8, Zenon
<1> QED  BY <1>4, <1>6, <1>8, <1>9, <1>10, SameFlows, Zenon

\* The continuation of a store keeps the invariant.
LEMMA StoreCompletesKeeps ==
  ASSUME IInv, NEW h \in Handle, NEW ok \in BOOLEAN, StoreCompletes(h, ok)
  PROVE  IInv'
<1> DEFINE q == IF ok THEN remote[h].received \o socket[h].storing ELSE remote[h].received
<1>1. socket[h].storing # <<>> /\ socket' = [socket EXCEPT ![h] = Stored(socket[h], ok)]
  BY Zenon DEF StoreCompletes
<1>2. UNCHANGED <<tcp_by_key, flow, next_handle>> /\ remote' = [remote EXCEPT ![h].received = q]
  BY Zenon DEF StoreCompletes
<1>3. socket[h] # Unopened
  BY <1>1, SMT DEF Unopened
<1>4. h < next_handle
  BY <1>3, Used, Zenon
<1>5. HandleSound(Stored(socket[h], ok), q, flow[h])
  BY <1>1, HandleIs, StoredKeeps, Zenon
<1>6. /\ DOMAIN socket' = Handle /\ socket'[h] = Stored(socket[h], ok)
      /\ \A g \in Handle : g # h => socket'[g] = socket[g]
  BY <1>1, HandleIs, At, Zenon
<1>7. q \in Seq(GuestByte)
  BY <1>5, Zenon DEF HandleSound, BytesSound
<1> HIDE DEF q
<1>8. /\ remote' \in [Handle -> RemoteEnd]
      /\ remote'[h].received = q
      /\ \A g \in Handle : g # h => remote'[g] = remote[g]
  <2> DEFINE x == [remote[h] EXCEPT !.received = q]
  <2>1. remote[h] \in RemoteEnd /\ remote' = [remote EXCEPT ![h] = x]
    BY <1>2, HandleIs, Zenon
  <2>2. DOMAIN remote[h] = {"sent", "read", "early", "received"}
    BY <2>1, RemoteEndIs, Zenon
  <2>3. x.received = q
    BY <2>2, SMT
  <2>4. x \in RemoteEnd
    BY <1>7, <2>1, Zenon DEF RemoteEnd
  <2> HIDE DEF x
  <2>5. remote' \in [Handle -> RemoteEnd] /\ remote'[h] = x /\ \A g \in Handle : g # h => remote'[g] = remote[g]
    BY <2>1, <2>4, HandleIs, RemoteAt, Zenon
  <2> QED  BY <2>3, <2>5, Zenon
<1>9. HandleSound(socket'[h], remote'[h].received, flow[h])
  BY <1>2, <1>5, <1>6, <1>8, Zenon
<1>10. next_handle' = next_handle /\ tcp_by_key' = tcp_by_key /\ flow' = flow
  BY <1>2, Zenon
<1> QED  BY <1>4, <1>6, <1>8, <1>9, <1>10, SameFlows, Zenon

\* A byte of the remote host keeps the invariant.
LEMMA RemoteSendsKeeps ==
  ASSUME IInv, NEW h \in Handle, RemoteSends(h)
  PROVE  IInv'
<1>1. UNCHANGED <<tcp_by_key, flow, next_handle, socket>> /\ remote' = [remote EXCEPT ![h].sent = remote[h].sent + 1]
  BY Zenon DEF RemoteSends, nat
<1>2. /\ remote' \in [Handle -> RemoteEnd]
      /\ remote'[h].received = remote[h].received /\ \A g \in Handle : g # h => remote'[g] = remote[g]
  <2> DEFINE x == [remote[h] EXCEPT !.sent = remote[h].sent + 1]
  <2>1. remote[h] \in RemoteEnd /\ remote' = [remote EXCEPT ![h] = x]
    BY <1>1, HandleIs, Zenon
  <2>2. DOMAIN remote[h] = {"sent", "read", "early", "received"} /\ remote[h].sent \in Nat
    BY <2>1, RemoteEndIs, Zenon
  <2>3. x.received = remote[h].received
    BY <2>2, SMT
  <2>4. remote[h].sent + 1 \in Nat
    BY <2>2, SMT
  <2>5. x \in RemoteEnd
    BY <2>1, <2>4, Zenon DEF RemoteEnd
  <2> HIDE DEF x
  <2>6. remote' \in [Handle -> RemoteEnd] /\ remote'[h] = x /\ \A g \in Handle : g # h => remote'[g] = remote[g]
    BY <2>1, <2>5, HandleIs, RemoteAt, Zenon
  <2> QED  BY <2>3, <2>6, Zenon
<1>3. FlowsTyped'
  BY <1>1, <1>2, Zenon DEF IInv, FlowsTyped, Handle
<1>4. HandlesSound'
  BY <1>1, <1>2, Zenon DEF IInv, HandlesSound
<1>5. h < next_handle
  <2>1. socket[h].connected
    BY Zenon DEF RemoteSends
  <2>2. socket[h] # Unopened
    BY <2>1, SMT DEF Unopened
  <2> QED  BY <2>2, Used, Zenon
<1>6. UnusedSound'
  <2>1. ASSUME NEW g \in Handle, g >= next_handle' PROVE g # h /\ g >= next_handle
    BY <1>1, <1>5, <2>1, SMT DEF IInv, FlowsTyped, Handle
  <2> QED  BY <1>1, <1>2, <2>1, Zenon DEF IInv, UnusedSound
<1>7. KeysMatchFlows'
  BY <1>1, <1>2, Zenon DEF IInv, KeysMatchFlows
<1> QED  BY <1>3, <1>4, <1>6, <1>7, Zenon DEF IInv

\* The callback of connect has run.
LEMMA CalledKeeps ==
  ASSUME NEW s, NEW r, NEW f, HandleSound(s, r, f)
  PROVE  HandleSound([s EXCEPT !.connecting = "none"], r, f)
<1> USE DEF HandleSound
<1> DEFINE t == [s EXCEPT !.connecting = "none"]
<1>1. s \in SocketType(GuestByte)
  BY Zenon DEF SocketSound
<1>2. DOMAIN s = SocketFields
  BY <1>1, SocketFieldsAre, Zenon
<1>3. t \in SocketType(GuestByte)
  <2>1. "none" \in {"none", "pending", "calling"}
    BY SMT
  <2> QED  BY <1>1, <2>1, Zenon DEF SocketType
<1>4. t.open = s.open /\ t.writing = s.writing /\ t.write_queue = s.write_queue /\ t.storing = s.storing
  BY ONLY <1>2, SMT DEF SocketFields
<1>5. t.connected = s.connected /\ t.closed = s.closed /\ t.reading = s.reading /\ t.connecting = "none"
  BY ONLY <1>2, SMT DEF SocketFields
<1>6. t.connecting \notin {"pending", "calling"}
  BY <1>5, SMT
<1> HIDE DEF t
<1>7. SocketSound(t)
  BY <1>3, <1>4, <1>5, <1>6, SMT DEF SocketSound
<1>8. BytesSound(t, r)
  BY <1>4, <1>5, Zenon DEF BytesSound
<1>9. FlowSound(t, r, f)
  BY <1>4, <1>5, Zenon DEF FlowSound, Queued
<1> QED  BY <1>7, <1>8, <1>9, Zenon DEF t

\* The callback of a load has run.
LEMMA ReadKeeps ==
  ASSUME NEW s, NEW r, NEW f, HandleSound(s, r, f), s.reading # "none", NEW x \in {"loading", "none"}
  PROVE  HandleSound([s EXCEPT !.reading = x], r, f)
<1> USE DEF HandleSound
<1> DEFINE t == [s EXCEPT !.reading = x]
<1>1. s \in SocketType(GuestByte)
  BY Zenon DEF SocketSound
<1>2. DOMAIN s = SocketFields
  BY <1>1, SocketFieldsAre, Zenon
<1>3. t \in SocketType(GuestByte)
  <2>1. x \in {"none", "loading", "data", "end"}
    BY SMT
  <2> QED  BY <1>1, <2>1, Zenon DEF SocketType
<1>4. t.open = s.open /\ t.writing = s.writing /\ t.write_queue = s.write_queue /\ t.storing = s.storing
  BY ONLY <1>2, SMT DEF SocketFields
<1>5. t.connected = s.connected /\ t.closed = s.closed /\ t.reading = x /\ t.connecting = s.connecting
  BY ONLY <1>2, SMT DEF SocketFields
<1>6. x # "end"
  BY SMT
<1> HIDE DEF t
<1>7. SocketSound(t)
  BY <1>3, <1>4, <1>5, <1>6, Zenon DEF SocketSound
<1>8. BytesSound(t, r)
  BY <1>4, <1>5, Zenon DEF BytesSound
<1>9. FlowSound(t, r, f)
  BY <1>4, <1>5, Zenon DEF FlowSound, Queued
<1> QED  BY <1>7, <1>8, <1>9, Zenon DEF t

\* The flow of a closed socket may go.
LEMMA EndKeeps ==
  ASSUME NEW s, NEW r, NEW f, HandleSound(s, r, f), s.closed
  PROVE  HandleSound(s, r, NoFlow)
<1>1. FlowShape(NoFlow) /\ ~NoFlow.established
  BY SMT DEF FlowShape, NoFlow
<1> QED  BY <1>1, Zenon DEF HandleSound, FlowSound

\* What OnTcpConnect makes of a flow.
OpenedFlow(f, seg) == Sending([f EXCEPT !.established = TRUE], seg)

\* The flow that OnTcpConnect establishes.
LEMMA OpenedFlowIs ==
  ASSUME NEW f, FlowShape(f), f # NoFlow, NEW seg
  PROVE  LET g == OpenedFlow(f, seg)
         IN  FlowShape(g) /\ g # NoFlow /\ g.key = f.key /\ g.guest_next_seq = f.guest_next_seq
<1> DEFINE e == [f EXCEPT !.established = TRUE]
           g == OpenedFlow(f, seg)
<1>1. DOMAIN f = FlowFields
  BY FlowFieldsAre, Zenon
<1>2. DOMAIN e = FlowFields /\ e.key = f.key /\ e.guest_next_seq = f.guest_next_seq /\ e.established
  BY ONLY <1>1, SMT DEF FlowFields
<1>3. g = Sending(e, seg)
  BY Zenon DEF OpenedFlow
<1> HIDE DEF e, g
<1>4. e # NoFlow
  BY <1>2, NoFlowIs, Zenon
<1>5. FlowShape(e)
  BY <1>2, FlowFieldsAre, Zenon DEF FlowShape
<1>6. LikeFlow(g, e)
  BY <1>3, <1>4, <1>5, SendingIsLike, Zenon
<1>7. FlowShape(g) /\ g # NoFlow /\ g.key = f.key /\ g.guest_next_seq = f.guest_next_seq
  BY <1>2, <1>4, <1>6, Zenon DEF LikeFlow
<1> QED  BY <1>7, Zenon DEF g

\* Any flow with the same sequence number is sound once the socket is connected.
LEMMA EstablishedKeeps ==
  ASSUME NEW s, NEW r, NEW f, HandleSound(s, r, f), f # NoFlow, s.connected,
         NEW g, FlowShape(g), g # NoFlow, g.guest_next_seq = f.guest_next_seq
  PROVE  HandleSound(s, r, g)
  BY Zenon DEF HandleSound, FlowSound

\* OnTcpConnect keeps the invariant.
LEMMA OnTcpConnectKeeps ==
  ASSUME IInv, NEW h \in Handle, OnTcpConnect(h)
  PROVE  IInv'
<1> DEFINE s == [socket[h] EXCEPT !.connecting = "none"]
<1>1. socket[h].connecting = "calling" /\ socket' = [socket EXCEPT ![h] = s] /\ UNCHANGED <<next_handle, remote>>
  BY Zenon DEF OnTcpConnect
<1>2. h < next_handle
  <2>1. socket[h] # Unopened
    BY <1>1, SMT DEF Unopened
  <2> QED  BY <2>1, Used, Zenon
<1>3. HandleSound(s, remote[h].received, flow[h])
  BY HandleIs, CalledKeeps, Zenon
<1>4. s.connected = socket[h].connected /\ s.closed = socket[h].closed
  <2>1. DOMAIN socket[h] = SocketFields
    BY HandleIs, SocketFieldsAre, Zenon DEF HandleSound, SocketSound
  <2> QED  BY ONLY <2>1, SMT DEF SocketFields
<1> HIDE DEF s
<1>5. DOMAIN socket' = Handle /\ socket'[h] = s /\ \A g \in Handle : g # h => socket'[g] = socket[g]
  BY <1>1, HandleIs, At, Zenon
<1>6. CASE flow[h] = NoFlow /\ UNCHANGED <<tcp_by_key, flow>>
  BY <1>1, <1>2, <1>3, <1>5, <1>6, HandleIs, OneHandle, Zenon
<1>7. CASE flow[h] # NoFlow /\ ~socket[h].connected /\ EraseFlow(h)
  <2>1. tcp_by_key' = [tcp_by_key EXCEPT ![flow[h].key] = None] /\ flow' = [flow EXCEPT ![h] = NoFlow]
    BY <1>7, Zenon DEF EraseFlow
  <2>2. DOMAIN flow' = Handle /\ flow'[h] = NoFlow /\ \A g \in Handle : g # h => flow'[g] = flow[g]
    BY <2>1, HandleIs, At, Zenon
  <2>3. s.closed
    BY <1>1, <1>4, <1>7, HandleIs, Zenon DEF HandleSound, SocketSound
  <2>4. HandleSound(socket'[h], remote'[h].received, flow'[h])
    BY <1>1, <1>3, <1>5, <2>2, <2>3, EndKeeps, Zenon
  <2> QED  BY <1>1, <1>2, <1>5, <1>7, <2>1, <2>2, <2>4, HandleIs, OneHandle, Zenon
<1>8. CASE /\ flow[h] # NoFlow /\ socket[h].connected /\ UNCHANGED tcp_by_key
           /\ flow' = [flow EXCEPT ![h] =
                 Sending([flow[h] EXCEPT !.established = TRUE], SegmentOf(h, "synack", None))]
  <2> DEFINE new == OpenedFlow(flow[h], SegmentOf(h, "synack", None))
  <2>1. flow' = [flow EXCEPT ![h] = new]
    BY <1>8, Zenon DEF OpenedFlow
  <2>2. HandleSound(s, remote[h].received, new) /\ new # NoFlow /\ new.key = flow[h].key
    <3>1. FlowShape(new) /\ new # NoFlow /\ new.key = flow[h].key /\ new.guest_next_seq = flow[h].guest_next_seq
      BY <1>8, HandleIs, OpenedFlowIs, Zenon
    <3> HIDE DEF new
    <3>2. s.connected
      BY <1>4, <1>8, Zenon
    <3> QED  BY <1>3, <1>8, <3>1, <3>2, EstablishedKeeps, Zenon
  <2> HIDE DEF new
  <2>3. DOMAIN flow' = Handle /\ flow'[h] = new /\ \A g \in Handle : g # h => flow'[g] = flow[g]
    BY <2>1, HandleIs, At, Zenon
  <2>4. HandleSound(socket'[h], remote'[h].received, flow'[h])
    BY <1>1, <1>5, <2>2, <2>3, Zenon
  <2> QED  BY <1>1, <1>2, <1>5, <1>8, <2>2, <2>3, <2>4, HandleIs, OneHandle, Zenon
<1> QED  BY <1>6, <1>7, <1>8, Zenon DEF OnTcpConnect

\* The remote end when a byte that came too early is dropped.
LEMMA EarlyIs ==
  ASSUME NEW h \in Handle, remote[h] \in RemoteEnd, DroppedEarly(h)
  PROVE  \E x \in RemoteEnd :
           /\ remote' = [remote EXCEPT ![h] = x]
           /\ x.sent = remote[h].sent /\ x.read = remote[h].read /\ x.received = remote[h].received
           /\ x.early = IF flow[h] # NoFlow THEN remote[h].early + 1 ELSE remote[h].early
<1> DEFINE n == IF flow[h] # NoFlow THEN remote[h].early + 1 ELSE remote[h].early
           x == [remote[h] EXCEPT !.early = n]
<1>1. remote' = [remote EXCEPT ![h] = x]
  BY Zenon DEF DroppedEarly
<1>2. n \in Nat /\ DOMAIN remote[h] = {"sent", "read", "early", "received"}
  <2>1. remote[h].early \in Nat /\ DOMAIN remote[h] = {"sent", "read", "early", "received"}
    BY RemoteEndIs, Zenon
  <2> QED  BY <2>1, SMT
<1>3. x \in RemoteEnd
  <2> HIDE DEF n
  <2> QED  BY <1>2, Zenon DEF RemoteEnd
<1>4. x.sent = remote[h].sent /\ x.read = remote[h].read /\ x.received = remote[h].received /\ x.early = n
  <2> HIDE DEF n
  <2> QED  BY <1>2, SMT
<1> HIDE DEF x
<1> QED  BY <1>1, <1>3, <1>4, Zenon

\* OnTcpData keeps the invariant.
LEMMA OnTcpDataKeeps ==
  ASSUME IInv, NEW h \in Handle, OnTcpData(h)
  PROVE  IInv'
<1> DEFINE s == [socket[h] EXCEPT !.reading = "loading"]
           f == IF flow[h].established THEN Sending(flow[h], SegmentOf(h, "data", remote[h].read)) ELSE flow[h]
<1>1. /\ socket[h].reading = "data" /\ socket' = [socket EXCEPT ![h] = s]
      /\ UNCHANGED <<tcp_by_key, next_handle>>
  BY Zenon DEF OnTcpData
<1>2. h < next_handle
  <2>1. socket[h] # Unopened
    BY <1>1, SMT DEF Unopened
  <2> QED  BY <2>1, Used, Zenon
<1>3. HandleSound(s, remote[h].received, flow[h])
  <2>1. socket[h].reading # "none" /\ "loading" \in {"loading", "none"}
    BY <1>1, SMT
  <2> QED  BY <2>1, HandleIs, ReadKeeps, Zenon
<1> HIDE DEF s
<1>4. DOMAIN socket' = Handle /\ socket'[h] = s /\ \A g \in Handle : g # h => socket'[g] = socket[g]
  BY <1>1, HandleIs, At, Zenon
<1>5. DOMAIN flow' = Handle /\ flow'[h] = f /\ \A g \in Handle : g # h => flow'[g] = flow[g]
  <2>1. CASE flow[h].established
    <3>1. flow' = [flow EXCEPT ![h] = f]
      BY <2>1, Zenon DEF OnTcpData
    <3> HIDE DEF f
    <3> QED  BY <3>1, HandleIs, At, Zenon
  <2>2. CASE ~flow[h].established
    BY <2>2, HandleIs, Zenon DEF OnTcpData
  <2> QED  BY <2>1, <2>2
<1>6. LikeFlow(f, flow[h])
  <2>1. CASE flow[h].established
    <3>1. flow[h] # NoFlow
      BY <2>1, SMT DEF NoFlow
    <3> QED  BY <2>1, <3>1, HandleIs, SendingIsLike, Zenon
  <2>2. CASE ~flow[h].established
    BY <2>2, HandleIs, Zenon DEF LikeFlow
  <2> QED  BY <2>1, <2>2
<1> HIDE DEF f
<1>9. /\ remote' \in [Handle -> RemoteEnd] /\ remote'[h].received = remote[h].received
      /\ \A g \in Handle : g # h => remote'[g] = remote[g]
  <2>1. CASE remote' = remote
    BY <2>1, HandleIs, Zenon
  <2>2. CASE DroppedEarly(h)
    <3>1. remote[h] \in RemoteEnd /\ remote \in [Handle -> RemoteEnd]
      BY HandleIs, Zenon
    <3>2. PICK x \in RemoteEnd : remote' = [remote EXCEPT ![h] = x] /\ x.received = remote[h].received
      BY <2>2, <3>1, EarlyIs, Zenon
    <3> QED  BY <3>1, <3>2, RemoteAt, Zenon
  <2> QED  BY <2>1, <2>2, Zenon DEF OnTcpData
<1>7. HandleSound(socket'[h], remote'[h].received, flow'[h])
  BY <1>3, <1>4, <1>5, <1>6, <1>9, LikeKeeps, Zenon
<1>8. (flow'[h] = NoFlow <=> flow[h] = NoFlow) /\ (flow[h] # NoFlow => flow'[h].key = flow[h].key)
  BY <1>5, <1>6, Zenon DEF LikeFlow
<1> QED  BY <1>1, <1>2, <1>4, <1>5, <1>7, <1>8, <1>9, OneHandle, Zenon

\* OnTcpClosed keeps the invariant.
LEMMA OnTcpClosedKeeps ==
  ASSUME IInv, NEW h \in Handle, OnTcpClosed(h)
  PROVE  IInv'
<1> DEFINE s == [socket[h] EXCEPT !.reading = "none"]
<1>1. socket[h].reading = "end" /\ socket' = [socket EXCEPT ![h] = s] /\ UNCHANGED <<next_handle, remote>>
  BY Zenon DEF OnTcpClosed
<1>2. h < next_handle
  <2>1. socket[h] # Unopened
    BY <1>1, SMT DEF Unopened
  <2> QED  BY <2>1, Used, Zenon
<1>3. HandleSound(s, remote[h].received, flow[h])
  <2>1. socket[h].reading # "none" /\ "none" \in {"loading", "none"}
    BY <1>1, SMT
  <2> QED  BY <2>1, HandleIs, ReadKeeps, Zenon
<1>4. s.closed
  <2>1. DOMAIN socket[h] = SocketFields /\ socket[h].closed
    BY <1>1, HandleIs, SocketFieldsAre, Zenon DEF HandleSound, SocketSound
  <2> QED  BY <2>1, SMT DEF SocketFields
<1> HIDE DEF s
<1>5. DOMAIN socket' = Handle /\ socket'[h] = s /\ \A g \in Handle : g # h => socket'[g] = socket[g]
  BY <1>1, HandleIs, At, Zenon
<1>6. CASE flow[h] = NoFlow
  <2>1. UNCHANGED <<tcp_by_key, flow>>
    BY <1>6, Zenon DEF OnTcpClosed
  <2> QED  BY <1>1, <1>2, <1>3, <1>5, <2>1, HandleIs, OneHandle, Zenon
<1>7. CASE flow[h] # NoFlow
  <2>1. tcp_by_key' = [tcp_by_key EXCEPT ![flow[h].key] = None] /\ flow' = [flow EXCEPT ![h] = NoFlow]
    BY <1>7, Zenon DEF OnTcpClosed, EraseFlow
  <2>2. DOMAIN flow' = Handle /\ flow'[h] = NoFlow /\ \A g \in Handle : g # h => flow'[g] = flow[g]
    BY <2>1, HandleIs, At, Zenon
  <2>3. HandleSound(socket'[h], remote'[h].received, flow'[h])
    BY <1>1, <1>3, <1>4, <1>5, <2>2, EndKeeps, Zenon
  <2> QED  BY <1>1, <1>2, <1>5, <1>7, <2>1, <2>2, <2>3, HandleIs, OneHandle, Zenon
<1> QED  BY <1>6, <1>7
\* What the two halves of the timer handler do, their frames left out.
Ages ==
  /\ flow' = [h \in Handle |->
       IF flow[h] = NoFlow THEN NoFlow
       ELSE [flow[h] EXCEPT !.unacked = [i \in DOMAIN @ |-> Older(@[i])]]]
  /\ UNCHANGED <<tcp_by_key, socket, next_handle, remote>>

GivesUp ==
  LET Alive == {h \in Handle : flow[h] # NoFlow}
      Dropped == {h \in Alive : Exhausted(flow[h]) # {}}
  IN  /\ flow' = [h \in Handle |-> IF h \in Alive \ Dropped THEN AfterResend(flow[h]) ELSE NoFlow]
      /\ tcp_by_key' = [k \in Keys |-> IF tcp_by_key[k] \in Dropped THEN None ELSE tcp_by_key[k]]
      /\ socket' = [h \in Handle |-> IF h \in Dropped THEN Closed(socket[h]) ELSE socket[h]]
      /\ UNCHANGED <<next_handle, remote>>

\* The first half of the timer handler keeps the invariant.
LEMMA AgesKeeps ==
  ASSUME IInv, Ages
  PROVE  IInv'
<1>1. UNCHANGED <<tcp_by_key, socket, next_handle, remote>>
  BY Zenon DEF Ages
<1>2. DOMAIN flow' = Handle
  BY Zenon DEF Ages
<1>3. ASSUME NEW h \in Handle
      PROVE  IF flow[h] = NoFlow THEN flow'[h] = NoFlow ELSE \E u : flow'[h] = [flow[h] EXCEPT !.unacked = u]
  BY Zenon DEF Ages
<1>4. ASSUME NEW h \in Handle PROVE LikeFlow(flow'[h], flow[h])
  <2>1. CASE flow[h] = NoFlow
    BY <1>3, <2>1, HandleIs, Zenon DEF LikeFlow
  <2>2. CASE flow[h] # NoFlow
    <3>1. PICK u : flow'[h] = [flow[h] EXCEPT !.unacked = u]
      BY <1>3, <2>2, Zenon
    <3>2. FlowShape(flow[h])
      BY HandleIs, Zenon
    <3> QED  BY ONLY <2>2, <3>1, <3>2, RecountedIsLike, Zenon
  <2> QED  BY <2>1, <2>2
<1>5. HandlesSound'
  BY <1>1, <1>4, HandleIs, LikeKeeps, Zenon DEF HandlesSound, Handle
<1>6. FlowsTyped'
  BY <1>1, <1>2, Zenon DEF IInv, FlowsTyped, Handle, RemoteEnd
<1>7. KeysMatchFlows'
  <2>1. ASSUME NEW k \in Keys, NEW h \in Handle
        PROVE  tcp_by_key'[k] = h <=> flow'[h] # NoFlow /\ flow'[h].key = k
    <3>1. tcp_by_key[k] = h <=> flow[h] # NoFlow /\ flow[h].key = k
      BY Zenon DEF IInv, KeysMatchFlows
    <3>2. (flow'[h] # NoFlow <=> flow[h] # NoFlow) /\ (flow[h] # NoFlow => flow'[h].key = flow[h].key)
      BY <1>4, Zenon DEF LikeFlow
    <3> QED  BY <1>1, <3>1, <3>2, Zenon
  <2> QED  BY <2>1, Zenon DEF KeysMatchFlows, Handle
<1>8. UnusedSound'
  BY <1>1, <1>4, Zenon DEF IInv, UnusedSound, LikeFlow, Handle
<1> QED  BY <1>5, <1>6, <1>7, <1>8, Zenon DEF IInv

\* The second half, which gives up the flows that were sent too often, keeps it:
\* keys, flows and sockets go together.
LEMMA GivesUpKeeps ==
  ASSUME IInv, GivesUp
  PROVE  IInv'
<1> DEFINE Alive == {h \in Handle : flow[h] # NoFlow}
           Dropped == {h \in Alive : Exhausted(flow[h]) # {}}
<1>1. UNCHANGED <<next_handle, remote>>
  BY Zenon DEF GivesUp
<1>2. flow' = [h \in Handle |-> IF h \in Alive \ Dropped THEN AfterResend(flow[h]) ELSE NoFlow]
  BY Zenon DEF GivesUp
<1>3. tcp_by_key' = [k \in Keys |-> IF tcp_by_key[k] \in Dropped THEN None ELSE tcp_by_key[k]]
  BY Zenon DEF GivesUp
<1>4. socket' = [h \in Handle |-> IF h \in Dropped THEN Closed(socket[h]) ELSE socket[h]]
  BY Zenon DEF GivesUp
<1>5. Dropped \subseteq Alive /\ \A h \in Handle : h \in Alive <=> flow[h] # NoFlow
  BY Zenon
<1> HIDE DEF Alive, Dropped
<1>6. ASSUME NEW h \in Handle, h \notin Dropped PROVE LikeFlow(flow'[h], flow[h]) /\ socket'[h] = socket[h]
  <2>1. CASE h \notin Alive
    BY <1>2, <1>4, <1>5, <1>6, <2>1, HandleIs, Zenon DEF LikeFlow
  <2>2. CASE h \in Alive
    <3>1. flow'[h] = AfterResend(flow[h]) /\ flow[h] # NoFlow /\ socket'[h] = socket[h]
      BY <1>2, <1>4, <1>5, <1>6, <2>2, Zenon
    <3>2. LikeFlow(AfterResend(flow[h]), flow[h])
      BY <3>1, HandleIs, ResentIsLike, Zenon
    <3> QED  BY <3>1, <3>2, Zenon
  <2> QED  BY <2>1, <2>2
<1>7. ASSUME NEW h \in Handle, h \in Dropped
      PROVE  flow'[h] = NoFlow /\ socket'[h] = Closed(socket[h]) /\ flow[h] # NoFlow
  BY <1>2, <1>4, <1>5, <1>7, Zenon
<1>8. HandlesSound'
  <2>1. ASSUME NEW h \in Handle PROVE HandleSound(socket'[h], remote'[h].received, flow'[h])
    <3>1. CASE h \in Dropped
      BY <1>1, <1>7, <3>1, HandleIs, ClosedKeeps, Zenon
    <3>2. CASE h \notin Dropped
      BY <1>1, <1>6, <3>2, HandleIs, LikeKeeps, Zenon
    <3> QED  BY <3>1, <3>2
  <2> QED  BY <2>1, Zenon DEF HandlesSound, Handle
<1>9. FlowsTyped'
  <2>1. DOMAIN flow' = Handle /\ DOMAIN socket' = Handle
    BY <1>2, <1>4, Zenon
  <2>2. tcp_by_key' \in [Keys -> {None} \cup Handle]
    BY <1>3, Zenon DEF IInv, FlowsTyped
  <2> QED  BY <1>1, <2>1, <2>2, Zenon DEF IInv, FlowsTyped, Handle, RemoteEnd
<1>10. KeysMatchFlows'
  <2>1. ASSUME NEW k \in Keys, NEW h \in Handle
        PROVE  tcp_by_key'[k] = h <=> flow'[h] # NoFlow /\ flow'[h].key = k
    <3>1. tcp_by_key[k] = h <=> flow[h] # NoFlow /\ flow[h].key = k
      BY Zenon DEF IInv, KeysMatchFlows
    <3>2. None \notin Handle
      BY SMT DEF None, Handle
    <3>3. tcp_by_key'[k] = IF tcp_by_key[k] \in Dropped THEN None ELSE tcp_by_key[k]
      BY <1>3, Zenon
    <3>4. CASE h \in Dropped
      <4>1. tcp_by_key'[k] # h
        BY <3>2, <3>3, <3>4, Zenon
      <4> QED  BY <1>7, <3>4, <4>1, Zenon
    <3>5. CASE h \notin Dropped
      <4>1. (flow'[h] # NoFlow <=> flow[h] # NoFlow) /\ (flow[h] # NoFlow => flow'[h].key = flow[h].key)
        BY <1>6, <3>5, Zenon DEF LikeFlow
      <4>2. tcp_by_key'[k] = h <=> tcp_by_key[k] = h
        BY <3>2, <3>3, <3>5, Zenon
      <4> QED  BY <3>1, <4>1, <4>2, Zenon
    <3> QED  BY <3>4, <3>5
  <2> QED  BY <2>1, Zenon DEF KeysMatchFlows, Handle
<1>11. UnusedSound'
  <2>1. ASSUME NEW h \in Handle, h >= next_handle'
        PROVE  flow'[h] = NoFlow /\ socket'[h] = Unopened /\ remote'[h] = Unread
    <3>1. flow[h] = NoFlow /\ socket[h] = Unopened /\ remote[h] = Unread
      BY <1>1, <2>1, Zenon DEF IInv, UnusedSound
    <3>2. h \notin Dropped
      BY <1>7, <3>1, Zenon
    <3> QED  BY <1>1, <1>6, <3>1, <3>2, Zenon DEF LikeFlow
  <2> QED  BY <2>1, Zenon DEF UnusedSound, Handle
<1> QED  BY <1>8, <1>9, <1>10, <1>11, Zenon DEF IInv
\* The bytes of the guest's segments are named by their sequence numbers.
SegmentSound(seg) == seg.byte # None => seg.byte = seg.seq /\ seg.byte \in GuestByte

\* handle_tcp that opens a flow keeps the invariant.
LEMMA OpenFlowKeeps ==
  ASSUME IInv, ConstantsOK, NEW k \in Keys, NEW seg, OpenFlow(k, seg), UNCHANGED remote
  PROVE  IInv'
<1>1. CASE ~seg.syn
  <2>1. UNCHANGED <<tcp_by_key, flow, socket, next_handle, remote>>
    BY <1>1, Zenon DEF OpenFlow, nat
  <2> QED  BY <2>1, UnchangedKeeps, Zenon
<1>2. CASE seg.syn
  <2> DEFINE h == next_handle
             f == [key |-> k, isn |-> seg.isn, guest_next_seq |-> 1, our_next_seq |-> 0,
                   established |-> FALSE, unacked |-> <<>>]
  <2>1. h \in Handle /\ h + 1 \in 1 .. MaxHandle + 1 /\ h' = h + 1
    BY <1>2, SMT DEF OpenFlow, IInv, FlowsTyped, Handle, ConstantsOK
  <2>2. tcp_by_key[k] = None /\ tcp_by_key' = [tcp_by_key EXCEPT ![k] = h]
    BY <1>2, Zenon DEF OpenFlow
  <2>3. flow' = [flow EXCEPT ![h] = f] /\ socket' = [socket EXCEPT ![h] = Opened]
    BY <1>2, Zenon DEF OpenFlow
  <2>4. flow[h] = NoFlow /\ remote[h].received = <<>>
    <3>1. h >= next_handle
      BY <2>1, SMT DEF Handle
    <3>2. flow[h] = NoFlow /\ remote[h] = Unread
      BY <2>1, <3>1, Zenon DEF IInv, UnusedSound
    <3> QED  BY <3>2, SMT DEF Unread
  <2>5. DOMAIN f = FlowFields /\ f.key = k /\ f.guest_next_seq = 1 /\ f.established = FALSE
    BY SMT DEF FlowFields
  <2>6. HandleSound(Opened, <<>>, f) /\ f # NoFlow
    <3> HIDE DEF f
    <3>1. FlowShape(f) /\ f # NoFlow
      <4>1. 1 \in Nat \ {0} /\ FALSE \in BOOLEAN
        BY SMT
      <4> QED  BY <2>5, <4>1, NoFlowIs, Zenon DEF FlowShape
    <3>2. SocketSound(Opened)
      <4>1. Unopened \in SocketType(GuestByte)
        <5>1. /\ <<>> \in Seq(GuestByte) /\ FALSE \in BOOLEAN /\ "none" \in {"none", "pending", "calling"}
              /\ "none" \in {"none", "loading", "data", "end"}
          BY SMT
        <5> QED  BY <5>1, SMT DEF SocketType, Unopened
      <4>2. TRUE \in BOOLEAN /\ "pending" \in {"none", "pending", "calling"}
        BY SMT
      <4>3. Opened \in SocketType(GuestByte)
        BY <4>1, <4>2, Zenon DEF SocketType, Opened
      <4>4. /\ Opened.storing = <<>> /\ Opened.reading = "none" /\ ~Opened.connected /\ ~Opened.closed
            /\ Opened.connecting = "pending"
        BY SMT DEF Opened, Unopened
      <4> QED  BY <4>3, <4>4, SMT DEF SocketSound
    <3>3. BytesSound(Opened, <<>>)
      BY SMT DEF BytesSound, Continues, Opened, Unopened
    <3>4. Opened.open /\ Queued(Opened, <<>>) = f.guest_next_seq - 1
      BY <2>5, SMT DEF Queued, Opened, Unopened
    <3>5. FlowSound(Opened, <<>>, f)
      BY <2>5, <3>1, <3>4, Zenon DEF FlowSound
    <3> QED  BY <3>1, <3>2, <3>3, <3>5, Zenon DEF HandleSound
  <2> HIDE DEF f
  <2>7. DOMAIN flow' = Handle /\ flow'[h] = f /\ \A g \in Handle : g # h => flow'[g] = flow[g]
    BY <2>1, <2>3, HandleIs, At, Zenon
  <2>8. DOMAIN socket' = Handle /\ socket'[h] = Opened /\ \A g \in Handle : g # h => socket'[g] = socket[g]
    BY <2>1, <2>3, HandleIs, At, Zenon
  <2>9. /\ tcp_by_key' \in [Keys -> {None} \cup Handle] /\ tcp_by_key'[k] = h
        /\ \A j \in Keys : j # k => tcp_by_key'[j] = tcp_by_key[j]
    BY <2>1, <2>2, Zenon DEF IInv, FlowsTyped
  <2>10. FlowsTyped'
    BY <2>1, <2>7, <2>8, <2>9, Zenon DEF IInv, FlowsTyped, Handle, RemoteEnd
  <2>11. HandlesSound'
    <3>1. ASSUME NEW g \in Handle PROVE HandleSound(socket'[g], remote'[g].received, flow'[g])
      <4>1. CASE g = h
        BY <2>4, <2>6, <2>7, <2>8, <4>1, Zenon
      <4>2. CASE g # h
        BY <2>7, <2>8, <4>2, HandleIs, Zenon
      <4> QED  BY <4>1, <4>2
    <3> QED  BY <3>1, Zenon DEF HandlesSound, Handle
  <2>12. KeysMatchFlows'
    <3>1. ASSUME NEW j \in Keys, NEW g \in Handle
          PROVE  tcp_by_key'[j] = g <=> flow'[g] # NoFlow /\ flow'[g].key = j
      <4>1. tcp_by_key[j] = g <=> flow[g] # NoFlow /\ flow[g].key = j
        BY Zenon DEF IInv, KeysMatchFlows
      <4>2. None # g
        BY SMT DEF None, Handle
      <4>3. tcp_by_key[j] # h
        BY <2>1, <2>4, Zenon DEF IInv, KeysMatchFlows
      <4>4. CASE g = h
        BY <2>5, <2>6, <2>7, <2>9, <4>3, <4>4, Zenon
      <4>5. CASE g # h /\ j = k
        BY <2>2, <2>7, <2>9, <4>1, <4>2, <4>5, Zenon
      <4>6. CASE g # h /\ j # k
        BY <2>7, <2>9, <4>1, <4>6, Zenon
      <4> QED  BY <4>4, <4>5, <4>6
    <3> QED  BY <3>1, Zenon DEF KeysMatchFlows, Handle
  <2>13. UnusedSound'
    <3>1. ASSUME NEW g \in Handle, g >= h' PROVE g # h /\ g >= h
      BY <2>1, <3>1, SMT DEF Handle
    <3> QED  BY <2>7, <2>8, <3>1, Zenon DEF IInv, UnusedSound, Handle
  <2> QED  BY <2>10, <2>11, <2>12, <2>13, Zenon DEF IInv
<1> QED  BY <1>1, <1>2

\* A key that is bound has a flow with that key.
LEMMA BoundIs ==
  ASSUME IInv, NEW k \in Keys, tcp_by_key[k] # None
  PROVE  /\ tcp_by_key[k] \in Handle /\ flow[tcp_by_key[k]] # NoFlow /\ flow[tcp_by_key[k]].key = k
         /\ tcp_by_key[k] < next_handle
<1>1. tcp_by_key[k] \in Handle
  BY Zenon DEF IInv, FlowsTyped
<1>2. flow[tcp_by_key[k]] # NoFlow /\ flow[tcp_by_key[k]].key = k
  BY <1>1, Zenon DEF IInv, KeysMatchFlows
<1> QED  BY <1>1, <1>2, Used, Zenon

\* handle_tcp on a reset keeps the invariant.
LEMMA ResetFlowKeeps ==
  ASSUME IInv, NEW k \in Keys, NEW seg, ResetFlow(k, seg), UNCHANGED remote
  PROVE  IInv'
<1> DEFINE h == tcp_by_key[k]
<1>1. h # None
  BY Zenon DEF ResetFlow
<1>2. h \in Handle /\ flow[h] # NoFlow /\ h < next_handle
  BY <1>1, BoundIs, Zenon
<1>3. tcp_by_key' = [tcp_by_key EXCEPT ![flow[h].key] = None] /\ flow' = [flow EXCEPT ![h] = NoFlow]
  BY Zenon DEF ResetFlow, EraseFlow
<1>4. socket' = [socket EXCEPT ![h] = Closed(socket[h])] /\ next_handle' = next_handle
  BY Zenon DEF ResetFlow
<1> HIDE DEF h
<1>5. DOMAIN flow' = Handle /\ flow'[h] = NoFlow /\ \A g \in Handle : g # h => flow'[g] = flow[g]
  BY <1>2, <1>3, HandleIs, At, Zenon
<1>6. DOMAIN socket' = Handle /\ socket'[h] = Closed(socket[h]) /\ \A g \in Handle : g # h => socket'[g] = socket[g]
  BY <1>2, <1>4, HandleIs, At, Zenon
<1>7. HandleSound(socket'[h], remote'[h].received, flow'[h])
  BY <1>2, <1>5, <1>6, HandleIs, ClosedKeeps, Zenon
<1> QED  BY <1>2, <1>3, <1>4, <1>5, <1>6, <1>7, HandleIs, OneHandle, Zenon

\* What AcceptSegment makes of a flow that goes on.
AcceptedFlow(f, ack, takes) == [Acked(f, ack) EXCEPT !.guest_next_seq = IF takes THEN @ + 1 ELSE @]

\* The flow after a segment that it accepts.
LEMMA AcceptedFlowIs ==
  ASSUME NEW f, FlowShape(f), f # NoFlow, NEW ack, NEW takes \in BOOLEAN
  PROVE  LET g == AcceptedFlow(f, ack, takes)
         IN  /\ FlowShape(g) /\ g # NoFlow /\ g.key = f.key /\ g.established = f.established
             /\ g.guest_next_seq = IF takes THEN f.guest_next_seq + 1 ELSE f.guest_next_seq
<1> DEFINE e == Acked(f, ack)
           n == IF takes THEN e.guest_next_seq + 1 ELSE e.guest_next_seq
           g == AcceptedFlow(f, ack, takes)
<1>1. LikeFlow(e, f) /\ e # NoFlow
  <2>1. LikeFlow(e, f)
    BY RecountedIsLike, Zenon DEF Acked
  <2> QED  BY <2>1, Zenon DEF LikeFlow
<1>2. g = [e EXCEPT !.guest_next_seq = n]
  BY Zenon DEF AcceptedFlow
<1> HIDE DEF e, g
<1>3. e.guest_next_seq = f.guest_next_seq /\ e.key = f.key /\ e.established = f.established
  BY <1>1, Zenon DEF LikeFlow
<1>4. DOMAIN e = FlowFields /\ e.key \in Keys /\ e.guest_next_seq \in Nat \ {0} /\ e.established \in BOOLEAN
  BY <1>1, FlowFieldsAre, Zenon DEF LikeFlow
<1>5. n \in Nat \ {0} /\ n = IF takes THEN f.guest_next_seq + 1 ELSE f.guest_next_seq
  BY <1>3, <1>4, SMT
<1> HIDE DEF n
<1>6. DOMAIN g = FlowFields /\ g.key = e.key /\ g.established = e.established /\ g.guest_next_seq = n
  BY ONLY <1>2, <1>4, SMT DEF FlowFields
<1>7. g # NoFlow /\ FlowShape(g)
  BY <1>4, <1>5, <1>6, NoFlowIs, Zenon DEF FlowShape
<1> QED  BY <1>3, <1>5, <1>6, <1>7, Zenon DEF g

\* handle_tcp on a segment of an established flow keeps the invariant.
LEMMA AcceptSegmentKeeps ==
  ASSUME IInv, NEW k \in Keys, NEW seg, SegmentSound(seg), AcceptSegment(k, seg), UNCHANGED remote
  PROVE  IInv'
<1> DEFINE h == tcp_by_key[k]
           takes == InOrder(flow[h], seg) /\ seg.byte # None
           ends == InOrder(flow[h], seg) /\ seg.fin
           now == IF takes THEN Sent(socket[h], seg.byte) ELSE socket[h]
           goes == AcceptedFlow(flow[h], seg.ack, takes)
<1>1. h # None /\ flow[h].established /\ next_handle' = next_handle
  BY Zenon DEF AcceptSegment
<1>2. h \in Handle /\ flow[h] # NoFlow /\ h < next_handle
  BY <1>1, BoundIs, Zenon
<1>3. ends => /\ tcp_by_key' = [tcp_by_key EXCEPT ![flow[h].key] = None] /\ flow' = [flow EXCEPT ![h] = NoFlow]
              /\ socket' = [socket EXCEPT ![h] = Closed(now)]
  BY Zenon DEF AcceptSegment, EraseFlow
<1>4. ~ends => tcp_by_key' = tcp_by_key /\ flow' = [flow EXCEPT ![h] = goes] /\ socket' = [socket EXCEPT ![h] = now]
  BY Zenon DEF AcceptSegment, AcceptedFlow
<1>5. takes => flow[h].guest_next_seq = seg.byte /\ seg.byte \in GuestByte
  BY Zenon DEF SegmentSound, InOrder
<1>6. /\ FlowShape(goes) /\ goes # NoFlow /\ goes.key = flow[h].key /\ goes.established = flow[h].established
      /\ goes.guest_next_seq = IF takes THEN flow[h].guest_next_seq + 1 ELSE flow[h].guest_next_seq
  <2>1. takes \in BOOLEAN
    BY Zenon
  <2> HIDE DEF takes
  <2> QED  BY <1>2, <2>1, HandleIs, AcceptedFlowIs, Zenon
<1>7. HandleSound(now, remote[h].received, goes)
  <2>1. CASE takes
    <3>1. now = Sent(socket[h], seg.byte)
      BY <2>1, Zenon
    <3>2. goes.guest_next_seq = seg.byte + 1
      BY <1>5, <1>6, <2>1, Zenon
    <3> HIDE DEF now, goes, h
    <3> QED  BY <1>1, <1>2, <1>5, <1>6, <2>1, <3>1, <3>2, HandleIs, SentKeeps, Zenon
  <2>2. CASE ~takes
    <3>1. now = socket[h] /\ LikeFlow(goes, flow[h])
      <4> HIDE DEF goes, h
      <4> QED  BY <1>2, <1>6, <2>2, Zenon DEF LikeFlow
    <3> HIDE DEF now, goes, h
    <3> QED  BY <1>2, <3>1, HandleIs, LikeKeeps, Zenon
  <2> QED  BY <2>1, <2>2
<1> HIDE DEF takes, now, goes, h
<1>8. CASE ends
  <2>1. DOMAIN flow' = Handle /\ flow'[h] = NoFlow /\ \A g \in Handle : g # h => flow'[g] = flow[g]
    BY <1>2, <1>3, <1>8, HandleIs, At, Zenon
  <2>2. DOMAIN socket' = Handle /\ socket'[h] = Closed(now) /\ \A g \in Handle : g # h => socket'[g] = socket[g]
    BY <1>2, <1>3, <1>8, HandleIs, At, Zenon
  <2>3. HandleSound(socket'[h], remote'[h].received, flow'[h])
    BY <1>7, <2>1, <2>2, ClosedKeeps, Zenon
  <2> QED  BY <1>1, <1>2, <1>3, <1>8, <2>1, <2>2, <2>3, HandleIs, OneHandle, Zenon
<1>9. CASE ~ends
  <2>1. DOMAIN flow' = Handle /\ flow'[h] = goes /\ \A g \in Handle : g # h => flow'[g] = flow[g]
    BY <1>2, <1>4, <1>9, HandleIs, At, Zenon
  <2>2. DOMAIN socket' = Handle /\ socket'[h] = now /\ \A g \in Handle : g # h => socket'[g] = socket[g]
    BY <1>2, <1>4, <1>9, HandleIs, At, Zenon
  <2>3. HandleSound(socket'[h], remote'[h].received, flow'[h])
    BY <1>7, <2>1, <2>2, Zenon
  <2>4. (flow'[h] = NoFlow <=> flow[h] = NoFlow) /\ flow'[h].key = flow[h].key /\ tcp_by_key' = tcp_by_key
    BY <1>2, <1>4, <1>6, <1>9, <2>1, Zenon
  <2> QED  BY <1>1, <1>2, <2>1, <2>2, <2>3, <2>4, HandleIs, OneHandle, Zenon
<1> QED  BY <1>8, <1>9

\* handle_tcp keeps the invariant.
LEMMA HandleTcpKeeps ==
  ASSUME IInv, ConstantsOK, NEW k \in Keys, NEW seg, SegmentSound(seg), handle_tcp(k, seg)
  PROVE  IInv'
<1>1. UNCHANGED remote
  BY Zenon DEF handle_tcp
<1>2. CASE OpenFlow(k, seg)
  BY <1>1, <1>2, OpenFlowKeeps, Zenon
<1>3. CASE ResetFlow(k, seg)
  BY <1>1, <1>3, ResetFlowKeeps, Zenon
<1>4. CASE IgnoreSegment(k, seg)
  BY <1>1, <1>4, UnchangedKeeps, Zenon DEF IgnoreSegment, nat
<1>5. CASE AcceptSegment(k, seg)
  BY <1>1, <1>5, AcceptSegmentKeeps, Zenon
<1> QED  BY <1>2, <1>3, <1>4, <1>5, Zenon DEF handle_tcp

\* The guest's segments keep the invariant.
LEMMA GuestKeeps ==
  ASSUME IInv, ConstantsOK, NEW k \in Keys,
         \/ GuestConnects(k) \/ GuestRetriesSyn(k)
         \/ \E b \in GuestByte : GuestSends(k, b)
         \/ GuestAcks(k) \/ GuestFinishes(k) \/ GuestResets(k)
  PROVE  IInv'
<1>1. CASE GuestConnects(k)
  <2> DEFINE seg == [Plain(k) EXCEPT !.syn = TRUE, !.isn = @ + 1]
  <2>1. SegmentSound(seg)
    BY SMT DEF SegmentSound, Plain
  <2>2. handle_tcp(k, seg)
    BY <1>1, Zenon DEF GuestConnects
  <2> HIDE DEF seg
  <2> QED  BY <2>1, <2>2, HandleTcpKeeps, Zenon
<1>2. CASE GuestRetriesSyn(k)
  <2> DEFINE seg == [Plain(k) EXCEPT !.syn = TRUE]
  <2>1. SegmentSound(seg)
    BY SMT DEF SegmentSound, Plain
  <2>2. handle_tcp(k, seg)
    BY <1>2, Zenon DEF GuestRetriesSyn
  <2> HIDE DEF seg
  <2> QED  BY <2>1, <2>2, HandleTcpKeeps, Zenon
<1>3. ASSUME NEW b \in GuestByte, GuestSends(k, b) PROVE IInv'
  <2> DEFINE seg == [Plain(k) EXCEPT !.seq = b, !.byte = b]
  <2>1. SegmentSound(seg)
    BY SMT DEF SegmentSound, Plain
  <2>2. handle_tcp(k, seg)
    BY <1>3, Zenon DEF GuestSends
  <2> HIDE DEF seg
  <2> QED  BY <2>1, <2>2, HandleTcpKeeps, Zenon
<1>4. CASE GuestAcks(k)
  <2>1. SegmentSound(Plain(k))
    BY SMT DEF SegmentSound, Plain
  <2>2. handle_tcp(k, Plain(k))
    BY <1>4, Zenon DEF GuestAcks
  <2> QED  BY <2>1, <2>2, HandleTcpKeeps, Zenon
<1>5. CASE GuestFinishes(k)
  <2> DEFINE seg == [Plain(k) EXCEPT !.seq = guest[k].sent + 1, !.fin = TRUE]
  <2>1. SegmentSound(seg)
    BY SMT DEF SegmentSound, Plain
  <2>2. handle_tcp(k, seg)
    BY <1>5, Zenon DEF GuestFinishes
  <2> HIDE DEF seg
  <2> QED  BY <2>1, <2>2, HandleTcpKeeps, Zenon
<1>6. CASE GuestResets(k)
  <2> DEFINE seg == [Plain(k) EXCEPT !.rst = TRUE]
  <2>1. SegmentSound(seg)
    BY SMT DEF SegmentSound, Plain
  <2>2. handle_tcp(k, seg)
    BY <1>6, Zenon DEF GuestResets
  <2> HIDE DEF seg
  <2> QED  BY <2>1, <2>2, HandleTcpKeeps, Zenon
<1> QED  BY <1>1, <1>2, <1>3, <1>4, <1>5, <1>6, Zenon

\* The steps, without the frames of the timer handler.
Steps ==
  \/ Ages
  \/ GivesUp
  \/ \E h \in Handle :
       \/ \E ok \in BOOLEAN : ConnectCompletes(h, ok) \/ StoreCompletes(h, ok)
       \/ \E some \in BOOLEAN : LoadCompletes(h, some)
       \/ OnTcpConnect(h) \/ OnTcpData(h) \/ OnTcpClosed(h)
       \/ RemoteSends(h)
  \/ \E k \in Keys :
       \/ GuestConnects(k) \/ GuestRetriesSyn(k)
       \/ \E b \in GuestByte : GuestSends(k, b)
       \/ GuestAcks(k) \/ GuestFinishes(k) \/ GuestResets(k)

\* Every step keeps the invariant.
LEMMA StepsKeep ==
  ASSUME IInv, ConstantsOK, Steps
  PROVE  IInv'
<1>1. CASE Ages
  BY <1>1, AgesKeeps, Zenon
<1>2. CASE GivesUp
  BY <1>2, GivesUpKeeps, Zenon
<1>3. ASSUME NEW h \in Handle, NEW ok \in BOOLEAN, ConnectCompletes(h, ok) \/ StoreCompletes(h, ok) PROVE IInv'
  BY <1>3, ConnectCompletesKeeps, StoreCompletesKeeps, Zenon
<1>4. ASSUME NEW h \in Handle, NEW some \in BOOLEAN, LoadCompletes(h, some) PROVE IInv'
  BY <1>4, LoadCompletesKeeps, Zenon
<1>5. ASSUME NEW h \in Handle, OnTcpConnect(h) \/ OnTcpData(h) \/ OnTcpClosed(h) \/ RemoteSends(h) PROVE IInv'
  BY <1>5, OnTcpConnectKeeps, OnTcpDataKeeps, OnTcpClosedKeeps, RemoteSendsKeeps, Zenon
<1>6. ASSUME NEW k \in Keys, \/ GuestConnects(k) \/ GuestRetriesSyn(k)
                             \/ \E b \in GuestByte : GuestSends(k, b)
                             \/ GuestAcks(k) \/ GuestFinishes(k) \/ GuestResets(k)
      PROVE  IInv'
  BY <1>6, GuestKeeps, Zenon
<1> QED  BY <1>1, <1>2, <1>3, <1>4, <1>5, <1>6, Zenon DEF Steps

\* Next takes no other steps.
LEMMA NextSteps ==
  ASSUME Next
  PROVE  Steps
<1>1. DrainQueue => Ages
  BY Zenon DEF DrainQueue, Ages
<1>2. CheckRetransmits => GivesUp
  BY Zenon DEF CheckRetransmits, GivesUp
<1> QED  BY <1>1, <1>2, Zenon DEF Next, Steps

\* The invariant holds at first.
LEMMA InitSound ==
  ASSUME Init, ConstantsOK
  PROVE  IInv
<1>1. FlowsTyped
  <2>1. 1 \in 1 .. MaxHandle + 1 /\ 0 \in Nat /\ <<>> \in Seq(GuestByte)
    BY SMT DEF ConstantsOK
  <2> QED  BY <2>1, Zenon DEF Init, FlowsTyped, RemoteEnd
<1>2. ASSUME NEW h \in Handle
      PROVE  flow[h] = NoFlow /\ socket[h] = Unopened /\ remote[h] = Unread /\ remote[h].received = <<>>
  <2>1. flow[h] = NoFlow /\ socket[h] = Unopened /\ remote[h] = Unread
    BY Zenon DEF Init, Unread
  <2> QED  BY <2>1, SMT DEF Unread
<1>3. HandleSound(Unopened, <<>>, NoFlow)
  <2>1. Unopened \in SocketType(GuestByte)
    <3>1. /\ <<>> \in Seq(GuestByte) /\ FALSE \in BOOLEAN /\ "none" \in {"none", "pending", "calling"}
          /\ "none" \in {"none", "loading", "data", "end"}
      BY SMT
    <3> QED  BY <3>1, SMT DEF SocketType, Unopened
  <2>2. SocketSound(Unopened)
    BY <2>1, SMT DEF SocketSound, Unopened
  <2>3. BytesSound(Unopened, <<>>)
    BY SMT DEF BytesSound, Continues, Unopened
  <2>4. FlowSound(Unopened, <<>>, NoFlow)
    BY SMT DEF FlowSound, FlowShape, NoFlow, Unopened
  <2> QED  BY <2>2, <2>3, <2>4, Zenon DEF HandleSound
<1>4. HandlesSound
  BY <1>2, <1>3, Zenon DEF HandlesSound
<1>5. KeysMatchFlows
  <2>1. ASSUME NEW k \in Keys, NEW h \in Handle
        PROVE  tcp_by_key[k] = h <=> flow[h] # NoFlow /\ flow[h].key = k
    <3>1. tcp_by_key[k] # h
      BY SMT DEF Init, Handle, None
    <3> QED  BY <1>2, <3>1, Zenon
  <2> QED  BY <2>1, Zenon DEF KeysMatchFlows
<1> QED  BY <1>1, <1>2, <1>4, <1>5, Zenon DEF IInv, UnusedSound

-----------------------------------------------------------------------------

\* Bytes that follow each other from the first on are a stream.
LEMMA StreamIs ==
  ASSUME NEW q \in Seq(GuestByte), Continues(q, 0)
  PROVE  q = Stream(Len(q))
  BY SMT DEF Continues, Stream

\* What is with the remote host or on its way is what the flow acknowledges.
LEMMA BytesKept ==
  ASSUME NEW s, NEW r, NEW f, HandleSound(s, r, f), f # NoFlow, ~s.closed
  PROVE  r \o s.storing \o s.write_queue = Stream(f.guest_next_seq - 1)
<1>1. s.open /\ Queued(s, r) = f.guest_next_seq - 1 /\ s \in SocketType(GuestByte) /\ r \in Seq(GuestByte)
  BY Zenon DEF HandleSound, FlowSound, SocketSound, BytesSound
<1>2. Continues(r, 0) /\ Continues(s.storing, Len(r)) /\ Continues(s.write_queue, Len(r) + Len(s.storing))
  BY <1>1, Zenon DEF HandleSound, BytesSound
<1>3. s.storing \in Seq(GuestByte) /\ s.write_queue \in Seq(GuestByte)
  BY <1>1, SocketFieldsAre, Zenon
<1>4. /\ Continues(r \o s.storing, 0) /\ r \o s.storing \in Seq(GuestByte)
      /\ Len(r \o s.storing) = Len(r) + Len(s.storing)
  BY <1>1, <1>2, <1>3, Joined, Zenon
<1> DEFINE p == r \o s.storing
<1>5. Continues(s.write_queue, Len(p))
  BY <1>2, <1>4, Zenon
<1> HIDE DEF p
<1>6. /\ Continues(p \o s.write_queue, 0) /\ p \o s.write_queue \in Seq(GuestByte)
      /\ Len(p \o s.write_queue) = Len(p) + Len(s.write_queue)
  BY <1>3, <1>4, <1>5, Joined, Zenon DEF p
<1>7. Len(p \o s.write_queue) = f.guest_next_seq - 1
  BY <1>1, <1>4, <1>6, Zenon DEF Queued, p
<1> QED  BY <1>6, <1>7, StreamIs, Zenon DEF p

\* In a sound state the maps agree, no open socket lacks a flow, the remote host
\* reads in order and nothing acknowledged is lost.
LEMMA SoundState ==
  ASSUME IInv
  PROVE  KeysMatchFlows /\ NoOrphanSocket /\ RemoteReadsInOrder /\ AcknowledgedIsKept
<1>1. NoOrphanSocket
  BY HandleIs, Zenon DEF NoOrphanSocket, HandleSound, FlowSound
<1>2. RemoteReadsInOrder
  <2>1. ASSUME NEW h \in Handle PROVE remote[h].received = Stream(Len(remote[h].received))
    <3>1. remote[h].received \in Seq(GuestByte) /\ Continues(remote[h].received, 0)
      BY HandleIs, Zenon DEF HandleSound, BytesSound
    <3> QED  BY <3>1, StreamIs, Zenon
  <2> QED  BY <2>1, Zenon DEF RemoteReadsInOrder
<1>3. AcknowledgedIsKept
  BY HandleIs, BytesKept, Zenon DEF AcknowledgedIsKept
<1> QED  BY <1>1, <1>2, <1>3, Zenon DEF IInv

-----------------------------------------------------------------------------
(* Operators that recur over a queue. *)

\* Induction over a set of numbers.
LEMMA Numbers ==
  ASSUME NEW n \in Nat, NEW S, 0 \in S, \A i \in 1 .. n : i - 1 \in S => i \in S
  PROVE  \A i \in 0 .. n : i \in S
<1> DEFINE Less == {ss \in Nat \X Nat : ss[1] < ss[2]}
           T == {i \in 0 .. n : i \notin S}
<1>1. CASE T # {}
  <2>1. OpToRel(<, Nat) = Less
    BY Zenon DEF OpToRel
  <2>2. IsWellFoundedOn(Less, Nat)
    BY <2>1, NatLessThanWellFounded
  <2>3. T \subseteq Nat
    BY SMT
  <2>4. PICK x \in T : \A y \in T : <<y, x>> \notin Less
    BY <1>1, <2>2, <2>3, WFMin
  <2>5. x \in 0 .. n /\ x # 0 /\ x \notin S
    BY Zenon
  <2>6. x - 1 \in 0 .. n /\ x - 1 \in Nat /\ x \in Nat /\ x - 1 < x /\ x \in 1 .. n
    BY <2>5, SMT
  <2>7. <<x - 1, x>> \in Less
    BY <2>6, SMT
  <2>8. x - 1 \in S
    BY <2>4, <2>6, <2>7, Zenon
  <2> QED  BY <2>5, <2>6, <2>8, Zenon
<1>2. CASE T = {}
  BY <1>2, Zenon
<1> QED  BY <1>1, <1>2

\* The function f is computed from "base", a step for each number.
Computes(f, n, base, step) == f = [i \in 0 .. n |-> IF i = 0 THEN base ELSE step[<<f[i - 1], i>>]]

\* A function can be defined by recursion over numbers.
LEMMA Recursion ==
  ASSUME NEW n \in Nat, NEW T, NEW base \in T, NEW step \in [T \X (1 .. n) -> T]
  PROVE  \E f \in [0 .. n -> T] : Computes(f, n, base, step)
<1> USE DEF Computes
<1> DEFINE Fits(m, f) == f = [i \in 0 .. m |-> IF i = 0 THEN base ELSE step[<<f[i - 1], i>>]]
           S == {m \in 0 .. n : \E f \in [0 .. m -> T] : Fits(m, f)}
<1>1. 0 \in S
  <2> DEFINE f == [i \in 0 .. 0 |-> base]
  <2>1. f \in [0 .. 0 -> T] /\ 0 \in 0 .. n
    BY SMT
  <2>2. Fits(0, f)
    BY SMT
  <2> QED  BY <2>1, <2>2, Zenon
<1>2. ASSUME NEW m \in 1 .. n, m - 1 \in S PROVE m \in S
  <2>1. PICK f \in [0 .. m - 1 -> T] : Fits(m - 1, f)
    BY <1>2, Zenon
  <2> DEFINE g == [i \in 0 .. m |-> IF i = m THEN step[<<f[m - 1], m>>] ELSE f[i]]
  <2>2. m \in Nat /\ m - 1 \in 0 .. m - 1 /\ m \in 0 .. n /\ m # 0
    BY SMT
  <2>3. \A i \in 0 .. m : i # m => i \in 0 .. m - 1
    BY <2>2, SMT
  <2>4. f[m - 1] \in T /\ step[<<f[m - 1], m>>] \in T
    BY <2>2, Zenon
  <2>5. g \in [0 .. m -> T]
    BY <2>3, <2>4, Zenon
  <2>6. ASSUME NEW i \in 0 .. m PROVE g[i] = IF i = 0 THEN base ELSE step[<<g[i - 1], i>>]
    <3>1. CASE i = m
      <4>1. g[m - 1] = f[m - 1]
        BY <2>2, SMT
      <4> QED  BY <2>2, <3>1, <4>1, Zenon
    <3>2. CASE i # m
      <4>1. i \in 0 .. m - 1 /\ g[i] = f[i]
        BY <2>3, <3>2, Zenon
      <4>2. f[i] = IF i = 0 THEN base ELSE step[<<f[i - 1], i>>]
        BY <2>1, <4>1, Zenon
      <4>3. i # 0 => g[i - 1] = f[i - 1]
        BY <2>2, <4>1, SMT
      <4> QED  BY <4>1, <4>2, <4>3, Zenon
    <3> QED  BY <3>1, <3>2
  <2>7. Fits(m, g)
    BY <2>6, Zenon
  <2> HIDE DEF g
  <2> QED  BY <2>2, <2>5, <2>7, Zenon
<1> HIDE DEF S
<1>3. n \in S
  <2>1. \A i \in 0 .. n : i \in S
    BY <1>1, <1>2, Numbers, Zenon
  <2>2. n \in 0 .. n
    BY SMT
  <2> QED  BY <2>1, <2>2, Zenon
<1> QED  BY <1>3, Zenon DEF S

\* What is computed step by step in a set stays in it.
LEMMA StaysInside ==
  ASSUME NEW n \in Nat, NEW T, NEW part, part[0] \in T, \A i \in 1 .. n : part[i - 1] \in T => part[i] \in T
  PROVE  part[n] \in T
<1> DEFINE S == {i \in 0 .. n : part[i] \in T}
<1>1. 0 \in 0 .. n /\ n \in 0 .. n /\ \A i \in 1 .. n : i \in 0 .. n
  BY SMT
<1>2. 0 \in S
  BY <1>1, Zenon
<1>3. \A i \in 1 .. n : i - 1 \in S => i \in S
  BY <1>1, Zenon
<1>4. n \in S
  <2> HIDE DEF S
  <2> QED  BY <1>1, <1>2, <1>3, Numbers, Zenon
<1> QED  BY <1>4, Zenon

\* The elements of a sequence at some places are elements of it.
LEMMA SelectedIs ==
  ASSUME NEW q, Len(q) \in Nat, NEW places, NEW T, \A i \in 1 .. Len(q) : i \in places => q[i] \in T
  PROVE  Selected(q, places) \in Seq(T)
<1> DEFINE n == Len(q)
           body(p, i) == IF i \in places THEN Append(p, q[i]) ELSE p
           step == [x \in Seq(T) \X (1 .. n) |-> body(x[1], x[2])]
           part == CHOOSE f : f = [i \in 0 .. n |-> IF i = 0 THEN <<>> ELSE body(f[i - 1], i)]
<1>1. \A p \in Seq(T), i \in 1 .. n : body(p, i) \in Seq(T)
  BY SMT
<1>2. step \in [Seq(T) \X (1 .. n) -> Seq(T)]
  BY <1>1, SMT
<1>3. <<>> \in Seq(T)
  BY SMT
<1>4. n \in Nat
  OBVIOUS
<1>5. PICK f \in [0 .. n -> Seq(T)] : Computes(f, n, <<>>, step)
  <2> HIDE DEF n, step
  <2> QED  BY <1>2, <1>3, <1>4, Recursion
<1>6. f = [i \in 0 .. n |-> IF i = 0 THEN <<>> ELSE body(f[i - 1], i)]
  <2>1. ASSUME NEW i \in 0 .. n, i # 0 PROVE step[<<f[i - 1], i>>] = body(f[i - 1], i)
    <3>1. i - 1 \in 0 .. n /\ i \in 1 .. n
      BY <2>1, SMT
    <3>2. <<f[i - 1], i>> \in Seq(T) \X (1 .. n)
      BY <3>1, Zenon
    <3> HIDE DEF body
    <3> QED  BY <3>2, SMT
  <2> HIDE DEF step, body
  <2> QED  BY <1>5, <2>1, Zenon DEF Computes
<1>7. part = [i \in 0 .. n |-> IF i = 0 THEN <<>> ELSE body(part[i - 1], i)]
  <2> HIDE DEF body
  <2> QED  BY <1>6, Zenon
<1>8. Selected(q, places) = part[n]
  BY Zenon DEF Selected
<1>9. part[0] \in Seq(T) /\ \A i \in 1 .. n : part[i - 1] \in Seq(T) => part[i] \in Seq(T)
  <2> HIDE DEF part, body, n
  <2>1. 0 \in 0 .. n /\ \A i \in 1 .. n : i \in 0 .. n /\ i # 0
    BY <1>4, SMT
  <2> QED  BY <1>1, <1>3, <1>7, <2>1, Zenon
<1>10. part[n] \in Seq(T)
  <2> HIDE DEF part, body, n
  <2> QED  BY <1>4, <1>9, StaysInside, Zenon
<1> QED  BY <1>8, <1>10, Zenon

\* The frames that CheckRetransmits queues are frames of the queue or sent again.
LEMMA QueueAfterIs ==
  ASSUME NEW n \in Nat, NEW T, rx_queue \in Seq(T),
         \A h \in 1 .. n : flow[h] # NoFlow => ResentFrames(flow[h]) \in Seq(T)
  PROVE  QueueAfter(n) \in Seq(T)
<1> DEFINE body(p, h) == IF flow[h] = NoFlow THEN p ELSE p \o ResentFrames(flow[h])
           step == [x \in Seq(T) \X (1 .. n) |-> body(x[1], x[2])]
           queue == CHOOSE f : f = [h \in 0 .. n |-> IF h = 0 THEN rx_queue ELSE body(f[h - 1], h)]
<1>1. \A p \in Seq(T), h \in 1 .. n : body(p, h) \in Seq(T)
  <2> SUFFICES ASSUME NEW p \in Seq(T), NEW h \in 1 .. n, flow[h] # NoFlow PROVE p \o ResentFrames(flow[h]) \in Seq(T)
    BY Zenon
  <2> QED  BY SMT
<1>2. step \in [Seq(T) \X (1 .. n) -> Seq(T)]
  <2> HIDE DEF body
  <2> QED  BY <1>1, SMT
<1>3. PICK f \in [0 .. n -> Seq(T)] : Computes(f, n, rx_queue, step)
  <2> HIDE DEF step
  <2> QED  BY <1>2, Recursion
<1>4. f = [h \in 0 .. n |-> IF h = 0 THEN rx_queue ELSE body(f[h - 1], h)]
  <2>1. ASSUME NEW h \in 0 .. n, h # 0 PROVE step[<<f[h - 1], h>>] = body(f[h - 1], h)
    <3>1. h - 1 \in 0 .. n /\ h \in 1 .. n
      BY <2>1, SMT
    <3>2. <<f[h - 1], h>> \in Seq(T) \X (1 .. n)
      BY <3>1, Zenon
    <3> HIDE DEF body
    <3> QED  BY <3>2, SMT
  <2> HIDE DEF step, body
  <2> QED  BY <1>3, <2>1, Zenon DEF Computes
<1>5. queue = [h \in 0 .. n |-> IF h = 0 THEN rx_queue ELSE body(queue[h - 1], h)]
  <2> HIDE DEF body
  <2> QED  BY <1>4, Zenon
<1>6. QueueAfter(n) = queue[n]
  BY Zenon DEF QueueAfter
<1>7. queue[0] \in Seq(T) /\ \A h \in 1 .. n : queue[h - 1] \in Seq(T) => queue[h] \in Seq(T)
  <2> HIDE DEF queue, body
  <2>1. 0 \in 0 .. n /\ \A h \in 1 .. n : h \in 0 .. n /\ h # 0
    BY SMT
  <2> QED  BY <1>1, <1>5, <2>1, Zenon
<1>8. queue[n] \in Seq(T)
  <2> HIDE DEF queue, body
  <2> QED  BY <1>7, StaysInside, Zenon
<1> QED  BY <1>6, <1>8, Zenon

\* What the guest becomes by receiving frames, one after another.
LEMMA GuestAfterIs ==
  ASSUME NEW k \in Keys, NEW dropped, NEW S, Len(rx_queue) \in Nat, guest[k] \in S,
         \A i \in 1 .. Len(rx_queue), g \in S : rx_queue[i].key = k => Received(g, rx_queue[i]) \in S
  PROVE  GuestAfter(k, dropped) \in S
<1> DEFINE n == Len(rx_queue)
           body(g, i) == IF i \in dropped \/ rx_queue[i].key # k THEN g ELSE Received(g, rx_queue[i])
           step == [x \in S \X (1 .. n) |-> body(x[1], x[2])]
           after == CHOOSE f : f = [i \in 0 .. n |-> IF i = 0 THEN guest[k] ELSE body(f[i - 1], i)]
<1>1. \A g \in S, i \in 1 .. n : body(g, i) \in S
  BY Zenon
<1>2. n \in Nat
  OBVIOUS
<1>3. step \in [S \X (1 .. n) -> S]
  <2> HIDE DEF body, n
  <2> QED  BY <1>1, SMT
<1>4. PICK f \in [0 .. n -> S] : Computes(f, n, guest[k], step)
  <2> HIDE DEF step, n
  <2> QED  BY <1>2, <1>3, Recursion
<1>5. f = [i \in 0 .. n |-> IF i = 0 THEN guest[k] ELSE body(f[i - 1], i)]
  <2>1. ASSUME NEW i \in 0 .. n, i # 0 PROVE step[<<f[i - 1], i>>] = body(f[i - 1], i)
    <3>1. i - 1 \in 0 .. n /\ i \in 1 .. n
      BY <1>2, <2>1, SMT
    <3>2. <<f[i - 1], i>> \in S \X (1 .. n)
      BY <3>1, Zenon
    <3> HIDE DEF body, n
    <3> QED  BY <3>2, SMT
  <2> HIDE DEF step, body, n
  <2> QED  BY <1>4, <2>1, Zenon DEF Computes
<1>6. after = [i \in 0 .. n |-> IF i = 0 THEN guest[k] ELSE body(after[i - 1], i)]
  <2> HIDE DEF body
  <2> QED  BY <1>5, Zenon
<1>7. GuestAfter(k, dropped) = after[n]
  BY Zenon DEF GuestAfter
<1>8. after[0] \in S /\ \A i \in 1 .. n : after[i - 1] \in S => after[i] \in S
  <2> HIDE DEF after, body, n
  <2>1. 0 \in 0 .. n /\ \A i \in 1 .. n : i \in 0 .. n /\ i # 0
    BY <1>2, SMT
  <2> QED  BY <1>1, <1>6, <2>1, Zenon
<1>9. after[n] \in S
  <2> HIDE DEF after, body, n
  <2> QED  BY <1>2, <1>8, StaysInside, Zenon
<1> QED  BY <1>7, <1>9, Zenon

-----------------------------------------------------------------------------
(* The bytes of the remote host, on their way to the guest. *)

\* What is known of a handle that was given out: the key and the initial number of its
\* flow, and how many bytes of the remote host came too early for the guest.
Connection == [key : Keys \cup {None}, isn : Nat, skipped : Nat]

\* A segment of connection v: bytes are named by their sequence numbers.
SegmentOfConnection(x, v) ==
  /\ x \in Segment /\ x.key = v.key /\ x.isn = v.isn
  /\ x.kind = "data" => x.byte = x.seq + v.skipped /\ x.byte \in RemoteByte

\* Nothing more is read from the remote host, and its last byte has number n - 1.
Over(s, r, v, n) == s.reading = "none" /\ s.connecting # "pending" /\ n + v.skipped = r.read + 1

\* The guest has left connection n: it has ended its stream or begun another.
Left(g, n) == g.isn > n \/ g.state \in {"closed", "finished"}

\* The guest may have heard of the handle.
Announced(h, n, f) == h < n /\ (f = NoFlow \/ f.established)

\* Bytes are sent before they are read, and read before they are dropped.
RemoteSound(s, r) ==
  /\ r.sent \in 0 .. MaxRemote /\ r.read \in 0 .. r.sent /\ r.early \in 0 .. r.read
  /\ s.reading = "data" => r.early < r.read

\* Until a flow is established all that is read comes too early; then the next byte is the
\* next one read.
FlowNumbered(f, s, r, v) ==
  /\ ~f.established => /\ f.our_next_seq = 0 /\ f.unacked = <<>>
                       /\ r.early + (IF s.reading = "data" THEN 1 ELSE 0) = r.read
  /\ f.established => /\ s.connecting = "none" /\ v.skipped = r.early
                      /\ f.our_next_seq > 0
                      /\ f.our_next_seq + v.skipped = r.read + (IF s.reading = "data" THEN 0 ELSE 1)

PendingTold(h, f, v) ==
  \A i \in 1 .. Len(f.unacked) :
    /\ SegmentOfConnection(f.unacked[i].raw, v)
    /\ f.unacked[i].raw.handle = h /\ f.unacked[i].raw.kind # "fin"

FlowTold(h, f, s, r, v) ==
  f # NoFlow => f \in Flow /\ f.key = v.key /\ f.isn = v.isn /\ PendingTold(h, f, v) /\ FlowNumbered(f, s, r, v)

HandleTold(h, v, f, s, r) == RemoteSound(s, r) /\ FlowTold(h, f, s, r, v)

FrameTold(x, v, n, f, s, r, g) ==
  /\ SegmentOfConnection(x, v) /\ Announced(x.handle, n, f)
  /\ x.kind = "fin" => Over(s, r, v, x.seq) \/ Left(g, x.isn)
  /\ x.kind = "synack" => v.skipped = r.early

GuestType == [state : {"closed", "connecting", "open", "finished"}, isn : Nat,
              handle : {None} \cup Handle, sent : 0 .. MaxGuest, got : Seq(RemoteByte), ended : BOOLEAN]

\* What the guest has read, and which connection it is on.
GuestTold(k, g, v, n, f, s, r) ==
  /\ g.state = "connecting" => g.got = <<>> /\ g.handle = None /\ ~g.ended
  /\ g.state = "open" => g.handle # None
  /\ g.handle # None =>
       /\ Announced(g.handle, n, f) /\ v.key = k /\ v.isn = g.isn /\ v.skipped = r.early
       /\ \A i \in 1 .. Len(g.got) : g.got[i] = i + v.skipped
       /\ g.state = "open" /\ g.ended => Over(s, r, v, Len(g.got) + 1)

HandlesTold(w) == \A h \in Handle : HandleTold(h, w[h], flow[h], socket[h], remote[h])
KeysTold(w) == \A h \in Handle : h < next_handle => w[h].key \in Keys /\ w[h].isn <= guest[w[h].key].isn
FrameIsTold(x, w) ==
  FrameTold(x, w[x.handle], next_handle, flow[x.handle], socket[x.handle], remote[x.handle], guest[x.key])
QueueTold(w) == rx_queue \in Seq(Segment) /\ \A i \in 1 .. Len(rx_queue) : FrameIsTold(rx_queue[i], w)
GuestIsTold(k, g, w) ==
  GuestTold(k, g, w[g.handle], next_handle, flow[g.handle], socket[g.handle], remote[g.handle])
GuestsTold(w) == guest \in [Keys -> GuestType] /\ \A k \in Keys : GuestIsTold(k, guest[k], w)

ToldAs(w) == HandlesTold(w) /\ KeysTold(w) /\ QueueTold(w) /\ GuestsTold(w)
Told == \E w \in [Handle -> Connection] : ToldAs(w)

\* What a step may do to a handle that the guest may have heard of,
Onward(h, v, n, f, s, r, c, m, e, t, q) ==
  Announced(h, n, f) =>
    /\ Announced(h, m, e) /\ c = v /\ q.early = r.early
    /\ \A a \in Int : Over(s, r, v, a) => Over(t, q, c, a)

\* and to a guest.
GuestOnward(g, d) ==
  /\ g.isn <= d.isn
  /\ \A a \in Nat : a <= g.isn /\ Left(g, a) => Left(d, a)

\* The handle of a frame is one.
LEMMA SegmentIs ==
  ASSUME NEW x \in Segment
  PROVE  /\ x.key \in Keys /\ x.handle \in Handle /\ x.isn \in Nat /\ x.seq \in Nat
         /\ x.kind \in {"synack", "data", "fin", "rst"} /\ x.byte \in {None} \cup RemoteByte
  BY Zenon DEF Segment

\* A frame stays told of.
LEMMA FrameStays ==
  ASSUME NEW x, NEW v, NEW n, NEW f, NEW s, NEW r, NEW g, NEW c, NEW m, NEW e, NEW t, NEW q, NEW d,
         FrameTold(x, v, n, f, s, r, g), Onward(x.handle, v, n, f, s, r, c, m, e, t, q),
         GuestOnward(g, d), x.isn <= g.isn
  PROVE  FrameTold(x, c, m, e, t, q, d)
<1>1. x \in Segment /\ Announced(x.handle, n, f)
  BY Zenon DEF FrameTold, SegmentOfConnection
<1>2. x.isn \in Nat /\ x.seq \in Int
  BY <1>1, SegmentIs, SMT
<1>3. Announced(x.handle, m, e) /\ c = v /\ q.early = r.early /\ (Over(s, r, v, x.seq) => Over(t, q, c, x.seq))
  BY <1>1, <1>2, Zenon DEF Onward
<1>4. Left(g, x.isn) => Left(d, x.isn)
  BY <1>2, Zenon DEF GuestOnward
<1> QED  BY <1>3, <1>4, Zenon DEF FrameTold

\* A guest that does nothing stays told of.
LEMMA GuestStays ==
  ASSUME NEW k, NEW g \in GuestType, NEW v, NEW n, NEW f, NEW s, NEW r, NEW c, NEW m, NEW e, NEW t, NEW q,
         GuestTold(k, g, v, n, f, s, r), g.handle # None => Onward(g.handle, v, n, f, s, r, c, m, e, t, q)
  PROVE  GuestTold(k, g, c, m, e, t, q)
<1>1. CASE g.handle = None
  BY <1>1, Zenon DEF GuestTold
<1>2. CASE g.handle # None
  <2>1. Announced(g.handle, n, f)
    BY <1>2, Zenon DEF GuestTold
  <2>2. Len(g.got) + 1 \in Int
    <3>1. g.got \in Seq(RemoteByte)
      BY Zenon DEF GuestType
    <3> QED  BY <3>1, SMT
  <2>3. Announced(g.handle, m, e) /\ c = v /\ q.early = r.early /\ (Over(s, r, v, Len(g.got) + 1) => Over(t, q, c, Len(g.got) + 1))
    BY <1>2, <2>1, <2>2, Zenon DEF Onward
  <2> QED  BY <1>2, <2>3, Zenon DEF GuestTold
<1> QED  BY <1>1, <1>2

\* A step that tells nothing wrong.
LEMMA Carries ==
  ASSUME NEW w \in [Handle -> Connection], NEW v \in [Handle -> Connection], ToldAs(w),
         \A h \in Handle : HandleTold(h, v[h], flow'[h], socket'[h], remote'[h]),
         \A h \in Handle : Onward(h, w[h], next_handle, flow[h], socket[h], remote[h],
                                  v[h], next_handle', flow'[h], socket'[h], remote'[h]),
         \A h \in Handle : h < next_handle' => v[h].key \in Keys /\ v[h].isn <= guest'[v[h].key].isn,
         guest' \in [Keys -> GuestType], \A k \in Keys : GuestOnward(guest[k], guest'[k]),
         \A k \in Keys : guest'[k] = guest[k] \/
           GuestTold(k, guest'[k], v[guest'[k].handle], next_handle', flow'[guest'[k].handle],
                     socket'[guest'[k].handle], remote'[guest'[k].handle]),
         rx_queue' \in Seq(Segment),
         \A i \in 1 .. Len(rx_queue') :
           \/ \E j \in 1 .. Len(rx_queue) : rx_queue'[i] = rx_queue[j]
           \/ FrameTold(rx_queue'[i], v[rx_queue'[i].handle], next_handle', flow'[rx_queue'[i].handle],
                        socket'[rx_queue'[i].handle], remote'[rx_queue'[i].handle], guest'[rx_queue'[i].key])
  PROVE  Told'
<1>1. HandlesTold(v)' /\ KeysTold(v)'
  BY Zenon DEF HandlesTold, KeysTold, Handle
<1>2. \A i \in 1 .. Len(rx_queue) :
        FrameTold(rx_queue[i], v[rx_queue[i].handle], next_handle', flow'[rx_queue[i].handle],
                  socket'[rx_queue[i].handle], remote'[rx_queue[i].handle], guest'[rx_queue[i].key])
  <2> SUFFICES ASSUME NEW i \in 1 .. Len(rx_queue)
               PROVE  FrameTold(rx_queue[i], v[rx_queue[i].handle], next_handle', flow'[rx_queue[i].handle],
                                socket'[rx_queue[i].handle], remote'[rx_queue[i].handle], guest'[rx_queue[i].key])
    BY Zenon
  <2> DEFINE x == rx_queue[i]
  <2>1. FrameTold(x, w[x.handle], next_handle, flow[x.handle], socket[x.handle], remote[x.handle], guest[x.key])
    BY Zenon DEF ToldAs, QueueTold, FrameIsTold
  <2> HIDE DEF x
  <2>2. x \in Segment /\ x.handle < next_handle /\ x.key = w[x.handle].key /\ x.isn = w[x.handle].isn
    BY <2>1, Zenon DEF FrameTold, SegmentOfConnection, Announced
  <2>3. x.handle \in Handle /\ x.key \in Keys
    BY <2>2, SegmentIs, Zenon
  <2>4. x.isn <= guest[x.key].isn
    BY <2>2, <2>3, Zenon DEF ToldAs, KeysTold
  <2>5. FrameTold(x, v[x.handle], next_handle', flow'[x.handle], socket'[x.handle], remote'[x.handle], guest'[x.key])
    BY <2>1, <2>3, <2>4, FrameStays
  <2> QED  BY <2>5 DEF x
<1>3. QueueTold(v)'
  BY <1>2, Zenon DEF QueueTold, FrameIsTold, Segment, Handle
<1>4. \A k \in Keys : GuestTold(k, guest'[k], v[guest'[k].handle], next_handle', flow'[guest'[k].handle],
                                socket'[guest'[k].handle], remote'[guest'[k].handle])
  <2> SUFFICES ASSUME NEW k \in Keys, guest'[k] = guest[k]
               PROVE  GuestTold(k, guest'[k], v[guest'[k].handle], next_handle', flow'[guest'[k].handle],
                                socket'[guest'[k].handle], remote'[guest'[k].handle])
    BY Zenon
  <2> DEFINE g == guest[k]
  <2>1. g \in GuestType /\ GuestTold(k, g, w[g.handle], next_handle, flow[g.handle], socket[g.handle], remote[g.handle])
    BY Zenon DEF ToldAs, GuestsTold, GuestIsTold
  <2>2. guest'[k] = g
    BY Zenon
  <2> HIDE DEF g
  <2>3. g.handle # None => g.handle \in Handle
    BY <2>1, Zenon DEF GuestType
  <2>4. GuestTold(k, g, v[g.handle], next_handle', flow'[g.handle], socket'[g.handle], remote'[g.handle])
    BY <2>1, <2>3, GuestStays
  <2> QED  BY <2>2, <2>4, Zenon
<1>5. GuestsTold(v)'
  BY <1>4, Zenon DEF GuestsTold, GuestIsTold, GuestType, Handle
<1> QED  BY <1>1, <1>3, <1>5, Zenon DEF Told, ToldAs, Connection, Handle

\* Nothing happens to a handle, or to a guest.
LEMMA StayOnward ==
  /\ \A h, v, n, f, s, r : Onward(h, v, n, f, s, r, v, n, f, s, r)
  /\ \A g \in GuestType : GuestOnward(g, g)
<1>1. \A g \in GuestType : g.isn <= g.isn
  <2>1. \A g \in GuestType : g.isn \in Nat
    BY Zenon DEF GuestType
  <2> QED  BY <2>1, SMT
<1> QED  BY <1>1, Zenon DEF Onward, GuestOnward

\* The functions are functions.
LEMMA ToldIs ==
  ASSUME NEW w \in [Handle -> Connection], ToldAs(w)
  PROVE  /\ rx_queue \in Seq(Segment) /\ guest \in [Keys -> GuestType]
         /\ \A h \in Handle : w[h] \in Connection /\ HandleTold(h, w[h], flow[h], socket[h], remote[h])
  BY Zenon DEF ToldAs, QueueTold, GuestsTold, HandlesTold

\* A queue with one more frame.
LEMMA Queues1 ==
  ASSUME NEW q \in Seq(Segment), NEW x \in Segment
  PROVE  /\ Append(q, x) \in Seq(Segment)
         /\ \A i \in 1 .. Len(Append(q, x)) : (\E j \in 1 .. Len(q) : Append(q, x)[i] = q[j]) \/ Append(q, x)[i] = x
<1>1. Append(q, x) \in Seq(Segment) /\ Len(Append(q, x)) = Len(q) + 1 /\ Len(q) \in Nat
  BY SMT
<1>2. \A i \in 1 .. Len(q) : Append(q, x)[i] = q[i]
  BY SMT
<1>3. Append(q, x)[Len(q) + 1] = x
  BY SMT
<1>4. \A i \in 1 .. Len(q) + 1 : i \in 1 .. Len(q) \/ i = Len(q) + 1
  BY <1>1, SMT
<1> QED  BY <1>1, <1>2, <1>3, <1>4, Zenon

\* A step of one handle, which may queue a frame.
LEMMA OneHandleTold ==
  ASSUME NEW w \in [Handle -> Connection], ToldAs(w), NEW h \in Handle, NEW c \in Connection,
         guest' = guest, next_handle' = next_handle,
         \A i \in Handle : i # h => flow'[i] = flow[i] /\ socket'[i] = socket[i] /\ remote'[i] = remote[i],
         c.key = w[h].key, c.isn = w[h].isn,
         HandleTold(h, c, flow'[h], socket'[h], remote'[h]),
         Onward(h, w[h], next_handle, flow[h], socket[h], remote[h], c, next_handle, flow'[h], socket'[h], remote'[h]),
         \/ rx_queue' = rx_queue
         \/ \E x \in Segment :
              /\ rx_queue' = Append(rx_queue, x) /\ x.handle = h
              /\ FrameTold(x, c, next_handle, flow'[h], socket'[h], remote'[h], guest[x.key])
  PROVE  Told'
<1> DEFINE v == [w EXCEPT ![h] = c]
<1>1. v \in [Handle -> Connection] /\ v[h] = c /\ \A i \in Handle : i # h => v[i] = w[i]
  BY Zenon
<1> HIDE DEF v
<1>2. \A i \in Handle : HandleTold(i, v[i], flow'[i], socket'[i], remote'[i])
  BY <1>1, ToldIs, Zenon
<1>3. \A i \in Handle : Onward(i, w[i], next_handle, flow[i], socket[i], remote[i],
                               v[i], next_handle', flow'[i], socket'[i], remote'[i])
  BY <1>1, StayOnward, Zenon
<1>4. \A i \in Handle : i < next_handle' => v[i].key \in Keys /\ v[i].isn <= guest'[v[i].key].isn
  <2>1. \A i \in Handle : v[i].key = w[i].key /\ v[i].isn = w[i].isn
    BY <1>1, Zenon
  <2> QED  BY <2>1, Zenon DEF ToldAs, KeysTold
<1>5. guest' \in [Keys -> GuestType] /\ \A k \in Keys : GuestOnward(guest[k], guest'[k]) /\ guest'[k] = guest[k]
  BY ToldIs, StayOnward, Zenon
<1>6. /\ rx_queue' \in Seq(Segment)
      /\ \A i \in 1 .. Len(rx_queue') :
           \/ \E j \in 1 .. Len(rx_queue) : rx_queue'[i] = rx_queue[j]
           \/ FrameTold(rx_queue'[i], v[rx_queue'[i].handle], next_handle', flow'[rx_queue'[i].handle],
                        socket'[rx_queue'[i].handle], remote'[rx_queue'[i].handle], guest'[rx_queue'[i].key])
  <2>1. CASE rx_queue' = rx_queue
    BY <2>1, ToldIs, Zenon
  <2>2. ASSUME NEW x \in Segment, rx_queue' = Append(rx_queue, x), x.handle = h,
               FrameTold(x, c, next_handle, flow'[h], socket'[h], remote'[h], guest[x.key])
        PROVE  <1>6
    <3>1. FrameTold(x, v[x.handle], next_handle', flow'[x.handle], socket'[x.handle], remote'[x.handle], guest'[x.key])
      BY <1>1, <2>2, Zenon
    <3>2. /\ rx_queue' \in Seq(Segment)
          /\ \A i \in 1 .. Len(rx_queue') : (\E j \in 1 .. Len(rx_queue) : rx_queue'[i] = rx_queue[j]) \/ rx_queue'[i] = x
      BY <2>2, ToldIs, Queues1, Zenon
    <3> QED  BY <3>1, <3>2, Zenon
  <2> QED  BY <2>1, <2>2
<1> QED  BY <1>1, <1>2, <1>3, <1>4, <1>5, <1>6, Carries

\* What other tasks of a socket do.
SameReading(s, t) == t.reading = s.reading /\ t.connecting = s.connecting

\* Nothing is read or connected.
LEMMA ReadingKeeps ==
  ASSUME NEW h, NEW v, NEW n, NEW f, NEW s, NEW r, NEW t, NEW q, HandleTold(h, v, f, s, r),
         SameReading(s, t), q.sent = r.sent, q.read = r.read, q.early = r.early
  PROVE  HandleTold(h, v, f, t, q) /\ Onward(h, v, n, f, s, r, v, n, f, t, q)
<1>1. \A a \in Int : Over(s, r, v, a) => Over(t, q, v, a)
  BY Zenon DEF Over, SameReading
<1>2. RemoteSound(t, q) /\ (FlowNumbered(f, s, r, v) => FlowNumbered(f, t, q, v))
  BY Zenon DEF RemoteSound, FlowNumbered, SameReading, HandleTold
<1> QED  BY <1>1, <1>2, Zenon DEF HandleTold, FlowTold, Onward

\* Writing to a socket and closing it.
LEMMA OthersReadNothing ==
  ASSUME NEW s \in SocketType(GuestByte)
  PROVE  /\ SameReading(s, Flushed(s)) /\ SameReading(s, Closed(s))
         /\ \A b : SameReading(s, Sent(s, b))
         /\ \A ok \in BOOLEAN : SameReading(s, Stored(s, ok))
<1>1. DOMAIN s = SocketFields
  BY SocketFieldsAre, Zenon
<1>2. \A a : DOMAIN a = SocketFields => SameReading(a, Flushed(a)) /\ SameReading(a, Closed(a))
  BY SMT DEF SameReading, Flushed, Closed, SocketFields
<1>3. ASSUME NEW b PROVE SameReading(s, Sent(s, b))
  <2> DEFINE q == [s EXCEPT !.write_queue = Append(@, b), !.writing = TRUE]
  <2>1. DOMAIN q = SocketFields /\ SameReading(s, q)
    BY <1>1, SMT DEF SameReading, SocketFields
  <2>2. Sent(s, b) = s \/ Sent(s, b) = q \/ Sent(s, b) = Flushed(q)
    BY Zenon DEF Sent
  <2> HIDE DEF q
  <2> QED  BY <1>2, <2>1, <2>2, Zenon DEF SameReading
<1>4. ASSUME NEW ok \in BOOLEAN PROVE SameReading(s, Stored(s, ok))
  <2> DEFINE q == [s EXCEPT !.storing = <<>>]
             z == [q EXCEPT !.closed = TRUE]
  <2>1. DOMAIN q = SocketFields /\ SameReading(s, q)
    BY <1>1, SMT DEF SameReading, SocketFields
  <2>2. SameReading(q, z)
    <3> HIDE DEF q
    <3> QED  BY <2>1, SMT DEF SameReading, SocketFields
  <2>3. Stored(s, ok) = q \/ Stored(s, ok) = Flushed(q) \/ Stored(s, ok) = z
    BY Zenon DEF Stored
  <2> HIDE DEF q, z
  <2> QED  BY <1>2, <2>1, <2>2, <2>3, Zenon DEF SameReading
<1> QED  BY <1>1, <1>2, <1>3, <1>4, Zenon

\* The fields of a flow.
LEMMA FlowIs ==
  ASSUME NEW f \in Flow
  PROVE  /\ DOMAIN f = FlowFields /\ f # NoFlow
         /\ f.key \in Keys /\ f.isn \in Nat /\ f.guest_next_seq \in Nat /\ f.our_next_seq \in Nat
         /\ f.established \in BOOLEAN /\ f.unacked \in Seq(Pending)
<1>1. DOMAIN f = FlowFields
  BY SMT DEF Flow, FlowFields
<1>2. f # NoFlow
  BY <1>1, NoFlowIs, Zenon
<1> QED  BY <1>1, <1>2, Zenon DEF Flow

\* The fields of a remote end.
LEMMA ReadIs ==
  ASSUME NEW s, NEW r, RemoteSound(s, r)
  PROVE  r.sent \in Nat /\ r.read \in Nat /\ r.early \in Nat /\ r.sent <= MaxRemote /\ r.read <= r.sent /\ r.early <= r.read
  BY SMT DEF RemoteSound

\* A flow that sends a segment.
LEMMA SendingTold ==
  ASSUME ConstantsOK, NEW f \in Flow, NEW x \in Segment, NEW h, NEW v,
         PendingTold(h, f, v), SegmentOfConnection(x, v), x.handle = h, x.kind # "fin"
  PROVE  /\ Sending(f, x) \in Flow /\ PendingTold(h, Sending(f, x), v)
         /\ Sending(f, x).key = f.key /\ Sending(f, x).isn = f.isn /\ Sending(f, x).established = f.established
         /\ Sending(f, x).our_next_seq = f.our_next_seq + 1
<1> DEFINE p == [seq_end |-> f.our_next_seq + 1, raw |-> x, age |-> 0, retries |-> 0]
           u == Append(f.unacked, p)
           g == Sending(f, x)
           n == f.our_next_seq + 1
<1>1. DOMAIN f = FlowFields /\ f.unacked \in Seq(Pending) /\ n \in Nat
  <2>1. f.our_next_seq \in Nat
    BY FlowIs, Zenon
  <2> QED  BY <2>1, FlowIs, SMT
<1>2. p \in Pending /\ p.raw = x
  <2>1. 0 \in 0 .. RetransmitTicks /\ 0 \in 0 .. MaxRetries
    BY SMT DEF ConstantsOK
  <2> QED  BY <1>1, <2>1, Zenon DEF Pending
<1>3. g = [f EXCEPT !.our_next_seq = n, !.unacked = u]
  BY Zenon DEF Sending
<1> HIDE DEF p, g, n
<1>4. /\ u \in Seq(Pending) /\ Len(u) = Len(f.unacked) + 1 /\ Len(f.unacked) \in Nat
      /\ u[Len(u)] = p /\ \A i \in 1 .. Len(f.unacked) : u[i] = f.unacked[i]
  BY <1>1, <1>2, SMT
<1> HIDE DEF u
<1>5. g \in Flow
  BY <1>1, <1>3, <1>4, Zenon DEF Flow
<1>6. /\ g.key = f.key /\ g.isn = f.isn /\ g.established = f.established
      /\ g.our_next_seq = n /\ g.unacked = u
  BY <1>1, <1>3, SMT DEF FlowFields
<1>7. PendingTold(h, g, v)
  <2> SUFFICES ASSUME NEW i \in 1 .. Len(u)
               PROVE  SegmentOfConnection(u[i].raw, v) /\ u[i].raw.handle = h /\ u[i].raw.kind # "fin"
    BY <1>6, Zenon DEF PendingTold
  <2>1. CASE i \in 1 .. Len(f.unacked)
    BY <1>4, <2>1, Zenon DEF PendingTold
  <2>2. CASE i = Len(u)
    BY <1>2, <1>4, <2>2, Zenon
  <2> QED  BY <1>4, <2>1, <2>2, SMT
<1> QED  BY <1>5, <1>6, <1>7, Zenon DEF g, n

\* The segment that is sent next is one of the flow's connection.
LEMMA SegmentOfIs ==
  ASSUME NEW h \in Handle, flow[h] \in Flow, NEW v, flow[h].key = v.key, flow[h].isn = v.isn,
         NEW kind \in {"synack", "data", "fin", "rst"}, NEW byte \in {None} \cup RemoteByte,
         kind = "data" => byte = flow[h].our_next_seq + v.skipped /\ byte \in RemoteByte
  PROVE  LET x == SegmentOf(h, kind, byte)
         IN  /\ x \in Segment /\ SegmentOfConnection(x, v)
             /\ x.key = flow[h].key /\ x.isn = flow[h].isn
             /\ x.handle = h /\ x.kind = kind /\ x.seq = flow[h].our_next_seq
<1> DEFINE x == SegmentOf(h, kind, byte)
<1>1. x = [key |-> flow[h].key, handle |-> h, isn |-> flow[h].isn, kind |-> kind,
           seq |-> flow[h].our_next_seq, byte |-> byte]
  BY Zenon DEF SegmentOf
<1>2. flow[h].key \in Keys /\ flow[h].isn \in Nat /\ flow[h].our_next_seq \in Nat
  BY FlowIs, Zenon
<1> HIDE DEF x
<1>3. x \in Segment
  BY <1>1, <1>2, Zenon DEF Segment
<1>4. /\ x.key = flow[h].key /\ x.isn = flow[h].isn /\ x.handle = h /\ x.kind = kind
      /\ x.seq = flow[h].our_next_seq /\ x.byte = byte
  BY <1>1, Zenon
<1> QED  BY <1>3, <1>4, Zenon DEF x, SegmentOfConnection

\* What is known of a handle, with what the first invariant says of it.
LEMMA HandleToldIs ==
  ASSUME IInv, NEW w \in [Handle -> Connection], ToldAs(w), NEW h \in Handle
  PROVE  /\ w[h] \in Connection /\ HandleTold(h, w[h], flow[h], socket[h], remote[h])
         /\ RemoteSound(socket[h], remote[h]) /\ DOMAIN socket[h] = SocketFields
         /\ DOMAIN remote[h] = {"sent", "read", "early", "received"}
         /\ flow[h] # NoFlow => flow[h] \in Flow /\ flow[h].key = w[h].key /\ flow[h].isn = w[h].isn
         /\ socket[h] \in SocketType(GuestByte)
<1>1. remote[h] \in RemoteEnd /\ socket[h] \in SocketType(GuestByte)
  BY HandleIs, Zenon DEF HandleSound, SocketSound
<1> QED  BY <1>1, ToldIs, SocketFieldsAre, RemoteEndIs, Zenon DEF HandleTold, FlowTold

\* The continuation of connect reads nothing.
LEMMA ConnectCompletesTold ==
  ASSUME IInv, NEW w \in [Handle -> Connection], ToldAs(w), NEW h \in Handle, NEW ok \in BOOLEAN,
         ConnectCompletes(h, ok)
  PROVE  Told'
<1> DEFINE t == Connected(socket[h], ok)
<1>1. socket[h].connecting = "pending" /\ socket' = [socket EXCEPT ![h] = t]
  BY Zenon DEF ConnectCompletes
<1>2. UNCHANGED <<flow, rx_queue, next_handle, remote, guest>>
  BY Zenon DEF ConnectCompletes
<1>3. (t.reading = "loading" /\ socket[h].open) \/ t.reading = socket[h].reading
  <2>1. DOMAIN socket[h] = SocketFields
    BY HandleToldIs, Zenon
  <2> QED  BY <2>1, SMT DEF Connected, SocketFields
<1> HIDE DEF t
<1>4. socket'[h] = t /\ \A i \in Handle : i # h => socket'[i] = socket[i]
  BY <1>1, HandleIs, At, Zenon
<1>5. ~flow[h].established
  BY <1>1, HandleIs, Zenon DEF HandleSound, SocketSound, FlowSound
<1>6. HandleTold(h, w[h], flow[h], t, remote[h])
  <2>1. HandleTold(h, w[h], flow[h], socket[h], remote[h])
    BY HandleToldIs, Zenon
  <2>2. t.reading = "data" => socket[h].reading = "data"
    BY <1>3, SMT
  <2>3. RemoteSound(t, remote[h])
    BY <2>1, <2>2, Zenon DEF HandleTold, RemoteSound
  <2>4. socket[h].open => socket[h].reading = "none"
    BY <1>1, HandleIs, Zenon DEF HandleSound, SocketSound
  <2>5. socket[h].reading = "data" <=> t.reading = "data"
    BY <1>3, <2>4, SMT
  <2> QED  BY <1>5, <2>1, <2>3, <2>5, Zenon DEF HandleTold, FlowTold, FlowNumbered
<1>7. Onward(h, w[h], next_handle, flow[h], socket[h], remote[h], w[h], next_handle, flow[h], t, remote[h])
  BY <1>1, Zenon DEF Onward, Over
<1> QED  BY <1>2, <1>4, <1>6, <1>7, HandleToldIs, OneHandleTold

\* A load tells nothing before its callback does.
LEMMA LoadCompletesTold ==
  ASSUME IInv, NEW w \in [Handle -> Connection], ToldAs(w), NEW h \in Handle, NEW some \in BOOLEAN,
         LoadCompletes(h, some)
  PROVE  Told'
<1> DEFINE t == Loaded(socket[h], some)
           n == IF some /\ socket[h].open THEN remote[h].read + 1 ELSE remote[h].read
           q == [remote[h] EXCEPT !.read = n]
<1>1. /\ socket[h].reading = "loading" /\ socket' = [socket EXCEPT ![h] = t]
      /\ remote' = [remote EXCEPT ![h] = q] /\ (some => remote[h].read < remote[h].sent)
  BY Zenon DEF LoadCompletes
<1>2. UNCHANGED <<flow, rx_queue, next_handle, guest>>
  BY Zenon DEF LoadCompletes
<1>3. /\ t.connecting = socket[h].connecting /\ t.reading \in {"none", "data", "end"}
      /\ t.reading = "data" <=> some /\ socket[h].open
  <2>1. DOMAIN socket[h] = SocketFields
    BY HandleToldIs, Zenon
  <2> QED  BY <2>1, SMT DEF Loaded, SocketFields
<1>4. q.read = n /\ q.sent = remote[h].sent /\ q.early = remote[h].early
  <2>1. DOMAIN remote[h] = {"sent", "read", "early", "received"}
    BY HandleToldIs, Zenon
  <2> HIDE DEF n
  <2> QED  BY <2>1, SMT
<1>5. /\ socket'[h] = t /\ \A i \in Handle : i # h => socket'[i] = socket[i]
      /\ remote'[h] = q /\ \A i \in Handle : i # h => remote'[i] = remote[i]
  <2> HIDE DEF t, q
  <2>1. DOMAIN remote = Handle
    BY HandleIs, Zenon
  <2> QED  BY <1>1, <2>1, HandleIs, At, Zenon
<1>6. /\ remote[h].read \in Nat /\ remote[h].sent \in Nat /\ remote[h].early \in Nat
      /\ remote[h].sent <= MaxRemote /\ remote[h].read <= remote[h].sent /\ remote[h].early <= remote[h].read
  BY HandleToldIs, ReadIs, Zenon
<1>7. HandleTold(h, w[h], flow[h], socket[h], remote[h])
  BY HandleToldIs, Zenon
<1> HIDE DEF t, q
<1>8. RemoteSound(t, q)
  BY <1>1, <1>3, <1>4, <1>6, SMT DEF RemoteSound
<1>9. /\ n + (IF t.reading = "data" THEN 0 ELSE 1) = remote[h].read + 1
      /\ remote[h].early = remote[h].read => remote[h].early + (IF t.reading = "data" THEN 1 ELSE 0) = n
  BY <1>3, <1>6, SMT
<1> HIDE DEF n
<1>10. FlowNumbered(flow[h], socket[h], remote[h], w[h]) => FlowNumbered(flow[h], t, q, w[h])
  <2>1. socket[h].reading # "data"
    BY <1>1, SMT
  <2>2. remote[h].early + 0 = remote[h].early
    BY <1>6, SMT
  <2> QED  BY <1>3, <1>4, <1>9, <2>1, <2>2, Zenon DEF FlowNumbered
<1>11. HandleTold(h, w[h], flow[h], t, q)
  BY <1>7, <1>8, <1>10, Zenon DEF HandleTold, FlowTold
<1>12. Onward(h, w[h], next_handle, flow[h], socket[h], remote[h], w[h], next_handle, flow[h], t, q)
  <2>1. socket[h].reading # "none"
    BY <1>1, SMT
  <2> QED  BY <1>4, <2>1, Zenon DEF Onward, Over
<1> QED  BY <1>2, <1>5, <1>11, <1>12, HandleToldIs, OneHandleTold

\* Nor does a store,
LEMMA StoreCompletesTold ==
  ASSUME IInv, NEW w \in [Handle -> Connection], ToldAs(w), NEW h \in Handle, NEW ok \in BOOLEAN,
         StoreCompletes(h, ok)
  PROVE  Told'
<1> DEFINE t == Stored(socket[h], ok)
           n == IF ok THEN remote[h].received \o socket[h].storing ELSE remote[h].received
           q == [remote[h] EXCEPT !.received = n]
<1>1. socket' = [socket EXCEPT ![h] = t] /\ remote' = [remote EXCEPT ![h] = q]
  BY Zenon DEF StoreCompletes
<1>2. UNCHANGED <<flow, rx_queue, next_handle, guest>>
  BY Zenon DEF StoreCompletes
<1>3. SameReading(socket[h], t)
  BY HandleToldIs, OthersReadNothing, Zenon
<1>4. q.read = remote[h].read /\ q.sent = remote[h].sent /\ q.early = remote[h].early
  <2>1. DOMAIN remote[h] = {"sent", "read", "early", "received"}
    BY HandleToldIs, Zenon
  <2> HIDE DEF n
  <2> QED  BY <2>1, SMT
<1> HIDE DEF t, q
<1>5. /\ socket'[h] = t /\ \A i \in Handle : i # h => socket'[i] = socket[i]
      /\ remote'[h] = q /\ \A i \in Handle : i # h => remote'[i] = remote[i]
  <2>1. DOMAIN remote = Handle
    BY HandleIs, Zenon
  <2> QED  BY <1>1, <2>1, HandleIs, At, Zenon
<1>6. /\ HandleTold(h, w[h], flow[h], t, q)
      /\ Onward(h, w[h], next_handle, flow[h], socket[h], remote[h], w[h], next_handle, flow[h], t, q)
  BY <1>3, <1>4, HandleToldIs, ReadingKeeps, Zenon
<1> QED  BY <1>2, <1>5, <1>6, HandleToldIs, OneHandleTold

\* nor what the remote host sends.
LEMMA RemoteSendsTold ==
  ASSUME IInv, ConstantsOK, NEW w \in [Handle -> Connection], ToldAs(w), NEW h \in Handle, RemoteSends(h)
  PROVE  Told'
<1> DEFINE n == remote[h].sent + 1
           q == [remote[h] EXCEPT !.sent = n]
<1>1. remote' = [remote EXCEPT ![h] = q] /\ remote[h].sent < MaxRemote
  BY Zenon DEF RemoteSends
<1>2. UNCHANGED <<flow, socket, rx_queue, next_handle, guest>>
  BY Zenon DEF RemoteSends, nat
<1>3. q.read = remote[h].read /\ q.sent = n /\ q.early = remote[h].early
  <2>1. DOMAIN remote[h] = {"sent", "read", "early", "received"}
    BY HandleToldIs, Zenon
  <2> HIDE DEF n
  <2> QED  BY <2>1, SMT
<1> HIDE DEF q
<1>4. remote'[h] = q /\ \A i \in Handle : i # h => remote'[i] = remote[i]
  <2>1. DOMAIN remote = Handle
    BY HandleIs, Zenon
  <2> QED  BY <1>1, <2>1, At, Zenon
<1>5. HandleTold(h, w[h], flow[h], socket[h], remote[h])
  BY HandleToldIs, Zenon
<1>6. RemoteSound(socket[h], q)
  <2>1. RemoteSound(socket[h], remote[h])
    BY HandleToldIs, Zenon
  <2>2. /\ remote[h].sent \in Nat /\ remote[h].read \in Nat /\ remote[h].read <= remote[h].sent
        /\ remote[h].early \in 0 .. remote[h].read
        /\ socket[h].reading = "data" => remote[h].early < remote[h].read
    BY <2>1, ReadIs, Zenon DEF RemoteSound
  <2>3. n \in 0 .. MaxRemote /\ remote[h].read \in 0 .. n
    <3>1. MaxRemote \in Nat
      BY Zenon DEF ConstantsOK
    <3> QED  BY <1>1, <2>2, <3>1, SMT
  <2> QED  BY <1>3, <2>2, <2>3, Zenon DEF RemoteSound
<1>7. HandleTold(h, w[h], flow[h], socket[h], q)
  BY <1>3, <1>5, <1>6, Zenon DEF HandleTold, FlowTold, FlowNumbered
<1>8. Onward(h, w[h], next_handle, flow[h], socket[h], remote[h], w[h], next_handle, flow[h], socket[h], q)
  BY <1>3, Zenon DEF Onward, Over
<1> QED  BY <1>2, <1>4, <1>7, <1>8, HandleToldIs, OneHandleTold

\* A connection is announced to the guest when it is established: the bytes read before
\* that are skipped.
LEMMA OnTcpConnectTold ==
  ASSUME IInv, ConstantsOK, NEW w \in [Handle -> Connection], ToldAs(w), NEW h \in Handle, OnTcpConnect(h)
  PROVE  Told'
<1> DEFINE t == [socket[h] EXCEPT !.connecting = "none"]
<1>1. socket[h].connecting = "calling" /\ socket' = [socket EXCEPT ![h] = t]
  BY Zenon DEF OnTcpConnect
<1>2. UNCHANGED <<next_handle, remote, guest>>
  BY Zenon DEF OnTcpConnect
<1>3. t.reading = socket[h].reading /\ t.connecting = "none"
  <2>1. DOMAIN socket[h] = SocketFields
    BY HandleToldIs, Zenon
  <2> QED  BY <2>1, SMT DEF SocketFields
<1> HIDE DEF t
<1>4. socket'[h] = t /\ \A i \in Handle : i # h => socket'[i] = socket[i]
  BY <1>1, HandleIs, At, Zenon
<1>5. h < next_handle
  <2>1. socket[h] # Unopened
    BY <1>1, SMT DEF Unopened
  <2> QED  BY <2>1, Used, Zenon
<1>6. HandleTold(h, w[h], flow[h], socket[h], remote[h]) /\ RemoteSound(socket[h], remote[h])
  BY HandleToldIs, Zenon
<1>7. RemoteSound(t, remote[h])
  BY <1>3, <1>6, Zenon DEF RemoteSound
<1>8. t.connecting # "pending" /\ socket[h].connecting # "none"
  BY <1>1, <1>3, SMT
<1>9. ~NoFlow.established
  BY SMT DEF NoFlow
<1>10. CASE flow[h] = NoFlow /\ UNCHANGED <<flow, rx_queue>>
  <2>1. HandleTold(h, w[h], flow[h], t, remote[h])
    BY <1>7, <1>10, Zenon DEF HandleTold, FlowTold
  <2>2. Onward(h, w[h], next_handle, flow[h], socket[h], remote[h], w[h], next_handle, flow[h], t, remote[h])
    BY <1>3, <1>8, Zenon DEF Onward, Over
  <2> QED  BY <1>2, <1>4, <1>10, <2>1, <2>2, HandleToldIs, OneHandleTold
<1>11. CASE /\ flow[h] # NoFlow /\ ~socket[h].connected /\ EraseFlow(h)
            /\ rx_queue' = Append(rx_queue, SegmentOf(h, "rst", None))
  <2> DEFINE x == SegmentOf(h, "rst", None)
  <2>1. flow'[h] = NoFlow /\ \A i \in Handle : i # h => flow'[i] = flow[i]
    <3>1. flow' = [flow EXCEPT ![h] = NoFlow]
      BY <1>11, Zenon DEF EraseFlow
    <3> QED  BY <3>1, HandleIs, At, Zenon
  <2>2. ~flow[h].established
    BY <1>11, HandleIs, Zenon DEF HandleSound, FlowSound
  <2>3. HandleTold(h, w[h], NoFlow, t, remote[h])
    BY <1>7, Zenon DEF HandleTold, FlowTold
  <2>4. Onward(h, w[h], next_handle, flow[h], socket[h], remote[h], w[h], next_handle, NoFlow, t, remote[h])
    BY <1>11, <2>2, Zenon DEF Onward, Announced
  <2>5. x \in Segment /\ SegmentOfConnection(x, w[h]) /\ x.handle = h /\ x.kind = "rst"
    <3>1. flow[h] \in Flow /\ flow[h].key = w[h].key /\ flow[h].isn = w[h].isn
      BY <1>11, HandleToldIs, Zenon
    <3>2. "rst" \in {"synack", "data", "fin", "rst"} /\ "rst" # "data"
      BY SMT
    <3>3. None \in {None} \cup RemoteByte
      BY Zenon
    <3> QED  BY <3>1, <3>2, <3>3, SegmentOfIs
  <2>6. rx_queue' = Append(rx_queue, x)
    BY <1>11, Zenon
  <2> HIDE DEF x
  <2>7. FrameTold(x, w[h], next_handle, NoFlow, t, remote[h], guest[x.key])
    <3>1. x.kind # "fin"
      BY <2>5, SMT
    <3> QED  BY <1>5, <2>5, <3>1, Zenon DEF FrameTold, Announced
  <2> QED  BY <1>2, <1>4, <2>1, <2>3, <2>4, <2>5, <2>6, <2>7, HandleToldIs, OneHandleTold
<1>12. CASE LET seg == SegmentOf(h, "synack", None)
            IN  /\ flow[h] # NoFlow /\ socket[h].connected /\ rx_queue' = Append(rx_queue, seg)
                /\ flow' = [flow EXCEPT ![h] = Sending([flow[h] EXCEPT !.established = TRUE], seg)]
  <2> DEFINE x == SegmentOf(h, "synack", None)
             f == flow[h]
             e == [f EXCEPT !.established = TRUE]
             g == Sending(e, x)
             n == remote[h].early
             c == [w[h] EXCEPT !.skipped = n]
  <2>1. rx_queue' = Append(rx_queue, x) /\ flow' = [flow EXCEPT ![h] = g] /\ f # NoFlow
    BY <1>12, Zenon
  <2>2. f \in Flow /\ f.key = w[h].key /\ f.isn = w[h].isn
    BY <2>1, HandleToldIs, Zenon
  <2>3. /\ ~f.established /\ f.our_next_seq = 0 /\ f.unacked = <<>>
        /\ remote[h].early + (IF t.reading = "data" THEN 1 ELSE 0) = remote[h].read
    BY <1>3, <1>6, <1>8, <2>1, Zenon DEF HandleTold, FlowTold, FlowNumbered
  <2>4. n \in Nat /\ 1 + n = remote[h].read + (IF t.reading = "data" THEN 0 ELSE 1)
    <3>1. remote[h].read \in Nat /\ remote[h].early \in Nat
      BY <1>6, ReadIs, Zenon
    <3> QED  BY <2>3, <3>1, SMT
  <2>5. x \in Segment /\ x.handle = h /\ x.kind = "synack" /\ x.key = f.key /\ x.isn = f.isn
    <3>1. "synack" \in {"synack", "data", "fin", "rst"} /\ "synack" # "data"
      BY SMT
    <3>2. None \in {None} \cup RemoteByte
      BY Zenon
    <3> QED  BY <2>2, <3>1, <3>2, SegmentOfIs
  <2> HIDE DEF x
  <2>6. c \in Connection /\ c.key = w[h].key /\ c.isn = w[h].isn /\ c.skipped = n
    <3>1. w[h] \in Connection /\ DOMAIN w[h] = {"key", "isn", "skipped"}
      BY SMT DEF Connection
    <3>2. c \in Connection
      BY <2>4, <3>1, Zenon DEF Connection
    <3> QED  BY <3>1, <3>2, SMT
  <2>7. /\ e \in Flow /\ e.key = f.key /\ e.isn = f.isn /\ e.established
        /\ e.our_next_seq = 0 /\ e.unacked = <<>>
    <3>1. DOMAIN f = FlowFields /\ TRUE \in BOOLEAN
      BY <2>2, FlowIs, Zenon
    <3>2. e \in Flow
      BY <2>2, <3>1, Zenon DEF Flow
    <3>3. e.key = f.key /\ e.isn = f.isn /\ e.established /\ e.our_next_seq = f.our_next_seq /\ e.unacked = f.unacked
      BY <3>1, SMT DEF FlowFields
    <3> QED  BY <2>3, <3>2, <3>3, Zenon
  <2> HIDE DEF e, c, f
  <2>8. SegmentOfConnection(x, c) /\ x.kind # "fin"
    <3>1. x.kind # "data" /\ x.kind # "fin"
      BY <2>5, SMT
    <3> QED  BY <2>2, <2>5, <2>6, <3>1, Zenon DEF SegmentOfConnection
  <2>9. PendingTold(h, e, c)
    <3>1. \A i \in 1 .. Len(e.unacked) : FALSE
      BY <2>7, SMT
    <3> QED  BY <3>1, Zenon DEF PendingTold
  <2>10. /\ g \in Flow /\ PendingTold(h, g, c) /\ g.key = e.key /\ g.isn = e.isn
         /\ g.established = e.established /\ g.our_next_seq = e.our_next_seq + 1
    BY <2>5, <2>7, <2>8, <2>9, SendingTold, Zenon
  <2> HIDE DEF g
  <2>11. FlowNumbered(g, t, remote[h], c)
    <3>1. g.established /\ g.our_next_seq = 1 /\ 1 > 0
      <4>1. g.our_next_seq = 0 + 1
        BY <2>7, <2>10, Zenon
      <4> QED  BY <2>7, <2>10, <4>1, SMT
    <3> QED  BY <1>3, <2>4, <2>6, <3>1, Zenon DEF FlowNumbered
  <2>12. HandleTold(h, c, g, t, remote[h])
    BY <1>7, <2>2, <2>6, <2>7, <2>10, <2>11, Zenon DEF HandleTold, FlowTold
  <2>13. Onward(h, w[h], next_handle, flow[h], socket[h], remote[h], c, next_handle, g, t, remote[h])
    BY <2>1, <2>3, Zenon DEF Onward, Announced, f
  <2>14. flow'[h] = g /\ \A i \in Handle : i # h => flow'[i] = flow[i]
    BY <2>1, HandleIs, At, Zenon
  <2>15. FrameTold(x, c, next_handle, g, t, remote[h], guest[x.key])
    BY <1>5, <2>5, <2>6, <2>7, <2>8, <2>10, Zenon DEF FrameTold, Announced
  <2> QED  BY <1>2, <1>4, <2>1, <2>5, <2>6, <2>12, <2>13, <2>14, <2>15, OneHandleTold
<1> QED  BY <1>10, <1>11, <1>12, Zenon DEF OnTcpConnect

\* The socket when a callback of its load has run.
LEMMA ReadingIs ==
  ASSUME IInv, NEW w \in [Handle -> Connection], ToldAs(w), NEW h \in Handle, NEW x \in {"loading", "none"},
         socket[h].reading \in {"data", "end"}, NEW t, t = [socket[h] EXCEPT !.reading = x],
         socket' = [socket EXCEPT ![h] = t]
  PROVE  /\ t.reading = x /\ t.connecting = socket[h].connecting /\ RemoteSound(t, remote[h])
         /\ socket'[h] = t /\ \A i \in Handle : i # h => socket'[i] = socket[i]
         /\ \A v, n, f, g : Announced(h, n, f) => (Announced(h, n, g) => Onward(h, v, n, f, socket[h], remote[h], v, n, g, t, remote[h]))
         /\ h < next_handle
<1>1. t.reading = x /\ t.connecting = socket[h].connecting
  <2>1. DOMAIN socket[h] = SocketFields
    BY HandleToldIs, Zenon
  <2> QED  BY <2>1, SMT DEF SocketFields
<1>2. RemoteSound(t, remote[h])
  <2>1. x # "data"
    BY SMT
  <2> QED  BY <1>1, <2>1, HandleToldIs, Zenon DEF RemoteSound
<1>3. socket'[h] = t /\ \A i \in Handle : i # h => socket'[i] = socket[i]
  BY HandleIs, At, Zenon
<1>4. socket[h].reading # "none"
  BY SMT
<1>5. h < next_handle
  <2>1. socket[h] # Unopened
    BY <1>4, SMT DEF Unopened
  <2> QED  BY <2>1, Used, Zenon
<1> QED  BY <1>1, <1>2, <1>3, <1>4, <1>5, Zenon DEF Onward, Over

\* A byte of the remote host is sent with the next sequence number.
LEMMA OnTcpDataTold ==
  ASSUME IInv, ConstantsOK, NEW w \in [Handle -> Connection], ToldAs(w), NEW h \in Handle, OnTcpData(h)
  PROVE  Told'
<1> DEFINE t == [socket[h] EXCEPT !.reading = "loading"]
<1>1. socket[h].reading = "data" /\ socket' = [socket EXCEPT ![h] = t]
  BY Zenon DEF OnTcpData
<1>2. UNCHANGED <<next_handle, guest>>
  BY Zenon DEF OnTcpData
<1>3. t = [socket[h] EXCEPT !.reading = "loading"]
  OBVIOUS
<1> HIDE DEF t
<1>4. /\ t.reading = "loading" /\ t.connecting = socket[h].connecting /\ RemoteSound(t, remote[h])
      /\ socket'[h] = t /\ \A i \in Handle : i # h => socket'[i] = socket[i]
      /\ \A v, n, f, g : Announced(h, n, f) => (Announced(h, n, g) => Onward(h, v, n, f, socket[h], remote[h], v, n, g, t, remote[h]))
      /\ h < next_handle
  <2>1. socket[h].reading \in {"data", "end"} /\ "loading" \in {"loading", "none"}
    BY <1>1, SMT
  <2> QED  BY <1>1, <1>3, <2>1, ReadingIs
<1>5. HandleTold(h, w[h], flow[h], socket[h], remote[h]) /\ RemoteSound(socket[h], remote[h]) /\ w[h] \in Connection
  BY HandleToldIs, Zenon
<1>6. CASE flow[h].established
  <2> DEFINE x == SegmentOf(h, "data", remote[h].read)
             f == flow[h]
             g == Sending(f, x)
             v == w[h]
  <2>1. rx_queue' = Append(rx_queue, x) /\ flow' = [flow EXCEPT ![h] = g]
    BY <1>6, Zenon DEF OnTcpData
  <2>18. remote' = remote
    BY <1>6, Zenon DEF OnTcpData
  <2>2. f # NoFlow
    BY <1>6, SMT DEF NoFlow
  <2>3. f \in Flow /\ f.key = v.key /\ f.isn = v.isn
    BY <2>2, HandleToldIs, Zenon
  <2>4. /\ socket[h].connecting = "none" /\ f.our_next_seq > 0
        /\ f.our_next_seq + v.skipped = remote[h].read + 0 /\ PendingTold(h, f, v) /\ v.skipped = remote[h].early
    BY <1>1, <1>5, <1>6, <2>2, Zenon DEF HandleTold, FlowTold, FlowNumbered
  <2>5. remote[h].read \in RemoteByte /\ remote[h].read \in Nat
    <3>1. remote[h].read \in Nat /\ remote[h].sent \in Nat /\ remote[h].sent <= MaxRemote /\ remote[h].read <= remote[h].sent
      BY <1>5, ReadIs, Zenon
    <3>2. remote[h].early < remote[h].read /\ remote[h].early \in Nat /\ MaxRemote \in Nat
      BY <1>1, <1>5, ReadIs, Zenon DEF RemoteSound, ConstantsOK
    <3> QED  BY <3>1, <3>2, SMT DEF RemoteByte
  <2>6. v.skipped \in Nat /\ f.our_next_seq \in Nat
    BY <1>5, <2>3, FlowIs, Zenon DEF Connection
  <2>7. remote[h].read = f.our_next_seq + v.skipped
    BY <2>4, <2>5, <2>6, SMT
  <2>8. x \in Segment /\ SegmentOfConnection(x, v) /\ x.handle = h /\ x.kind = "data"
    <3>1. "data" \in {"synack", "data", "fin", "rst"} /\ remote[h].read \in {None} \cup RemoteByte
      BY <2>5, SMT
    <3> QED  BY <2>3, <2>5, <2>7, <3>1, SegmentOfIs
  <2>9. x.kind # "fin"
    BY <2>8, SMT
  <2> HIDE DEF x
  <2>10. /\ g \in Flow /\ PendingTold(h, g, v) /\ g.key = f.key /\ g.isn = f.isn
         /\ g.established = f.established /\ g.our_next_seq = f.our_next_seq + 1
    BY <2>3, <2>4, <2>8, <2>9, SendingTold
  <2> HIDE DEF g
  <2>11. FlowNumbered(g, t, remote[h], v)
    <3>1. f.our_next_seq + 1 + v.skipped = remote[h].read + 1 /\ f.our_next_seq + 1 > 0
      BY <2>5, <2>6, <2>7, SMT
    <3>2. t.reading # "data"
      BY <1>4, SMT
    <3> QED  BY <1>4, <1>6, <2>4, <2>10, <3>1, <3>2, Zenon DEF FlowNumbered
  <2>12. HandleTold(h, v, g, t, remote[h])
    BY <1>4, <2>3, <2>10, <2>11, Zenon DEF HandleTold, FlowTold
  <2>13. Announced(h, next_handle, g) /\ Announced(h, next_handle, f)
    BY <1>4, <1>6, <2>10, Zenon DEF Announced
  <2>14. Onward(h, v, next_handle, flow[h], socket[h], remote[h], v, next_handle, g, t, remote[h])
    BY <1>4, <2>13, Zenon
  <2>15. flow'[h] = g /\ \A i \in Handle : i # h => flow'[i] = flow[i]
    BY <2>1, HandleIs, At, Zenon
  <2>16. FrameTold(x, v, next_handle, g, t, remote[h], guest[x.key])
    <3>1. x.kind # "synack"
      BY <2>8, SMT
    <3> QED  BY <2>8, <2>9, <2>13, <3>1, Zenon DEF FrameTold
  <2> HIDE DEF v
  <2>17. v = w[h]
    BY DEF v
  <2> QED  BY <1>2, <1>4, <1>5, <2>1, <2>8, <2>12, <2>14, <2>15, <2>16, <2>17, <2>18, OneHandleTold
<1>7. CASE ~flow[h].established
  <2>1. UNCHANGED <<rx_queue, flow>> /\ DroppedEarly(h)
    BY <1>7, Zenon DEF OnTcpData
  <2>2. PICK x \in RemoteEnd :
          /\ remote' = [remote EXCEPT ![h] = x] /\ x.sent = remote[h].sent /\ x.read = remote[h].read
          /\ x.early = IF flow[h] # NoFlow THEN remote[h].early + 1 ELSE remote[h].early
    <3>1. remote[h] \in RemoteEnd
      BY HandleIs, Zenon
    <3> QED  BY <2>1, <3>1, EarlyIs, Zenon
  <2>3. remote'[h] = x /\ \A i \in Handle : i # h => remote'[i] = remote[i]
    BY <2>2, HandleIs, RemoteAt, Zenon
  <2>4. /\ remote[h].sent \in 0 .. MaxRemote /\ remote[h].read \in 0 .. remote[h].sent
        /\ remote[h].early \in 0 .. remote[h].read /\ remote[h].early < remote[h].read
        /\ remote[h].read \in Nat /\ remote[h].early \in Nat
    BY <1>1, <1>5, ReadIs, Zenon DEF RemoteSound
  <2>5. t.reading # "data"
    BY <1>4, SMT
  <2>6. RemoteSound(t, x)
    <3>1. x.early \in 0 .. x.read
      BY <2>2, <2>4, SMT
    <3> QED  BY <2>2, <2>4, <2>5, <3>1, Zenon DEF RemoteSound
  <2>7. HandleTold(h, w[h], flow[h], t, x)
    <3>1. CASE flow[h] = NoFlow
      BY <2>6, <3>1, Zenon DEF HandleTold, FlowTold
    <3>2. CASE flow[h] # NoFlow
      <4>1. remote[h].early + 1 = remote[h].read
        BY <1>1, <1>5, <1>7, <3>2, Zenon DEF HandleTold, FlowTold, FlowNumbered
      <4>2. x.early + 0 = x.read
        BY <2>2, <2>4, <3>2, <4>1, SMT
      <4> QED  BY <1>5, <1>7, <2>5, <2>6, <4>2, Zenon DEF HandleTold, FlowTold, FlowNumbered
    <3> QED  BY <3>1, <3>2
  <2>8. Onward(h, w[h], next_handle, flow[h], socket[h], remote[h], w[h], next_handle, flow[h], t, x)
    <3>1. CASE flow[h] = NoFlow
      <4>1. socket[h].reading # "none"
        BY <1>1, SMT
      <4> QED  BY <2>2, <3>1, <4>1, Zenon DEF Onward, Over
    <3>2. CASE flow[h] # NoFlow
      BY <1>7, <3>2, Zenon DEF Onward, Announced
    <3> QED  BY <3>1, <3>2
  <2> QED  BY <1>2, <1>4, <1>5, <2>1, <2>3, <2>7, <2>8, OneHandleTold
<1> QED  BY <1>6, <1>7

\* The end of the stream follows the last byte that was read.
LEMMA OnTcpClosedTold ==
  ASSUME IInv, NEW w \in [Handle -> Connection], ToldAs(w), NEW h \in Handle, OnTcpClosed(h)
  PROVE  Told'
<1> DEFINE t == [socket[h] EXCEPT !.reading = "none"]
<1>1. socket[h].reading = "end" /\ socket' = [socket EXCEPT ![h] = t]
  BY Zenon DEF OnTcpClosed
<1>2. UNCHANGED <<next_handle, remote, guest>>
  BY Zenon DEF OnTcpClosed
<1>3. t = [socket[h] EXCEPT !.reading = "none"]
  OBVIOUS
<1> HIDE DEF t
<1>4. /\ t.reading = "none" /\ t.connecting = socket[h].connecting /\ RemoteSound(t, remote[h])
      /\ socket'[h] = t /\ \A i \in Handle : i # h => socket'[i] = socket[i]
      /\ \A v, n, f, g : Announced(h, n, f) => (Announced(h, n, g) => Onward(h, v, n, f, socket[h], remote[h], v, n, g, t, remote[h]))
      /\ h < next_handle
  <2>1. socket[h].reading \in {"data", "end"} /\ "none" \in {"loading", "none"}
    BY <1>1, SMT
  <2> QED  BY <1>1, <1>3, <2>1, ReadingIs
<1>5. HandleTold(h, w[h], flow[h], socket[h], remote[h]) /\ w[h] \in Connection
  BY HandleToldIs, Zenon
<1>6. flow'[h] = NoFlow /\ \A i \in Handle : i # h => flow'[i] = flow[i]
  <2>1. CASE flow[h] = NoFlow
    BY <2>1, Zenon DEF OnTcpClosed
  <2>2. CASE flow[h] # NoFlow
    <3>1. flow' = [flow EXCEPT ![h] = NoFlow]
      BY <2>2, Zenon DEF OnTcpClosed, EraseFlow
    <3> QED  BY <3>1, HandleIs, At, Zenon
  <2> QED  BY <2>1, <2>2
<1>7. HandleTold(h, w[h], NoFlow, t, remote[h])
  BY <1>4, Zenon DEF HandleTold, FlowTold
<1>8. Announced(h, next_handle, NoFlow)
  BY <1>4, Zenon DEF Announced
<1>9. Onward(h, w[h], next_handle, flow[h], socket[h], remote[h], w[h], next_handle, NoFlow, t, remote[h])
  <2>1. CASE Announced(h, next_handle, flow[h])
    BY <1>4, <1>8, <2>1, Zenon
  <2>2. CASE ~Announced(h, next_handle, flow[h])
    BY <2>2, Zenon DEF Onward
  <2> QED  BY <2>1, <2>2
<1>10. CASE ~flow[h].established
  <2>1. rx_queue' = rx_queue
    BY <1>10, Zenon DEF OnTcpClosed
  <2> QED  BY <1>2, <1>4, <1>5, <1>6, <1>7, <1>9, <2>1, OneHandleTold
<1>11. CASE flow[h].established
  <2> DEFINE x == SegmentOf(h, "fin", None)
             f == flow[h]
  <2>1. rx_queue' = Append(rx_queue, x)
    BY <1>11, Zenon DEF OnTcpClosed
  <2>2. f # NoFlow
    BY <1>11, SMT DEF NoFlow
  <2>3. f \in Flow /\ f.key = w[h].key /\ f.isn = w[h].isn
    BY <2>2, HandleToldIs, Zenon
  <2>4. socket[h].reading # "data"
    BY <1>1, SMT
  <2>5. socket[h].connecting = "none" /\ f.our_next_seq + w[h].skipped = remote[h].read + 1
    BY <1>5, <1>11, <2>2, <2>4, Zenon DEF HandleTold, FlowTold, FlowNumbered
  <2>6. x \in Segment /\ SegmentOfConnection(x, w[h]) /\ x.handle = h /\ x.kind = "fin" /\ x.seq = f.our_next_seq
    <3>1. "fin" \in {"synack", "data", "fin", "rst"} /\ "fin" # "data"
      BY SMT
    <3>2. None \in {None} \cup RemoteByte
      BY Zenon
    <3> QED  BY <2>3, <3>1, <3>2, SegmentOfIs
  <2> HIDE DEF x
  <2>7. t.connecting # "pending"
    BY <1>4, <2>5, SMT
  <2>8. FrameTold(x, w[h], next_handle, NoFlow, t, remote[h], guest[x.key])
    BY <1>4, <1>8, <2>5, <2>6, <2>7, Zenon DEF FrameTold, Over
  <2> QED  BY <1>2, <1>4, <1>5, <1>6, <1>7, <1>9, <2>1, <2>6, <2>8, OneHandleTold
<1> QED  BY <1>10, <1>11

\* A guest goes on with its connection or leaves it.
GuestMoves(g, d) ==
  /\ d \in GuestType /\ GuestOnward(g, d) /\ d.handle \in {None, g.handle}
  /\ \A k, v, n, f, s, r, c, m, e, t, q :
       GuestTold(k, g, v, n, f, s, r) /\ (d.handle # None => c = v /\ m = n /\ e = f /\ t = s /\ q = r)
         => GuestTold(k, d, c, m, e, t, q)

\* A step of a guest.
LEMMA GuestActs ==
  ASSUME NEW w \in [Handle -> Connection], NEW v \in [Handle -> Connection], ToldAs(w),
         \A h \in Handle : HandleTold(h, v[h], flow'[h], socket'[h], remote'[h]),
         \A h \in Handle : Onward(h, w[h], next_handle, flow[h], socket[h], remote[h],
                                  v[h], next_handle', flow'[h], socket'[h], remote'[h]),
         \A h \in Handle : h < next_handle' => v[h].key \in Keys /\ v[h].isn <= guest'[v[h].key].isn,
         NEW k \in Keys, NEW d, GuestMoves(guest[k], d), guest' = [guest EXCEPT ![k] = d],
         rx_queue' \in Seq(Segment),
         \A i \in 1 .. Len(rx_queue') :
           \/ \E j \in 1 .. Len(rx_queue) : rx_queue'[i] = rx_queue[j]
           \/ FrameTold(rx_queue'[i], v[rx_queue'[i].handle], next_handle', flow'[rx_queue'[i].handle],
                        socket'[rx_queue'[i].handle], remote'[rx_queue'[i].handle], guest'[rx_queue'[i].key])
  PROVE  Told'
<1> DEFINE g == guest[k]
<1>1. guest \in [Keys -> GuestType] /\ DOMAIN guest = Keys
  BY ToldIs, Zenon
<1>2. guest'[k] = d /\ \A i \in Keys : i # k => guest'[i] = guest[i]
  BY <1>1, At, Zenon
<1>3. g \in GuestType /\ GuestTold(k, g, w[g.handle], next_handle, flow[g.handle], socket[g.handle], remote[g.handle])
  BY <1>1, Zenon DEF ToldAs, GuestsTold, GuestIsTold
<1>4. guest' \in [Keys -> GuestType]
  BY <1>1, Zenon DEF GuestMoves
<1>5. \A i \in Keys : GuestOnward(guest[i], guest'[i])
  BY <1>1, <1>2, StayOnward, Zenon DEF GuestMoves
<1>6. GuestTold(k, d, v[d.handle], next_handle', flow'[d.handle], socket'[d.handle], remote'[d.handle])
  <2> HIDE DEF g
  <2>1. g.handle # None => g.handle \in Handle
    BY <1>3, Zenon DEF GuestType
  <2>2. GuestTold(k, g, v[g.handle], next_handle', flow'[g.handle], socket'[g.handle], remote'[g.handle])
    BY <1>3, <2>1, GuestStays
  <2>3. d.handle = None \/ d.handle = g.handle
    BY Zenon DEF GuestMoves, g
  <2>4. GuestMoves(g, d)
    BY Zenon DEF g
  <2>5. d.handle # None =>
          /\ v[d.handle] = v[g.handle] /\ next_handle' = next_handle' /\ flow'[d.handle] = flow'[g.handle]
          /\ socket'[d.handle] = socket'[g.handle] /\ remote'[d.handle] = remote'[g.handle]
    BY <2>3, Zenon
  <2> QED  BY <2>2, <2>4, <2>5, Zenon DEF GuestMoves
<1>7. \A i \in Keys : guest'[i] = guest[i] \/
        GuestTold(i, guest'[i], v[guest'[i].handle], next_handle', flow'[guest'[i].handle],
                  socket'[guest'[i].handle], remote'[guest'[i].handle])
  BY <1>2, <1>6, Zenon
<1> QED  BY <1>4, <1>5, <1>7, Carries

\* Its keys stay told of.
LEMMA KeysGoOn ==
  ASSUME NEW w \in [Handle -> Connection], ToldAs(w), NEW k \in Keys, NEW d, GuestMoves(guest[k], d),
         guest' = [guest EXCEPT ![k] = d], NEW h \in Handle, h < next_handle
  PROVE  w[h].key \in Keys /\ w[h].isn <= guest'[w[h].key].isn
<1>1. w[h].key \in Keys /\ w[h].isn <= guest[w[h].key].isn
  BY Zenon DEF ToldAs, KeysTold
<1>2. guest \in [Keys -> GuestType] /\ DOMAIN guest = Keys
  BY ToldIs, Zenon
<1>3. guest'[k] = d /\ \A i \in Keys : i # k => guest'[i] = guest[i]
  BY <1>2, At, Zenon
<1>4. guest[k].isn <= d.isn /\ d \in GuestType
  BY Zenon DEF GuestMoves, GuestOnward
<1>5. guest[k].isn \in Nat /\ d.isn \in Nat /\ w[h].isn \in Nat
  BY <1>2, <1>4, Zenon DEF GuestType, Connection
<1>6. CASE w[h].key = k
  <2>1. w[h].isn <= guest[k].isn
    BY <1>1, <1>6, Zenon
  <2>2. w[h].isn <= d.isn
    BY <1>4, <1>5, <2>1, SMT
  <2> QED  BY <1>1, <1>3, <1>6, <2>2, Zenon
<1>7. CASE w[h].key # k
  BY <1>1, <1>3, <1>7, Zenon
<1> QED  BY <1>6, <1>7

\* A guest's segment for one handle, which may queue a frame.
LEMMA GuestOneHandle ==
  ASSUME NEW w \in [Handle -> Connection], ToldAs(w), NEW h \in Handle,
         NEW k \in Keys, NEW d, GuestMoves(guest[k], d), guest' = [guest EXCEPT ![k] = d],
         next_handle' = next_handle, remote' = remote,
         \A i \in Handle : i # h => flow'[i] = flow[i] /\ socket'[i] = socket[i],
         SameReading(socket[h], socket'[h]),
         FlowTold(h, flow'[h], socket'[h], remote[h], w[h]),
         Announced(h, next_handle, flow[h]) => Announced(h, next_handle, flow'[h]),
         \/ rx_queue' = rx_queue
         \/ \E x \in Segment :
              /\ rx_queue' = Append(rx_queue, x) /\ x.handle = h
              /\ FrameTold(x, w[h], next_handle, flow'[h], socket'[h], remote[h], guest'[x.key])
  PROVE  Told'
<1>1. \A i \in Handle : w[i] \in Connection /\ HandleTold(i, w[i], flow[i], socket[i], remote[i])
  BY ToldIs, Zenon
<1>2. HandleTold(h, w[h], flow'[h], socket'[h], remote'[h])
  BY <1>1, Zenon DEF HandleTold, RemoteSound, SameReading
<1>3. Onward(h, w[h], next_handle, flow[h], socket[h], remote[h], w[h], next_handle', flow'[h], socket'[h], remote'[h])
  BY Zenon DEF Onward, Over, SameReading
<1>4. \A i \in Handle : HandleTold(i, w[i], flow'[i], socket'[i], remote'[i])
  BY <1>1, <1>2, Zenon
<1>5. \A i \in Handle : Onward(i, w[i], next_handle, flow[i], socket[i], remote[i],
                               w[i], next_handle', flow'[i], socket'[i], remote'[i])
  BY <1>3, StayOnward, Zenon
<1>6. \A i \in Handle : i < next_handle' => w[i].key \in Keys /\ w[i].isn <= guest'[w[i].key].isn
  <2>1. ASSUME NEW i \in Handle, i < next_handle' PROVE w[i].key \in Keys /\ w[i].isn <= guest'[w[i].key].isn
    <3>1. i < next_handle
      BY <2>1, Zenon
    <3> QED  BY <3>1, KeysGoOn
  <2> QED  BY <2>1, Zenon
<1>7. /\ rx_queue' \in Seq(Segment)
      /\ \A i \in 1 .. Len(rx_queue') :
           \/ \E j \in 1 .. Len(rx_queue) : rx_queue'[i] = rx_queue[j]
           \/ FrameTold(rx_queue'[i], w[rx_queue'[i].handle], next_handle', flow'[rx_queue'[i].handle],
                        socket'[rx_queue'[i].handle], remote'[rx_queue'[i].handle], guest'[rx_queue'[i].key])
  <2>1. CASE rx_queue' = rx_queue
    BY <2>1, ToldIs, Zenon
  <2>2. ASSUME NEW x \in Segment, rx_queue' = Append(rx_queue, x), x.handle = h,
               FrameTold(x, w[h], next_handle, flow'[h], socket'[h], remote[h], guest'[x.key])
        PROVE  <1>7
    <3>1. FrameTold(x, w[x.handle], next_handle', flow'[x.handle], socket'[x.handle], remote'[x.handle], guest'[x.key])
      BY <2>2, Zenon
    <3>2. /\ rx_queue' \in Seq(Segment)
          /\ \A i \in 1 .. Len(rx_queue') : (\E j \in 1 .. Len(rx_queue) : rx_queue'[i] = rx_queue[j]) \/ rx_queue'[i] = x
      BY <2>2, ToldIs, Queues1, Zenon
    <3> QED  BY <3>1, <3>2, Zenon
  <2> QED  BY <2>1, <2>2
<1> QED  BY <1>4, <1>5, <1>6, <1>7, GuestActs

\* What handle_tcp may be given when guest g becomes d.
SegmentOfGuest(seg, d) ==
  /\ seg.isn = d.isn
  /\ seg.fin => d.state = "finished"

\* A SYN gives out a handle.
LEMMA OpenFlowTold ==
  ASSUME IInv, ConstantsOK, NEW w \in [Handle -> Connection], ToldAs(w), NEW k \in Keys, NEW seg,
         NEW d, GuestMoves(guest[k], d), guest' = [guest EXCEPT ![k] = d], SegmentOfGuest(seg, d),
         OpenFlow(k, seg), UNCHANGED remote
  PROVE  Told'
<1>1. guest \in [Keys -> GuestType] /\ DOMAIN guest = Keys /\ rx_queue \in Seq(Segment)
  BY ToldIs, Zenon
<1>2. d \in GuestType /\ d.isn \in Nat
  BY Zenon DEF GuestMoves, GuestType
<1>3. CASE ~seg.syn
  <2>1. UNCHANGED <<flow, socket, rx_queue, next_handle>>
    BY <1>3, Zenon DEF OpenFlow, nat
  <2>2. \A h \in Handle : HandleTold(h, w[h], flow'[h], socket'[h], remote'[h])
    BY <2>1, ToldIs, Zenon
  <2>3. \A h \in Handle : Onward(h, w[h], next_handle, flow[h], socket[h], remote[h],
                                 w[h], next_handle', flow'[h], socket'[h], remote'[h])
    BY <2>1, StayOnward, Zenon
  <2>4. \A h \in Handle : h < next_handle' => w[h].key \in Keys /\ w[h].isn <= guest'[w[h].key].isn
    <3>1. ASSUME NEW h \in Handle, h < next_handle' PROVE w[h].key \in Keys /\ w[h].isn <= guest'[w[h].key].isn
      <4>1. h < next_handle
        BY <2>1, <3>1, Zenon
      <4> QED  BY <4>1, KeysGoOn
    <3> QED  BY <3>1, Zenon
  <2>5. /\ rx_queue' \in Seq(Segment)
        /\ \A i \in 1 .. Len(rx_queue') :
             \/ \E j \in 1 .. Len(rx_queue) : rx_queue'[i] = rx_queue[j]
             \/ FrameTold(rx_queue'[i], w[rx_queue'[i].handle], next_handle', flow'[rx_queue'[i].handle],
                          socket'[rx_queue'[i].handle], remote'[rx_queue'[i].handle], guest'[rx_queue'[i].key])
    BY <1>1, <2>1, Zenon
  <2> QED  BY <2>2, <2>3, <2>4, <2>5, GuestActs
<1>4. CASE seg.syn
  <2> DEFINE n == next_handle
             f == [key |-> k, isn |-> seg.isn, guest_next_seq |-> 1, our_next_seq |-> 0,
                   established |-> FALSE, unacked |-> <<>>]
             c == [key |-> k, isn |-> seg.isn, skipped |-> 0]
             v == [w EXCEPT ![n] = c]
  <2>1. n \in Handle /\ n \in Nat /\ n' = n + 1
    BY <1>4, SMT DEF OpenFlow, IInv, FlowsTyped, Handle, ConstantsOK
  <2>2. flow' = [flow EXCEPT ![n] = f] /\ socket' = [socket EXCEPT ![n] = Opened] /\ rx_queue' = rx_queue
    BY <1>4, Zenon DEF OpenFlow
  <2>3. seg.isn \in Nat /\ seg.isn = d.isn
    BY <1>2, Zenon DEF SegmentOfGuest
  <2>4. f \in Flow /\ f.key = k /\ f.isn = seg.isn /\ f.our_next_seq = 0 /\ f.unacked = <<>> /\ ~f.established
    <3>1. 0 \in Nat /\ 1 \in Nat /\ <<>> \in Seq(Pending) /\ FALSE \in BOOLEAN
      BY SMT
    <3> QED  BY <2>3, <3>1, Zenon DEF Flow
  <2>5. c \in Connection /\ c.key = k /\ c.isn = seg.isn
    <3>1. 0 \in Nat
      BY SMT
    <3> QED  BY <2>3, <3>1, Zenon DEF Connection
  <2> HIDE DEF f, c
  <2>6. v \in [Handle -> Connection] /\ v[n] = c /\ \A h \in Handle : h # n => v[h] = w[h]
    BY <2>1, <2>5, Zenon
  <2> HIDE DEF v
  <2>7. flow'[n] = f /\ \A h \in Handle : h # n => flow'[h] = flow[h]
    BY <2>1, <2>2, HandleIs, At, Zenon
  <2>8. socket'[n] = Opened /\ \A h \in Handle : h # n => socket'[h] = socket[h]
    BY <2>1, <2>2, HandleIs, At, Zenon
  <2>9. HandleTold(n, c, f, Opened, remote[n])
    <3>1. RemoteSound(Opened, remote[n])
      <4>1. RemoteSound(socket[n], remote[n])
        BY <2>1, HandleToldIs, Zenon
      <4>2. Opened.reading # "data"
        BY SMT DEF Opened, Unopened
      <4> QED  BY <4>1, <4>2, Zenon DEF RemoteSound
    <3>3. remote[n].early + (IF Opened.reading = "data" THEN 1 ELSE 0) = remote[n].read
      <4>1. n >= next_handle
        BY <2>1, SMT
      <4>2. remote[n] = Unread
        BY <2>1, <4>1, Zenon DEF IInv, UnusedSound
      <4> HIDE DEF n
      <4> QED  BY <4>2, SMT DEF Unread, Opened, Unopened
    <3>2. PendingTold(n, f, c)
      <4>1. \A i \in 1 .. Len(f.unacked) : FALSE
        BY <2>4, SMT
      <4> QED  BY <4>1, Zenon DEF PendingTold
    <3> QED  BY <2>4, <2>5, <3>1, <3>2, <3>3, Zenon DEF HandleTold, FlowTold, FlowNumbered
  <2>10. \A h \in Handle : HandleTold(h, v[h], flow'[h], socket'[h], remote'[h])
    BY <2>6, <2>7, <2>8, <2>9, ToldIs, Zenon
  <2>11. \A h \in Handle : h < n => h < n' /\ h # n
    BY <2>1, SMT DEF Handle
  <2>12. \A h \in Handle : Onward(h, w[h], next_handle, flow[h], socket[h], remote[h],
                                  v[h], next_handle', flow'[h], socket'[h], remote'[h])
    BY <2>6, <2>7, <2>8, <2>11, Zenon DEF Onward, Announced
  <2>13. \A h \in Handle : h < next_handle' => v[h].key \in Keys /\ v[h].isn <= guest'[v[h].key].isn
    <3>1. ASSUME NEW h \in Handle, h < next_handle' PROVE v[h].key \in Keys /\ v[h].isn <= guest'[v[h].key].isn
      <4>1. CASE h = n
        <5>1. guest'[k] = d
          BY <1>1, At, Zenon
        <5>2. d.isn <= d.isn
          BY <1>2, SMT
        <5> QED  BY <2>3, <2>5, <2>6, <4>1, <5>1, <5>2, Zenon
      <4>2. CASE h # n
        <5>1. h < next_handle
          BY <2>1, <3>1, <4>2, SMT DEF Handle
        <5>2. w[h].key \in Keys /\ w[h].isn <= guest'[w[h].key].isn
          BY <5>1, KeysGoOn
        <5> QED  BY <2>6, <4>2, <5>2, Zenon
      <4> QED  BY <4>1, <4>2
    <3> QED  BY <3>1, Zenon
  <2>14. /\ rx_queue' \in Seq(Segment)
         /\ \A i \in 1 .. Len(rx_queue') :
              \/ \E j \in 1 .. Len(rx_queue) : rx_queue'[i] = rx_queue[j]
              \/ FrameTold(rx_queue'[i], v[rx_queue'[i].handle], next_handle', flow'[rx_queue'[i].handle],
                           socket'[rx_queue'[i].handle], remote'[rx_queue'[i].handle], guest'[rx_queue'[i].key])
    BY <1>1, <2>2, Zenon
  <2> QED  BY <2>6, <2>10, <2>12, <2>13, <2>14, GuestActs
<1> QED  BY <1>3, <1>4

\* A reset ends the flow and tells nothing.
LEMMA ResetFlowTold ==
  ASSUME IInv, NEW w \in [Handle -> Connection], ToldAs(w), NEW k \in Keys, NEW seg,
         NEW d, GuestMoves(guest[k], d), guest' = [guest EXCEPT ![k] = d],
         ResetFlow(k, seg), UNCHANGED remote
  PROVE  Told'
<1> DEFINE h == tcp_by_key[k]
           t == Closed(socket[h])
<1>1. h # None /\ flow' = [flow EXCEPT ![h] = NoFlow] /\ socket' = [socket EXCEPT ![h] = t]
  BY Zenon DEF ResetFlow, EraseFlow
<1>2. rx_queue' = rx_queue /\ next_handle' = next_handle /\ remote' = remote
  BY Zenon DEF ResetFlow
<1>3. h \in Handle /\ h < next_handle
  BY <1>1, BoundIs, Zenon
<1> HIDE DEF h
<1>4. SameReading(socket[h], t)
  BY <1>3, HandleToldIs, OthersReadNothing, Zenon
<1> HIDE DEF t
<1>5. flow'[h] = NoFlow /\ \A i \in Handle : i # h => flow'[i] = flow[i]
  BY <1>1, <1>3, HandleIs, At, Zenon
<1>6. socket'[h] = t /\ \A i \in Handle : i # h => socket'[i] = socket[i]
  BY <1>1, <1>3, HandleIs, At, Zenon
<1>7. FlowTold(h, flow'[h], socket'[h], remote[h], w[h]) /\ Announced(h, next_handle, flow'[h])
  BY <1>3, <1>5, Zenon DEF FlowTold, Announced
<1>8. SameReading(socket[h], socket'[h])
  BY <1>4, <1>6, Zenon
<1> QED  BY <1>2, <1>3, <1>5, <1>6, <1>7, <1>8, GuestOneHandle

\* A flow whose acknowledged segments are forgotten.
LEMMA AcceptedTold ==
  ASSUME NEW f \in Flow, NEW ack, NEW takes \in BOOLEAN, NEW h, NEW v, PendingTold(h, f, v)
  PROVE  LET g == AcceptedFlow(f, ack, takes)
         IN  /\ g \in Flow /\ PendingTold(h, g, v)
             /\ g.key = f.key /\ g.isn = f.isn /\ g.established = f.established /\ g.our_next_seq = f.our_next_seq
<1> DEFINE P == {p \in Pending : /\ SegmentOfConnection(p.raw, v) /\ p.raw.handle = h /\ p.raw.kind # "fin"}
           places == {i \in DOMAIN f.unacked : f.unacked[i].seq_end > ack}
           u == Selected(f.unacked, places)
           n == IF takes THEN f.guest_next_seq + 1 ELSE f.guest_next_seq
           e == Acked(f, ack)
           g == AcceptedFlow(f, ack, takes)
<1>1. /\ DOMAIN f = FlowFields /\ f.unacked \in Seq(Pending) /\ f.guest_next_seq \in Nat
      /\ f.key \in Keys /\ f.isn \in Nat /\ f.our_next_seq \in Nat /\ f.established \in BOOLEAN
  BY FlowIs, Zenon
<1>2. u \in Seq(P)
  <2>1. Len(f.unacked) \in Nat /\ \A i \in 1 .. Len(f.unacked) : f.unacked[i] \in Pending
    BY <1>1, SMT
  <2>2. \A i \in 1 .. Len(f.unacked) : i \in places => f.unacked[i] \in P
    BY <2>1, Zenon DEF PendingTold
  <2> HIDE DEF P, places
  <2> QED  BY <2>1, <2>2, SelectedIs
<1>3. e = [f EXCEPT !.unacked = u]
  BY Zenon DEF Acked
<1>4. n \in Nat
  BY <1>1, SMT
<1>5. u \in Seq(Pending) /\ \A i \in 1 .. Len(u) : u[i] \in P
  <2>1. P \subseteq Pending
    BY Zenon
  <2> HIDE DEF P, u
  <2> QED  BY <1>2, <2>1, SMT
<1> HIDE DEF u, places
<1>6. /\ DOMAIN e = FlowFields /\ e.key = f.key /\ e.isn = f.isn /\ e.established = f.established
      /\ e.our_next_seq = f.our_next_seq /\ e.guest_next_seq = f.guest_next_seq /\ e.unacked = u
  <2> HIDE DEF e
  <2> QED  BY <1>1, <1>3, SMT DEF FlowFields
<1>7. g = [e EXCEPT !.guest_next_seq = n]
  <2>1. g = [e EXCEPT !.guest_next_seq = IF takes THEN e.guest_next_seq + 1 ELSE e.guest_next_seq]
    BY Zenon DEF AcceptedFlow
  <2> HIDE DEF e, g
  <2> QED  BY <1>6, <2>1, Zenon
<1>8. e \in Flow
  <2> HIDE DEF e
  <2> QED  BY <1>3, <1>5, Zenon DEF Flow
<1> HIDE DEF e, g, n
<1>9. g \in Flow
  BY <1>4, <1>7, <1>8, Zenon DEF Flow
<1>10. /\ g.key = e.key /\ g.isn = e.isn /\ g.established = e.established
       /\ g.our_next_seq = e.our_next_seq /\ g.unacked = e.unacked
  BY <1>6, <1>7, SMT DEF FlowFields
<1>11. PendingTold(h, g, v)
  BY <1>5, <1>6, <1>10, Zenon DEF PendingTold
<1> QED  BY <1>6, <1>9, <1>10, <1>11, Zenon DEF g

\* wpb_net_tcp_send, then wpb_net_tcp_close, read nothing.
LEMMA SentThenClosed ==
  ASSUME NEW s \in SocketType(GuestByte), NEW b
  PROVE  SameReading(s, Closed(Sent(s, b)))
<1>1. DOMAIN s = SocketFields
  BY SocketFieldsAre, Zenon
<1>2. \A a : DOMAIN a = SocketFields => SameReading(a, Closed(a))
  BY SMT DEF SameReading, Closed, SocketFields
<1>3. \A a : DOMAIN a = SocketFields => DOMAIN Flushed(a) = SocketFields
  BY SMT DEF Flushed, SocketFields
<1>4. DOMAIN Sent(s, b) = SocketFields
  <2> DEFINE q == [s EXCEPT !.write_queue = Append(@, b), !.writing = TRUE]
  <2>1. DOMAIN q = SocketFields
    BY <1>1, SMT DEF SocketFields
  <2>2. Sent(s, b) = s \/ Sent(s, b) = q \/ Sent(s, b) = Flushed(q)
    BY Zenon DEF Sent
  <2> HIDE DEF q
  <2> QED  BY <1>1, <1>3, <2>1, <2>2, Zenon
<1>5. SameReading(s, Sent(s, b))
  BY OthersReadNothing, Zenon
<1> QED  BY <1>2, <1>4, <1>5, Zenon DEF SameReading

\* A segment of an established flow: the guest that ends the flow has left it.
LEMMA AcceptSegmentTold ==
  ASSUME IInv, NEW w \in [Handle -> Connection], ToldAs(w), NEW k \in Keys, NEW seg,
         NEW d, GuestMoves(guest[k], d), guest' = [guest EXCEPT ![k] = d], SegmentOfGuest(seg, d),
         AcceptSegment(k, seg), UNCHANGED remote
  PROVE  Told'
<1> DEFINE h == tcp_by_key[k]
           f == flow[h]
           takes == InOrder(f, seg) /\ seg.byte # None
           ends == InOrder(f, seg) /\ seg.fin
           now == IF takes THEN Sent(socket[h], seg.byte) ELSE socket[h]
           goes == AcceptedFlow(f, seg.ack, takes)
           x == SegmentOf(h, "fin", None)
<1>1. h # None /\ f.established /\ next_handle' = next_handle
  BY Zenon DEF AcceptSegment
<1>2. h \in Handle /\ f # NoFlow /\ f.key = k /\ h < next_handle
  BY <1>1, BoundIs, Zenon
<1>3. ends => /\ rx_queue' = Append(rx_queue, x) /\ flow' = [flow EXCEPT ![h] = NoFlow]
              /\ socket' = [socket EXCEPT ![h] = Closed(now)]
  BY Zenon DEF AcceptSegment, EraseFlow
<1>4. ~ends => rx_queue' = rx_queue /\ flow' = [flow EXCEPT ![h] = goes] /\ socket' = [socket EXCEPT ![h] = now]
  BY Zenon DEF AcceptSegment, AcceptedFlow
<1>5. ends => d.state = "finished"
  BY Zenon DEF SegmentOfGuest
<1>6. takes \in BOOLEAN
  BY Zenon
<1> HIDE DEF h
<1>7. /\ w[h] \in Connection /\ HandleTold(h, w[h], f, socket[h], remote[h])
      /\ f \in Flow /\ f.key = w[h].key /\ f.isn = w[h].isn /\ socket[h] \in SocketType(GuestByte)
  BY <1>2, HandleToldIs, Zenon
<1>8. SameReading(socket[h], now) /\ SameReading(socket[h], Closed(now))
  <2>1. CASE takes
    <3>1. now = Sent(socket[h], seg.byte)
      BY <2>1, Zenon
    <3> HIDE DEF now
    <3> QED  BY <1>7, <3>1, OthersReadNothing, SentThenClosed, Zenon
  <2>2. CASE ~takes
    <3>1. now = socket[h]
      BY <2>2, Zenon
    <3> HIDE DEF now
    <3> QED  BY <1>7, <3>1, OthersReadNothing, Zenon DEF SameReading
  <2> QED  BY <2>1, <2>2
<1>9. x \in Segment /\ SegmentOfConnection(x, w[h]) /\ x.handle = h /\ x.kind = "fin" /\ x.key = f.key /\ x.isn = f.isn
  <2>1. "fin" \in {"synack", "data", "fin", "rst"} /\ "fin" # "data"
    BY SMT
  <2>2. None \in {None} \cup RemoteByte
    BY Zenon
  <2> QED  BY <1>2, <1>7, <2>1, <2>2, SegmentOfIs
<1> HIDE DEF takes, ends, now, x
<1>10. CASE ends
  <2>1. flow'[h] = NoFlow /\ \A i \in Handle : i # h => flow'[i] = flow[i]
    BY <1>2, <1>3, <1>10, HandleIs, At, Zenon
  <2>2. socket'[h] = Closed(now) /\ \A i \in Handle : i # h => socket'[i] = socket[i]
    BY <1>2, <1>3, <1>10, HandleIs, At, Zenon
  <2>3. FlowTold(h, flow'[h], socket'[h], remote[h], w[h]) /\ Announced(h, next_handle, flow'[h])
    BY <1>2, <2>1, Zenon DEF FlowTold, Announced
  <2>4. Left(guest'[x.key], x.isn)
    <3>1. guest'[k] = d
      <4>1. DOMAIN guest = Keys
        BY ToldIs, Zenon
      <4> QED  BY <4>1, At, Zenon
    <3>2. d.state \in {"closed", "finished"}
      BY <1>5, <1>10, Zenon
    <3> QED  BY <1>2, <1>9, <3>1, <3>2, Zenon DEF Left
  <2>5. FrameTold(x, w[h], next_handle, flow'[h], socket'[h], remote[h], guest'[x.key])
    <3>1. x.kind # "synack"
      BY <1>9, SMT
    <3> QED  BY <1>9, <2>3, <2>4, <3>1, Zenon DEF FrameTold
  <2>6. SameReading(socket[h], socket'[h]) /\ remote' = remote
    BY <1>8, <2>2, Zenon
  <2>7. \E y \in Segment :
          /\ rx_queue' = Append(rx_queue, y) /\ y.handle = h
          /\ FrameTold(y, w[h], next_handle, flow'[h], socket'[h], remote[h], guest'[y.key])
    BY <1>3, <1>9, <1>10, <2>5, Zenon
  <2> QED  BY <1>1, <1>2, <2>1, <2>2, <2>3, <2>6, <2>7, GuestOneHandle
<1>11. CASE ~ends
  <2>1. PendingTold(h, f, w[h])
    BY <1>2, <1>7, Zenon DEF HandleTold, FlowTold
  <2>2. /\ goes \in Flow /\ PendingTold(h, goes, w[h]) /\ goes.key = f.key /\ goes.isn = f.isn
        /\ goes.established = f.established /\ goes.our_next_seq = f.our_next_seq
    <3> HIDE DEF f
    <3> QED  BY <1>6, <1>7, <2>1, AcceptedTold
  <2> HIDE DEF goes
  <2>3. flow'[h] = goes /\ \A i \in Handle : i # h => flow'[i] = flow[i]
    BY <1>2, <1>4, <1>11, HandleIs, At, Zenon
  <2>4. socket'[h] = now /\ \A i \in Handle : i # h => socket'[i] = socket[i]
    BY <1>2, <1>4, <1>11, HandleIs, At, Zenon
  <2>5. FlowNumbered(goes, now, remote[h], w[h])
    <3>1. FlowNumbered(f, socket[h], remote[h], w[h])
      BY <1>2, <1>7, Zenon DEF HandleTold, FlowTold
    <3> HIDE DEF f
    <3> QED  BY <1>1, <1>8, <2>2, <3>1, Zenon DEF FlowNumbered, SameReading
  <2>6. FlowTold(h, flow'[h], socket'[h], remote[h], w[h]) /\ Announced(h, next_handle, flow'[h])
    BY <1>1, <1>2, <1>7, <2>2, <2>3, <2>4, <2>5, Zenon DEF FlowTold, Announced
  <2>7. SameReading(socket[h], socket'[h]) /\ rx_queue' = rx_queue /\ remote' = remote
    BY <1>4, <1>8, <1>11, <2>4, Zenon
  <2> QED  BY <1>1, <1>2, <2>3, <2>4, <2>6, <2>7, GuestOneHandle
<1> QED  BY <1>10, <1>11

\* handle_tcp when the guest moves.
LEMMA HandleTcpTold ==
  ASSUME IInv, ConstantsOK, NEW w \in [Handle -> Connection], ToldAs(w), NEW k \in Keys, NEW seg,
         NEW d, GuestMoves(guest[k], d), guest' = [guest EXCEPT ![k] = d], SegmentOfGuest(seg, d),
         handle_tcp(k, seg)
  PROVE  Told'
<1>1. UNCHANGED remote
  BY Zenon DEF handle_tcp
<1>2. CASE OpenFlow(k, seg)
  BY <1>1, <1>2, OpenFlowTold
<1>3. CASE ResetFlow(k, seg)
  BY <1>1, <1>3, ResetFlowTold
<1>4. CASE IgnoreSegment(k, seg)
  <2> DEFINE h == tcp_by_key[k]
  <2>1. h # None /\ UNCHANGED <<flow, socket, rx_queue, next_handle>>
    BY <1>4, Zenon DEF IgnoreSegment, nat
  <2>2. h \in Handle
    BY <2>1, BoundIs, Zenon
  <2> HIDE DEF h
  <2>3. \A i \in Handle : i # h => flow'[i] = flow[i] /\ socket'[i] = socket[i]
    BY <2>1, Zenon
  <2>4. SameReading(socket[h], socket'[h])
    BY <2>1, Zenon DEF SameReading
  <2>5. FlowTold(h, flow'[h], socket'[h], remote[h], w[h])
    BY <2>1, <2>2, HandleToldIs, Zenon DEF HandleTold
  <2>6. Announced(h, next_handle, flow[h]) => Announced(h, next_handle, flow'[h])
    BY <2>1, Zenon
  <2> QED  BY <1>1, <2>1, <2>2, <2>3, <2>4, <2>5, <2>6, GuestOneHandle
<1>5. CASE AcceptSegment(k, seg)
  BY <1>1, <1>5, AcceptSegmentTold
<1> QED  BY <1>2, <1>3, <1>4, <1>5, Zenon DEF handle_tcp

\* What the guest's own actions make of its end.
LEMMA GuestMovesOn ==
  ASSUME ConstantsOK, NEW g \in GuestType
  PROVE  /\ GuestMoves(g, g)
         /\ \A b \in GuestByte : GuestMoves(g, [g EXCEPT !.sent = IF b > @ THEN b ELSE @])
         /\ GuestMoves(g, [g EXCEPT !.state = "finished"])
         /\ GuestMoves(g, [g EXCEPT !.state = "closed", !.handle = None])
         /\ GuestMoves(g, [state |-> "connecting", isn |-> g.isn + 1, handle |-> None,
                           sent |-> 0, got |-> <<>>, ended |-> FALSE])
<1>1. /\ DOMAIN g = {"state", "isn", "handle", "sent", "got", "ended"}
      /\ g.isn \in Nat /\ g.sent \in 0 .. MaxGuest /\ g.got \in Seq(RemoteByte)
  BY SMT DEF GuestType
<1>2. /\ "finished" \in {"closed", "connecting", "open", "finished"}
      /\ "closed" \in {"closed", "connecting", "open", "finished"}
      /\ "connecting" \in {"closed", "connecting", "open", "finished"}
      /\ "finished" # "open" /\ "finished" # "connecting" /\ "closed" # "open" /\ "closed" # "connecting"
      /\ "connecting" # "open"
      /\ "finished" \in {"closed", "finished"} /\ "closed" \in {"closed", "finished"}
      /\ <<>> \in Seq(RemoteByte)
  BY SMT
<1>3. g.isn <= g.isn /\ g.isn + 1 \in Nat /\ g.isn <= g.isn + 1 /\ \A a \in Nat : a <= g.isn => g.isn + 1 > a
  BY <1>1, SMT
<1>4. GuestMoves(g, g)
  <2> DEFINE d == g
  <2>1. GuestMoves(g, d)
    <3>1. ASSUME NEW k, NEW v, NEW n, NEW f, NEW s, NEW r, NEW c, NEW m, NEW e, NEW t, NEW q,
                 GuestTold(k, g, v, n, f, s, r), d.handle # None => c = v /\ m = n /\ e = f /\ t = s /\ q = r
          PROVE  GuestTold(k, d, c, m, e, t, q)
      <4>1. CASE d.handle = None
        BY <3>1, <4>1, <1>2, Zenon DEF GuestTold
      <4>2. CASE d.handle # None
        BY <3>1, <4>2, <1>2, Zenon DEF GuestTold
      <4> QED  BY <4>1, <4>2
    <3> QED  BY <3>1, StayOnward DEF GuestMoves
  <2> QED  BY <2>1
<1>5. ASSUME NEW b \in GuestByte PROVE GuestMoves(g, [g EXCEPT !.sent = IF b > @ THEN b ELSE @])
  <2> DEFINE high == IF b > g.sent THEN b ELSE g.sent
             d == [g EXCEPT !.sent = high]
  <2>1. high \in 0 .. MaxGuest
    BY <1>1, SMT DEF GuestByte, ConstantsOK
  <2> HIDE DEF high
  <2>2. d \in GuestType
    BY <2>1, Zenon DEF GuestType
  <2>3. d.state = g.state /\ d.isn = g.isn /\ d.handle = g.handle /\ d.got = g.got /\ d.ended = g.ended
    BY <1>1, SMT
  <2> HIDE DEF d
  <2>4. GuestOnward(g, d)
    BY <1>3, <2>3, Zenon DEF GuestOnward, Left
  <2>5. GuestMoves(g, d)
    <3>1. ASSUME NEW k, NEW v, NEW n, NEW f, NEW s, NEW r, NEW c, NEW m, NEW e, NEW t, NEW q,
                 GuestTold(k, g, v, n, f, s, r), d.handle # None => c = v /\ m = n /\ e = f /\ t = s /\ q = r
          PROVE  GuestTold(k, d, c, m, e, t, q)
      <4>1. CASE d.handle = None
        BY <3>1, <4>1, <2>3, Zenon DEF GuestTold
      <4>2. CASE d.handle # None
        BY <3>1, <4>2, <2>3, Zenon DEF GuestTold
      <4> QED  BY <4>1, <4>2
    <3> QED  BY <2>2, <2>3, <2>4, <3>1 DEF GuestMoves
  <2> QED  BY <2>5 DEF d, high
<1>6. GuestMoves(g, [g EXCEPT !.state = "finished"])
  <2> DEFINE d == [g EXCEPT !.state = "finished"]
  <2>1. d \in GuestType
    BY <1>2, Zenon DEF GuestType
  <2>2. d.state = "finished" /\ d.isn = g.isn /\ d.handle = g.handle /\ d.got = g.got /\ d.ended = g.ended
    BY <1>1, SMT
  <2> HIDE DEF d
  <2>3. GuestOnward(g, d)
    BY <1>2, <1>3, <2>2, Zenon DEF GuestOnward, Left
  <2>4. GuestMoves(g, d)
    <3>1. ASSUME NEW k, NEW v, NEW n, NEW f, NEW s, NEW r, NEW c, NEW m, NEW e, NEW t, NEW q,
                 GuestTold(k, g, v, n, f, s, r), d.handle # None => c = v /\ m = n /\ e = f /\ t = s /\ q = r
          PROVE  GuestTold(k, d, c, m, e, t, q)
      <4>1. CASE d.handle = None
        BY <3>1, <4>1, <1>2, <2>2, Zenon DEF GuestTold
      <4>2. CASE d.handle # None
        BY <3>1, <4>2, <1>2, <2>2, Zenon DEF GuestTold
      <4> QED  BY <4>1, <4>2
    <3> QED  BY <2>1, <2>2, <2>3, <3>1 DEF GuestMoves
  <2> QED  BY <2>4 DEF d
<1>7. GuestMoves(g, [g EXCEPT !.state = "closed", !.handle = None])
  <2> DEFINE d == [g EXCEPT !.state = "closed", !.handle = None]
  <2>1. d \in GuestType
    BY <1>2, Zenon DEF GuestType
  <2>2. d.state = "closed" /\ d.isn = g.isn /\ d.handle = None /\ d.got = g.got /\ d.ended = g.ended
    BY <1>1, SMT
  <2> HIDE DEF d
  <2>3. GuestOnward(g, d)
    BY <1>2, <1>3, <2>2, Zenon DEF GuestOnward, Left
  <2>4. GuestMoves(g, d)
    <3>1. ASSUME NEW k, NEW v, NEW n, NEW f, NEW s, NEW r, NEW c, NEW m, NEW e, NEW t, NEW q,
                 GuestTold(k, g, v, n, f, s, r), d.handle # None => c = v /\ m = n /\ e = f /\ t = s /\ q = r
          PROVE  GuestTold(k, d, c, m, e, t, q)
      BY <3>1, <1>2, <2>2, Zenon DEF GuestTold
    <3> QED  BY <2>1, <2>2, <2>3, <3>1 DEF GuestMoves
  <2> QED  BY <2>4 DEF d
<1>8. GuestMoves(g, [state |-> "connecting", isn |-> g.isn + 1, handle |-> None,
                     sent |-> 0, got |-> <<>>, ended |-> FALSE])
  <2> DEFINE d == [state |-> "connecting", isn |-> g.isn + 1, handle |-> None,
                   sent |-> 0, got |-> <<>>, ended |-> FALSE]
  <2>1. d \in GuestType
    <3>1. 0 \in 0 .. MaxGuest
      BY SMT DEF ConstantsOK
    <3> QED  BY <1>2, <1>3, <3>1, Zenon DEF GuestType
  <2>2. d.state = "connecting" /\ d.isn = g.isn + 1 /\ d.handle = None /\ d.got = <<>> /\ ~d.ended
    BY Zenon
  <2> HIDE DEF d
  <2>3. GuestOnward(g, d)
    BY <1>3, <2>2, Zenon DEF GuestOnward, Left
  <2>5. GuestMoves(g, d)
    <3>1. ASSUME NEW k, NEW v, NEW n, NEW f, NEW s, NEW r, NEW c, NEW m, NEW e, NEW t, NEW q,
                 GuestTold(k, g, v, n, f, s, r), d.handle # None => c = v /\ m = n /\ e = f /\ t = s /\ q = r
          PROVE  GuestTold(k, d, c, m, e, t, q)
      BY <3>1, <1>2, <2>2, Zenon DEF GuestTold
    <3> QED  BY <2>1, <2>2, <2>3, <3>1 DEF GuestMoves
  <2> QED  BY <2>5 DEF d
<1> QED  BY <1>4, <1>5, <1>6, <1>7, <1>8

\* The fields of a segment of the guest.
LEMMA PlainIs ==
  ASSUME NEW k, NEW b, NEW n
  PROVE  /\ Plain(k).isn = guest[k].isn /\ ~Plain(k).fin
         /\ [Plain(k) EXCEPT !.syn = TRUE].isn = guest[k].isn /\ ~[Plain(k) EXCEPT !.syn = TRUE].fin
         /\ [Plain(k) EXCEPT !.syn = TRUE, !.isn = n].isn = n /\ ~[Plain(k) EXCEPT !.syn = TRUE, !.isn = n].fin
         /\ [Plain(k) EXCEPT !.seq = b, !.byte = b].isn = guest[k].isn /\ ~[Plain(k) EXCEPT !.seq = b, !.byte = b].fin
         /\ [Plain(k) EXCEPT !.seq = n, !.fin = TRUE].isn = guest[k].isn
         /\ [Plain(k) EXCEPT !.rst = TRUE].isn = guest[k].isn /\ ~[Plain(k) EXCEPT !.rst = TRUE].fin
<1>1. DOMAIN Plain(k) = {"isn", "seq", "ack", "byte", "syn", "fin", "rst"}
  BY SMT DEF Plain
<1>2. Plain(k).isn = guest[k].isn /\ ~Plain(k).fin
  BY Zenon DEF Plain
<1> QED  BY <1>1, <1>2, SMT

\* The guest's actions.
LEMMA GuestActionsTold ==
  ASSUME IInv, ConstantsOK, NEW w \in [Handle -> Connection], ToldAs(w), NEW k \in Keys,
         \/ GuestConnects(k) \/ GuestRetriesSyn(k)
         \/ \E b \in GuestByte : GuestSends(k, b)
         \/ GuestAcks(k) \/ GuestFinishes(k) \/ GuestResets(k)
  PROVE  Told'
<1> DEFINE g == guest[k]
<1>1. guest \in [Keys -> GuestType] /\ g \in GuestType
  BY ToldIs, Zenon
<1>2. guest = [guest EXCEPT ![k] = g]
  BY <1>1, Zenon
<1> HIDE DEF g
<1>3. /\ GuestMoves(g, g)
      /\ \A b \in GuestByte : GuestMoves(g, [g EXCEPT !.sent = IF b > @ THEN b ELSE @])
      /\ GuestMoves(g, [g EXCEPT !.state = "finished"])
      /\ GuestMoves(g, [g EXCEPT !.state = "closed", !.handle = None])
      /\ GuestMoves(g, [state |-> "connecting", isn |-> g.isn + 1, handle |-> None,
                        sent |-> 0, got |-> <<>>, ended |-> FALSE])
  BY <1>1, GuestMovesOn
<1>4. DOMAIN g = {"state", "isn", "handle", "sent", "got", "ended"}
  BY <1>1, SMT DEF GuestType
<1>5. CASE GuestConnects(k)
  <2> DEFINE d == [state |-> "connecting", isn |-> g.isn + 1, handle |-> None,
                   sent |-> 0, got |-> <<>>, ended |-> FALSE]
             seg == [Plain(k) EXCEPT !.syn = TRUE, !.isn = @ + 1]
  <2>1. guest' = [guest EXCEPT ![k] = d] /\ handle_tcp(k, seg)
    BY <1>5, Zenon DEF GuestConnects, g
  <2>2. GuestMoves(guest[k], d)
    BY <1>3, Zenon DEF g
  <2>3. SegmentOfGuest(seg, d)
    <3>1. seg.isn = g.isn + 1 /\ ~seg.fin
      <4>1. seg = [Plain(k) EXCEPT !.syn = TRUE, !.isn = g.isn + 1]
        BY SMT DEF Plain, g
      <4> HIDE DEF seg
      <4> QED  BY <4>1, PlainIs
    <3>2. d.isn = g.isn + 1
      OBVIOUS
    <3> HIDE DEF seg, d
    <3> QED  BY <3>1, <3>2, Zenon DEF SegmentOfGuest
  <2> HIDE DEF d, seg
  <2> QED  BY <2>1, <2>2, <2>3, HandleTcpTold
<1>6. CASE GuestRetriesSyn(k)
  <2> DEFINE seg == [Plain(k) EXCEPT !.syn = TRUE]
  <2>1. guest' = [guest EXCEPT ![k] = g] /\ handle_tcp(k, seg)
    BY <1>2, <1>6, Zenon DEF GuestRetriesSyn
  <2>2. GuestMoves(guest[k], g) /\ SegmentOfGuest(seg, g)
    BY <1>3, PlainIs, Zenon DEF g, SegmentOfGuest
  <2> HIDE DEF seg
  <2> QED  BY <2>1, <2>2, HandleTcpTold
<1>7. ASSUME NEW b \in GuestByte, GuestSends(k, b) PROVE Told'
  <2> DEFINE d == [g EXCEPT !.sent = IF b > @ THEN b ELSE @]
             seg == [Plain(k) EXCEPT !.seq = b, !.byte = b]
  <2>1. guest' = [guest EXCEPT ![k] = d] /\ handle_tcp(k, seg)
    BY <1>7, Zenon DEF GuestSends, g
  <2>2. GuestMoves(guest[k], d)
    BY <1>3, Zenon DEF g
  <2>3. SegmentOfGuest(seg, d)
    <3>1. d.isn = g.isn
      BY <1>4, SMT
    <3> HIDE DEF d
    <3> QED  BY <3>1, PlainIs, Zenon DEF g, SegmentOfGuest
  <2> HIDE DEF d, seg
  <2> QED  BY <2>1, <2>2, <2>3, HandleTcpTold
<1>8. CASE GuestAcks(k)
  <2>1. guest' = [guest EXCEPT ![k] = g] /\ handle_tcp(k, Plain(k))
    BY <1>2, <1>8, Zenon DEF GuestAcks
  <2>2. GuestMoves(guest[k], g) /\ SegmentOfGuest(Plain(k), g)
    BY <1>3, PlainIs, Zenon DEF g, SegmentOfGuest
  <2> QED  BY <2>1, <2>2, HandleTcpTold
<1>9. CASE GuestFinishes(k)
  <2> DEFINE d == [g EXCEPT !.state = "finished"]
             seg == [Plain(k) EXCEPT !.seq = guest[k].sent + 1, !.fin = TRUE]
  <2>1. guest' = [guest EXCEPT ![k] = d] /\ handle_tcp(k, seg)
    BY <1>9, Zenon DEF GuestFinishes, g
  <2>2. GuestMoves(guest[k], d)
    BY <1>3, Zenon DEF g
  <2>3. SegmentOfGuest(seg, d)
    <3>1. d.isn = g.isn /\ d.state = "finished"
      BY <1>4, SMT
    <3> HIDE DEF d
    <3> QED  BY <3>1, PlainIs, Zenon DEF g, SegmentOfGuest
  <2> HIDE DEF d, seg
  <2> QED  BY <2>1, <2>2, <2>3, HandleTcpTold
<1>10. CASE GuestResets(k)
  <2> DEFINE d == [g EXCEPT !.state = "closed", !.handle = None]
             seg == [Plain(k) EXCEPT !.rst = TRUE]
  <2>1. guest' = [guest EXCEPT ![k] = d] /\ handle_tcp(k, seg)
    <3>1. guest' = [guest EXCEPT ![k].state = "closed", ![k].handle = None] /\ handle_tcp(k, seg)
      BY <1>10, Zenon DEF GuestResets
    <3>2. DOMAIN guest = Keys
      BY <1>1, Zenon
    <3>3. [guest EXCEPT ![k].state = "closed", ![k].handle = None] = [guest EXCEPT ![k] = d]
      <4>1. guest[k] = g
        BY DEF g
      <4> QED  BY <3>2, <4>1, Zenon
    <3> QED  BY <3>1, <3>3, Zenon
  <2>2. GuestMoves(guest[k], d)
    BY <1>3, Zenon DEF g
  <2>3. SegmentOfGuest(seg, d)
    <3>1. d.isn = g.isn
      BY <1>4, SMT
    <3> HIDE DEF d
    <3> QED  BY <3>1, PlainIs, Zenon DEF g, SegmentOfGuest
  <2> HIDE DEF d, seg
  <2> QED  BY <2>1, <2>2, <2>3, HandleTcpTold
<1> QED  BY <1>5, <1>6, <1>7, <1>8, <1>9, <1>10

\* What the guest's TCP makes of a segment, case by case.
LEMMA ReceivedIs ==
  ASSUME NEW g, NEW x
  PROVE  \/ /\ x.kind = "synack" /\ g.state = "connecting" /\ x.isn = g.isn
            /\ Received(g, x) = [g EXCEPT !.state = "open", !.handle = x.handle]
         \/ /\ x.kind = "data" /\ g.handle = x.handle /\ x.seq = rcv_nxt(g) /\ ~g.ended
            /\ Received(g, x) = [g EXCEPT !.got = Append(@, x.byte)]
         \/ /\ x.kind = "fin" /\ g.handle = x.handle /\ x.seq = rcv_nxt(g) /\ ~g.ended
            /\ Received(g, x) = [g EXCEPT !.ended = TRUE]
         \/ /\ x.kind = "rst" /\ x.isn = g.isn
            /\ Received(g, x) = [g EXCEPT !.state = "closed", !.handle = None]
         \/ Received(g, x) = g
  BY Zenon DEF Received

\* The guest o that has received frames is d: it has not begun a connection.
StillOn(o, d) == d.isn = o.isn /\ (o.state \in {"closed", "finished"} => d.state \in {"closed", "finished"})

\* A guest reads a frame it may be told.
LEMMA ReceivedTold ==
  ASSUME NEW w \in [Handle -> Connection], NEW m, NEW e, NEW t, NEW q, NEW k \in Keys, NEW o, NEW d \in GuestType,
         GuestTold(k, d, w[d.handle], m, e[d.handle], t[d.handle], q[d.handle]), StillOn(o, d),
         NEW x, x.key = k, FrameTold(x, w[x.handle], m, e[x.handle], t[x.handle], q[x.handle], o)
  PROVE  LET g == Received(d, x)
         IN  /\ g \in GuestType /\ StillOn(o, g)
             /\ GuestTold(k, g, w[g.handle], m, e[g.handle], t[g.handle], q[g.handle])
<1> DEFINE g == Received(d, x)
           v == w[x.handle]
           s == t[x.handle]
           r == q[x.handle]
<1>1. /\ DOMAIN d = {"state", "isn", "handle", "sent", "got", "ended"}
      /\ d.isn \in Nat /\ d.got \in Seq(RemoteByte) /\ Len(d.got) \in Nat
  BY SMT DEF GuestType
<1>2. x \in Segment /\ x.isn = v.isn /\ v.key = k /\ Announced(x.handle, m, e[x.handle])
  BY Zenon DEF FrameTold, SegmentOfConnection
<1>3. x.handle \in Handle /\ x.isn \in Nat /\ x.seq \in Nat
  BY <1>2, SegmentIs, Zenon
<1>4. x.handle # None
  BY <1>3, SMT DEF Handle, None
<1>5. v \in Connection /\ v.skipped \in Nat
  BY <1>3, Zenon DEF Connection
<1>6. /\ "open" \in {"closed", "connecting", "open", "finished"}
      /\ "closed" \in {"closed", "connecting", "open", "finished"}
      /\ "closed" # "open" /\ "closed" # "connecting" /\ "open" # "connecting"
      /\ "closed" \in {"closed", "finished"} /\ "open" \notin {"closed", "finished"}
      /\ "connecting" \notin {"closed", "finished"}
  BY SMT
<1>7. CASE /\ x.kind = "synack" /\ d.state = "connecting" /\ x.isn = d.isn
           /\ g = [d EXCEPT !.state = "open", !.handle = x.handle]
  <2> HIDE DEF g, v, s, r
  <2>1. g \in GuestType
    BY <1>3, <1>6, <1>7, Zenon DEF GuestType
  <2>2. g.state = "open" /\ g.handle = x.handle /\ g.isn = d.isn /\ g.got = d.got /\ g.ended = d.ended
    BY <1>1, <1>7, SMT
  <2>3. d.got = <<>> /\ ~d.ended /\ v.skipped = r.early
    BY <1>7, Zenon DEF GuestTold, FrameTold, v, r
  <2>4. \A i \in 1 .. Len(d.got) : FALSE
    BY <2>3, SMT
  <2>5. StillOn(o, g)
    BY <1>6, <1>7, <2>2, Zenon DEF StillOn
  <2>6. GuestTold(k, g, v, m, e[x.handle], s, r)
    BY <1>2, <1>4, <1>6, <1>7, <2>2, <2>3, <2>4, Zenon DEF GuestTold
  <2> QED  BY <2>1, <2>2, <2>5, <2>6, Zenon DEF g, v, s, r
<1>8. CASE /\ x.kind = "data" /\ d.handle = x.handle /\ x.seq = rcv_nxt(d) /\ ~d.ended
           /\ g = [d EXCEPT !.got = Append(@, x.byte)]
  <2> DEFINE got == Append(d.got, x.byte)
  <2>1. x.byte = x.seq + v.skipped /\ x.byte \in RemoteByte
    BY <1>8, Zenon DEF FrameTold, SegmentOfConnection
  <2>2. x.seq = 1 + Len(d.got)
    <3>1. x.seq = 1 + Len(d.got) + 0
      BY <1>8, Zenon DEF rcv_nxt
    <3> QED  BY <1>1, <3>1, SMT
  <2>3. \A i \in 1 .. Len(d.got) : d.got[i] = i + v.skipped
    BY <1>4, <1>8, Zenon DEF GuestTold
  <2> HIDE DEF g, v, s, r
  <2>4. /\ got \in Seq(RemoteByte) /\ Len(got) = Len(d.got) + 1
        /\ \A i \in 1 .. Len(got) : got[i] = i + v.skipped
    <3>1. got \in Seq(RemoteByte) /\ Len(got) = Len(d.got) + 1 /\ got[Len(d.got) + 1] = x.byte
          /\ \A i \in 1 .. Len(d.got) : got[i] = d.got[i]
      BY <1>1, <2>1, SMT
    <3>2. x.byte = Len(d.got) + 1 + v.skipped
      BY <1>1, <1>5, <2>1, <2>2, SMT
    <3>3. \A i \in 1 .. Len(d.got) + 1 : i \in 1 .. Len(d.got) \/ i = Len(d.got) + 1
      BY <1>1, SMT
    <3> HIDE DEF got
    <3> QED  BY <2>3, <3>1, <3>2, <3>3, Zenon
  <2>6. g = [d EXCEPT !.got = got]
    BY <1>8, Zenon
  <2> HIDE DEF got
  <2>7. g \in GuestType
    BY <2>4, <2>6, Zenon DEF GuestType
  <2>8. g.state = d.state /\ g.handle = d.handle /\ g.isn = d.isn /\ g.got = got /\ g.ended = d.ended
    BY <1>1, <2>6, SMT
  <2>9. StillOn(o, g)
    BY <2>8, Zenon DEF StillOn
  <2>10. GuestTold(k, g, v, m, e[x.handle], s, r)
    <3>1. d.state # "connecting" /\ (d.state = "open" => d.handle # None)
      BY <1>4, <1>8, Zenon DEF GuestTold
    <3>2. v.isn = d.isn /\ v.skipped = r.early
      BY <1>4, <1>8, Zenon DEF GuestTold, v, r
    <3> QED  BY <1>2, <1>4, <1>8, <2>4, <2>8, <3>1, <3>2, Zenon DEF GuestTold
  <2> QED  BY <1>8, <2>7, <2>8, <2>9, <2>10, Zenon DEF g, v, s, r
<1>9. CASE /\ x.kind = "fin" /\ d.handle = x.handle /\ x.seq = rcv_nxt(d) /\ ~d.ended
           /\ g = [d EXCEPT !.ended = TRUE]
  <2>1. x.seq = Len(d.got) + 1
    <3>1. x.seq = 1 + Len(d.got) + 0
      BY <1>9, Zenon DEF rcv_nxt
    <3> QED  BY <1>1, <3>1, SMT
  <2>2. GuestTold(k, d, v, m, e[x.handle], s, r)
    BY <1>9, Zenon
  <2>3. v.isn = d.isn
    BY <1>4, <1>9, <2>2, Zenon DEF GuestTold
  <2>4. Over(s, r, v, Len(d.got) + 1) \/ d.state \in {"closed", "finished"}
    <3>1. Over(s, r, v, x.seq) \/ Left(o, x.isn)
      BY <1>9, Zenon DEF FrameTold
    <3>2. ~(o.isn > x.isn)
      BY <1>1, <1>2, <2>3, SMT DEF StillOn
    <3> HIDE DEF v, s, r
    <3> QED  BY <2>1, <3>1, <3>2, Zenon DEF Left, StillOn
  <2> HIDE DEF g, v, s, r
  <2>5. g \in GuestType
    BY <1>9, Zenon DEF GuestType
  <2>6. g.state = d.state /\ g.handle = d.handle /\ g.isn = d.isn /\ g.got = d.got /\ g.ended
    BY <1>1, <1>9, SMT
  <2>7. StillOn(o, g)
    BY <2>6, Zenon DEF StillOn
  <2>8. GuestTold(k, g, v, m, e[x.handle], s, r)
    <3>1. d.state # "connecting"
      BY <1>4, <1>9, <2>2, Zenon DEF GuestTold
    <3>2. d.state = "open" => Over(s, r, v, Len(d.got) + 1)
      BY <1>6, <2>4, Zenon
    <3> QED  BY <2>2, <2>6, <3>1, <3>2, Zenon DEF GuestTold
  <2> QED  BY <1>9, <2>5, <2>6, <2>7, <2>8, Zenon DEF g, v, s, r
<1>10. CASE x.kind = "rst" /\ x.isn = d.isn /\ g = [d EXCEPT !.state = "closed", !.handle = None]
  <2> HIDE DEF g
  <2>1. g \in GuestType
    BY <1>6, <1>10, Zenon DEF GuestType
  <2>2. g.state = "closed" /\ g.handle = None /\ g.isn = d.isn /\ g.got = d.got
    BY <1>1, <1>10, SMT
  <2>4. StillOn(o, g)
    BY <1>6, <2>2, Zenon DEF StillOn
  <2>5. GuestTold(k, g, w[g.handle], m, e[g.handle], t[g.handle], q[g.handle])
    BY <1>6, <2>2, Zenon DEF GuestTold
  <2> QED  BY <2>1, <2>4, <2>5, Zenon DEF g
<1>11. CASE g = d
  BY <1>11, Zenon
<1> QED  BY <1>7, <1>8, <1>9, <1>10, <1>11, ReceivedIs

\* A flow whose pending segments are counted anew.
LEMMA RecountedTold ==
  ASSUME NEW h, NEW f, f # NoFlow, NEW s, NEW r, NEW v, FlowTold(h, f, s, r, v), NEW u \in Seq(Pending),
         Len(u) = Len(f.unacked), \A i \in 1 .. Len(u) : u[i].raw = f.unacked[i].raw,
         NEW g, g = [f EXCEPT !.unacked = u]
  PROVE  g # NoFlow /\ FlowTold(h, g, s, r, v) /\ \A n : Announced(h, n, f) => Announced(h, n, g)
<1>1. f \in Flow /\ f.key = v.key /\ f.isn = v.isn /\ PendingTold(h, f, v) /\ FlowNumbered(f, s, r, v)
  BY Zenon DEF FlowTold
<1>2. DOMAIN f = FlowFields /\ f.unacked \in Seq(Pending)
  BY <1>1, FlowIs, Zenon
<1>3. /\ g.key = f.key /\ g.isn = f.isn /\ g.established = f.established /\ g.our_next_seq = f.our_next_seq
      /\ g.unacked = u
  BY <1>2, SMT DEF FlowFields
<1>4. g \in Flow
  BY <1>1, Zenon DEF Flow
<1>5. g # NoFlow
  BY <1>4, FlowIs, Zenon
<1>6. PendingTold(h, g, v)
  <2> SUFFICES ASSUME NEW i \in 1 .. Len(u)
               PROVE  SegmentOfConnection(u[i].raw, v) /\ u[i].raw.handle = h /\ u[i].raw.kind # "fin"
    BY <1>3, Zenon DEF PendingTold
  <2>1. i \in 1 .. Len(f.unacked)
    BY Zenon
  <2> QED  BY <1>1, <2>1, Zenon DEF PendingTold
<1>7. f.unacked = <<>> => u = <<>>
  BY <1>2, SMT
<1>8. FlowNumbered(g, s, r, v)
  BY <1>1, <1>3, <1>7, Zenon DEF FlowNumbered
<1>9. FlowTold(h, g, s, r, v)
  BY <1>1, <1>3, <1>4, <1>6, <1>8, Zenon DEF FlowTold
<1>10. \A n : Announced(h, n, f) => Announced(h, n, g)
  BY <1>3, Zenon DEF Announced
<1> QED  BY <1>5, <1>9, <1>10, Zenon

\* What the timer handler makes of a pending segment.
LEMMA OlderIs ==
  ASSUME ConstantsOK, NEW p \in Pending
  PROVE  /\ Older(p) \in Pending /\ Older(p).raw = p.raw
         /\ p.retries < MaxRetries => SentAgain(p) \in Pending /\ SentAgain(p).raw = p.raw
<1>1. /\ DOMAIN p = {"seq_end", "raw", "age", "retries"}
      /\ p.age \in 0 .. RetransmitTicks /\ p.retries \in 0 .. MaxRetries
  BY SMT DEF Pending
<1> DEFINE a == IF p.age < RetransmitTicks THEN p.age + 1 ELSE p.age
           n == p.retries + 1
<1>2. Older(p) = [p EXCEPT !.age = a] /\ SentAgain(p) = [p EXCEPT !.age = 0, !.retries = n]
  BY Zenon DEF Older, SentAgain
<1>3. a \in 0 .. RetransmitTicks /\ 0 \in 0 .. RetransmitTicks /\ (p.retries < MaxRetries => n \in 0 .. MaxRetries)
  BY <1>1, SMT DEF ConstantsOK
<1> HIDE DEF a, n
<1>4. Older(p) \in Pending /\ (p.retries < MaxRetries => SentAgain(p) \in Pending)
  BY <1>2, <1>3, Zenon DEF Pending
<1>5. Older(p).raw = p.raw /\ SentAgain(p).raw = p.raw
  BY <1>1, <1>2, SMT
<1> QED  BY <1>4, <1>5

\* Pending segments whose counts are changed.
LEMMA PendingAgain ==
  ASSUME NEW q \in Seq(Pending), NEW u, DOMAIN u = DOMAIN q, u = [i \in DOMAIN q |-> u[i]],
         \A i \in DOMAIN q : u[i] \in Pending /\ u[i].raw = q[i].raw
  PROVE  u \in Seq(Pending) /\ Len(u) = Len(q) /\ \A i \in 1 .. Len(u) : u[i].raw = q[i].raw
<1>1. DOMAIN q = 1 .. Len(q) /\ Len(q) \in Nat
  BY SMT
<1>2. u \in [1 .. Len(q) -> Pending]
  BY <1>1, Zenon
<1>3. u \in Seq(Pending) /\ Len(u) = Len(q)
  BY <1>1, <1>2, SMT
<1> QED  BY <1>1, <1>3, Zenon

\* A flow whose pending segments are a tick older.
Aged(f) == [f EXCEPT !.unacked = [i \in DOMAIN @ |-> Older(@[i])]]

\* That is all that is changed.
LEMMA AgedTold ==
  ASSUME ConstantsOK, NEW h, NEW f, f # NoFlow, NEW s, NEW r, NEW v, FlowTold(h, f, s, r, v)
  PROVE  /\ Aged(f) # NoFlow /\ FlowTold(h, Aged(f), s, r, v)
         /\ \A n : Announced(h, n, f) => Announced(h, n, Aged(f))
<1> DEFINE q == f.unacked
           u == [i \in DOMAIN q |-> Older(q[i])]
<1>1. q \in Seq(Pending)
  <2>1. f \in Flow
    BY Zenon DEF FlowTold
  <2> QED  BY <2>1, FlowIs, Zenon
<1>2. \A i \in DOMAIN q : q[i] \in Pending
  BY <1>1, SMT
<1>3. \A i \in DOMAIN q : u[i] \in Pending /\ u[i].raw = q[i].raw
  BY <1>2, OlderIs, Zenon
<1>4. Aged(f) = [f EXCEPT !.unacked = u]
  BY Zenon DEF Aged
<1>5. DOMAIN u = DOMAIN q /\ u = [i \in DOMAIN q |-> u[i]]
  BY Zenon
<1> HIDE DEF u
<1>6. u \in Seq(Pending) /\ Len(u) = Len(q) /\ \A i \in 1 .. Len(u) : u[i].raw = q[i].raw
  BY <1>1, <1>3, <1>5, PendingAgain
<1> QED  BY <1>4, <1>6, RecountedTold

\* Nor more when some are sent again.
LEMMA ResentTold ==
  ASSUME ConstantsOK, NEW h, NEW f, f # NoFlow, Exhausted(f) = {}, NEW s, NEW r, NEW v, FlowTold(h, f, s, r, v)
  PROVE  /\ AfterResend(f) # NoFlow /\ FlowTold(h, AfterResend(f), s, r, v)
         /\ \A n : Announced(h, n, f) => Announced(h, n, AfterResend(f))
<1> DEFINE q == f.unacked
           u == [i \in DOMAIN q |-> IF i \in Resent(f) THEN SentAgain(q[i]) ELSE q[i]]
<1>1. q \in Seq(Pending)
  <2>1. f \in Flow
    BY Zenon DEF FlowTold
  <2> QED  BY <2>1, FlowIs, Zenon
<1>2. \A i \in DOMAIN q : q[i] \in Pending
  BY <1>1, SMT
<1>3. ASSUME NEW i \in DOMAIN q PROVE u[i] \in Pending /\ u[i].raw = q[i].raw
  <2>1. q[i].retries \in 0 .. MaxRetries
    BY <1>2, Zenon DEF Pending
  <2>2. i \in Resent(f) => ~(q[i].retries >= MaxRetries)
    BY Zenon DEF Resent, Exhausted
  <2>3. i \in Resent(f) => q[i].retries < MaxRetries
    BY <2>1, <2>2, SMT DEF ConstantsOK
  <2> QED  BY <1>2, <2>3, OlderIs, Zenon
<1>4. AfterResend(f) = [f EXCEPT !.unacked = u]
  BY Zenon DEF AfterResend
<1>5. DOMAIN u = DOMAIN q /\ u = [i \in DOMAIN q |-> u[i]]
  BY Zenon
<1> HIDE DEF u
<1>6. u \in Seq(Pending) /\ Len(u) = Len(q) /\ \A i \in 1 .. Len(u) : u[i].raw = q[i].raw
  BY <1>1, <1>3, <1>5, PendingAgain
<1> QED  BY <1>4, <1>6, RecountedTold

\* A step of the timer handler: each flow goes on or is given up with its socket.
LEMMA TimerOnward ==
  ASSUME IInv, NEW w \in [Handle -> Connection], ToldAs(w), UNCHANGED <<next_handle, remote>>,
         \A h \in Handle : SameReading(socket[h], socket'[h]),
         \A h \in Handle : flow[h] = NoFlow => flow'[h] = NoFlow,
         \A h \in Handle : flow'[h] # NoFlow =>
           /\ FlowTold(h, flow'[h], socket[h], remote[h], w[h])
           /\ \A n : Announced(h, n, flow[h]) => Announced(h, n, flow'[h])
  PROVE  /\ \A h \in Handle : HandleTold(h, w[h], flow'[h], socket'[h], remote'[h])
         /\ \A h \in Handle : Onward(h, w[h], next_handle, flow[h], socket[h], remote[h],
                                     w[h], next_handle', flow'[h], socket'[h], remote'[h])
<1> SUFFICES ASSUME NEW h \in Handle
             PROVE  /\ HandleTold(h, w[h], flow'[h], socket'[h], remote'[h])
                    /\ Onward(h, w[h], next_handle, flow[h], socket[h], remote[h],
                              w[h], next_handle', flow'[h], socket'[h], remote'[h])
  BY Zenon
<1>1. HandleTold(h, w[h], flow[h], socket[h], remote[h])
  BY ToldIs, Zenon
<1>2. RemoteSound(socket'[h], remote'[h])
  BY <1>1, Zenon DEF HandleTold, RemoteSound, SameReading
<1>3. FlowTold(h, flow'[h], socket'[h], remote'[h], w[h])
  <2>1. CASE flow'[h] = NoFlow
    BY <2>1, Zenon DEF FlowTold
  <2>2. CASE flow'[h] # NoFlow
    BY <2>2, Zenon DEF FlowTold, FlowNumbered, SameReading
  <2> QED  BY <2>1, <2>2
<1>4. Announced(h, next_handle, flow[h]) => Announced(h, next_handle, flow'[h])
  <2>1. CASE flow'[h] = NoFlow
    BY <2>1, Zenon DEF Announced
  <2>2. CASE flow'[h] # NoFlow
    BY <2>2, Zenon
  <2> QED  BY <2>1, <2>2
<1>5. Onward(h, w[h], next_handle, flow[h], socket[h], remote[h],
             w[h], next_handle', flow'[h], socket'[h], remote'[h])
  BY <1>4, Zenon DEF Onward, Over, SameReading
<1> QED  BY <1>2, <1>3, <1>5, Zenon DEF HandleTold

\* The frames are given to the network card.
LEMMA DrainQueueTold ==
  ASSUME IInv, ConstantsOK, NEW w \in [Handle -> Connection], ToldAs(w), DrainQueue
  PROVE  Told'
<1>1. rx_queue' = <<>> /\ UNCHANGED <<socket, next_handle, remote>>
  BY Zenon DEF DrainQueue
<1>2. PICK dropped : guest' = [k \in Keys |-> GuestAfter(k, dropped)]
  BY Zenon DEF DrainQueue
<1>3. /\ rx_queue \in Seq(Segment) /\ guest \in [Keys -> GuestType]
      /\ \A h \in Handle : HandleTold(h, w[h], flow[h], socket[h], remote[h])
  BY ToldIs, Zenon
<1>4. ASSUME NEW h \in Handle
      PROVE  /\ flow[h] = NoFlow => flow'[h] = NoFlow
             /\ flow[h] # NoFlow => /\ FlowTold(h, flow'[h], socket[h], remote[h], w[h])
                                    /\ \A n : Announced(h, n, flow[h]) => Announced(h, n, flow'[h])
  <2>1. flow[h] = NoFlow => flow'[h] = NoFlow
    BY Zenon DEF DrainQueue
  <2>2. flow[h] # NoFlow => flow'[h] = Aged(flow[h])
    BY Zenon DEF DrainQueue, Aged
  <2>3. FlowTold(h, flow[h], socket[h], remote[h], w[h])
    BY <1>3, Zenon DEF HandleTold
  <2>4. ASSUME flow[h] # NoFlow
        PROVE  /\ FlowTold(h, flow'[h], socket[h], remote[h], w[h])
               /\ \A n : Announced(h, n, flow[h]) => Announced(h, n, flow'[h])
    BY <2>2, <2>3, <2>4, AgedTold
  <2> QED  BY <2>1, <2>4
<1>5. /\ \A h \in Handle : HandleTold(h, w[h], flow'[h], socket'[h], remote'[h])
      /\ \A h \in Handle : Onward(h, w[h], next_handle, flow[h], socket[h], remote[h],
                                  w[h], next_handle', flow'[h], socket'[h], remote'[h])
  <2>1. \A h \in Handle : SameReading(socket[h], socket'[h])
    BY <1>1, Zenon DEF SameReading
  <2>2. \A h \in Handle : flow[h] = NoFlow => flow'[h] = NoFlow
    BY <1>4, Zenon
  <2>3. \A h \in Handle : flow'[h] # NoFlow =>
          /\ FlowTold(h, flow'[h], socket[h], remote[h], w[h])
          /\ \A n : Announced(h, n, flow[h]) => Announced(h, n, flow'[h])
    BY <1>4, Zenon
  <2> QED  BY <1>1, <2>1, <2>2, <2>3, TimerOnward
<1>6. ASSUME NEW i \in 1 .. Len(rx_queue)
      PROVE  LET x == rx_queue[i]
             IN  /\ x \in Segment
                 /\ FrameTold(x, w[x.handle], next_handle', flow'[x.handle], socket'[x.handle], remote'[x.handle], guest[x.key])
  <2> DEFINE x == rx_queue[i]
  <2>1. FrameTold(x, w[x.handle], next_handle, flow[x.handle], socket[x.handle], remote[x.handle], guest[x.key])
    BY Zenon DEF ToldAs, QueueTold, FrameIsTold
  <2> HIDE DEF x
  <2>2. x \in Segment /\ x.handle < next_handle /\ x.key = w[x.handle].key /\ x.isn = w[x.handle].isn
    BY <2>1, Zenon DEF FrameTold, SegmentOfConnection, Announced
  <2>3. x.handle \in Handle /\ x.key \in Keys
    BY <2>2, SegmentIs, Zenon
  <2>4. x.isn <= guest[x.key].isn
    BY <2>2, <2>3, Zenon DEF ToldAs, KeysTold
  <2>5. GuestOnward(guest[x.key], guest[x.key])
    BY <1>3, <2>3, StayOnward, Zenon
  <2>6. Onward(x.handle, w[x.handle], next_handle, flow[x.handle], socket[x.handle], remote[x.handle],
               w[x.handle], next_handle', flow'[x.handle], socket'[x.handle], remote'[x.handle])
    BY <1>5, <2>3, Zenon
  <2>7. FrameTold(x, w[x.handle], next_handle', flow'[x.handle], socket'[x.handle], remote'[x.handle], guest[x.key])
    BY <2>1, <2>4, <2>5, <2>6, FrameStays
  <2> QED  BY <2>2, <2>7 DEF x
<1>7. ASSUME NEW k \in Keys
      PROVE  LET d == guest'[k]
             IN  /\ d \in GuestType /\ StillOn(guest[k], d)
                 /\ GuestTold(k, d, w[d.handle], next_handle', flow'[d.handle], socket'[d.handle], remote'[d.handle])
  <2> DEFINE S == {d \in GuestType :
                     /\ StillOn(guest[k], d)
                     /\ GuestTold(k, d, w[d.handle], next_handle', flow'[d.handle], socket'[d.handle], remote'[d.handle])}
             g == guest[k]
  <2>1. g \in GuestType /\ GuestTold(k, g, w[g.handle], next_handle, flow[g.handle], socket[g.handle], remote[g.handle])
    BY <1>3, Zenon DEF ToldAs, GuestsTold, GuestIsTold
  <2>2. GuestTold(k, g, w[g.handle], next_handle', flow'[g.handle], socket'[g.handle], remote'[g.handle])
    <3> HIDE DEF g
    <3>1. g.handle # None => g.handle \in Handle
      BY <2>1, Zenon DEF GuestType
    <3>2. g.handle # None => Onward(g.handle, w[g.handle], next_handle, flow[g.handle], socket[g.handle], remote[g.handle],
                                    w[g.handle], next_handle', flow'[g.handle], socket'[g.handle], remote'[g.handle])
      BY <1>5, <3>1, Zenon
    <3> QED  BY <2>1, <3>2, GuestStays
  <2>3. guest[k] \in S
    BY <2>1, <2>2, Zenon DEF StillOn
  <2>4. ASSUME NEW i \in 1 .. Len(rx_queue), NEW d \in S, rx_queue[i].key = k PROVE Received(d, rx_queue[i]) \in S
    <3> DEFINE x == rx_queue[i]
               c == Received(d, x)
    <3>1. /\ x.key = k
          /\ FrameTold(x, w[x.handle], next_handle', flow'[x.handle], socket'[x.handle], remote'[x.handle], guest[k])
      BY <1>6, <2>4, Zenon
    <3>2. /\ d \in GuestType /\ StillOn(guest[k], d)
          /\ GuestTold(k, d, w[d.handle], next_handle', flow'[d.handle], socket'[d.handle], remote'[d.handle])
      BY Zenon
    <3> HIDE DEF x
    <3>3. /\ c \in GuestType /\ StillOn(guest[k], c)
          /\ GuestTold(k, c, w[c.handle], next_handle', flow'[c.handle], socket'[c.handle], remote'[c.handle])
      BY <3>1, <3>2, ReceivedTold
    <3> HIDE DEF c
    <3>4. c \in S
      BY <3>3, Zenon
    <3> HIDE DEF S
    <3> QED  BY <3>4 DEF c, x
  <2>5. guest'[k] = GuestAfter(k, dropped)
    BY <1>2, Zenon
  <2>6. Len(rx_queue) \in Nat
    BY <1>3, SMT
  <2>7. guest'[k] \in S
    <3> HIDE DEF S
    <3> QED  BY <2>3, <2>4, <2>5, <2>6, GuestAfterIs, Zenon
  <2> QED  BY <2>7, Zenon
<1>8. guest' \in [Keys -> GuestType]
  <2>1. DOMAIN guest' = Keys /\ guest' = [k \in Keys |-> guest'[k]]
    BY <1>2, Zenon
  <2> QED  BY <1>7, <2>1, Zenon
<1>9. \A k \in Keys : GuestOnward(guest[k], guest'[k])
  <2> SUFFICES ASSUME NEW k \in Keys PROVE GuestOnward(guest[k], guest'[k])
    BY Zenon
  <2>1. StillOn(guest[k], guest'[k]) /\ guest[k] \in GuestType /\ GuestOnward(guest[k], guest[k])
    BY <1>3, <1>7, StayOnward, Zenon
  <2> QED  BY <2>1, Zenon DEF GuestOnward, StillOn, Left
<1>10. \A k \in Keys : guest'[k] = guest[k] \/
         GuestTold(k, guest'[k], w[guest'[k].handle], next_handle', flow'[guest'[k].handle],
                   socket'[guest'[k].handle], remote'[guest'[k].handle])
  BY <1>7, Zenon
<1>11. \A h \in Handle : h < next_handle' => w[h].key \in Keys /\ w[h].isn <= guest'[w[h].key].isn
  <2> SUFFICES ASSUME NEW h \in Handle, h < next_handle' PROVE w[h].key \in Keys /\ w[h].isn <= guest'[w[h].key].isn
    BY Zenon
  <2>1. w[h].key \in Keys /\ w[h].isn <= guest[w[h].key].isn
    BY <1>1, Zenon DEF ToldAs, KeysTold
  <2>2. guest'[w[h].key].isn = guest[w[h].key].isn
    BY <1>7, <2>1, Zenon DEF StillOn
  <2> QED  BY <2>1, <2>2, Zenon
<1>12. /\ rx_queue' \in Seq(Segment)
       /\ \A i \in 1 .. Len(rx_queue') :
            \/ \E j \in 1 .. Len(rx_queue) : rx_queue'[i] = rx_queue[j]
            \/ FrameTold(rx_queue'[i], w[rx_queue'[i].handle], next_handle', flow'[rx_queue'[i].handle],
                         socket'[rx_queue'[i].handle], remote'[rx_queue'[i].handle], guest'[rx_queue'[i].key])
  <2>1. <<>> \in Seq(Segment) /\ \A i \in 1 .. Len(<<>>) : FALSE
    BY SMT
  <2> QED  BY <1>1, <2>1, Zenon
<1> QED  BY <1>5, <1>8, <1>9, <1>10, <1>11, <1>12, Carries

\* The segments that a flow sends again are among those that it keeps.
LEMMA ResentFramesAre ==
  ASSUME NEW f, f.unacked \in Seq(Pending), NEW T, \A i \in 1 .. Len(f.unacked) : f.unacked[i].raw \in T
  PROVE  ResentFrames(f) \in Seq(T)
<1> DEFINE u == f.unacked
           q == [i \in DOMAIN u |-> u[i].raw]
<1>1. DOMAIN u = 1 .. Len(u) /\ Len(u) \in Nat
  BY SMT
<1>2. DOMAIN q = 1 .. Len(u) /\ \A i \in 1 .. Len(u) : q[i] \in T
  BY <1>1, Zenon
<1>3. Len(q) = Len(u)
  <2>1. q \in [1 .. Len(u) -> T]
    BY <1>1, Zenon
  <2> HIDE DEF q, u
  <2> QED  BY <1>1, <2>1, SMT
<1>4. ResentFrames(f) = Selected(q, Resent(f))
  BY Zenon DEF ResentFrames
<1> HIDE DEF q
<1>5. Len(q) \in Nat /\ \A i \in 1 .. Len(q) : i \in Resent(f) => q[i] \in T
  BY <1>1, <1>2, <1>3, Zenon
<1>6. Selected(q, Resent(f)) \in Seq(T)
  BY <1>5, SelectedIs
<1> QED  BY <1>4, <1>6, Zenon

\* Retransmissions repeat what was said.
LEMMA CheckRetransmitsTold ==
  ASSUME IInv, ConstantsOK, NEW w \in [Handle -> Connection], ToldAs(w), CheckRetransmits
  PROVE  Told'
<1> DEFINE Alive == {h \in Handle : flow[h] # NoFlow}
           Dropped == {h \in Alive : Exhausted(flow[h]) # {}}
<1>1. UNCHANGED <<next_handle, remote, guest>> /\ rx_queue' = QueueAfter(MaxHandle)
  BY Zenon DEF CheckRetransmits
<1>2. flow' = [h \in Handle |-> IF h \in Alive \ Dropped THEN AfterResend(flow[h]) ELSE NoFlow]
  BY Zenon DEF CheckRetransmits
<1>3. socket' = [h \in Handle |-> IF h \in Dropped THEN Closed(socket[h]) ELSE socket[h]]
  BY Zenon DEF CheckRetransmits
<1>4. /\ rx_queue \in Seq(Segment) /\ guest \in [Keys -> GuestType]
      /\ \A h \in Handle : HandleTold(h, w[h], flow[h], socket[h], remote[h])
  BY ToldIs, Zenon
<1>5. \A h \in Handle : SameReading(socket[h], socket'[h])
  <2> SUFFICES ASSUME NEW h \in Handle PROVE SameReading(socket[h], socket'[h])
    BY Zenon
  <2>1. socket'[h] = Closed(socket[h]) \/ socket'[h] = socket[h]
    BY <1>3, Zenon
  <2>2. SameReading(socket[h], Closed(socket[h])) /\ SameReading(socket[h], socket[h])
    BY HandleToldIs, OthersReadNothing, Zenon DEF SameReading
  <2> QED  BY <2>1, <2>2, Zenon
<1>6. \A h \in Handle : flow[h] = NoFlow => flow'[h] = NoFlow
  BY <1>2, Zenon
<1>7. ASSUME NEW h \in Handle, flow'[h] # NoFlow
      PROVE  /\ FlowTold(h, flow'[h], socket[h], remote[h], w[h])
             /\ \A n : Announced(h, n, flow[h]) => Announced(h, n, flow'[h])
  <2>1. flow[h] # NoFlow /\ Exhausted(flow[h]) = {} /\ flow'[h] = AfterResend(flow[h])
    BY <1>2, <1>7, Zenon
  <2>2. FlowTold(h, flow[h], socket[h], remote[h], w[h])
    BY <1>4, Zenon DEF HandleTold
  <2> QED  BY <2>1, <2>2, ResentTold
<1>8. /\ \A h \in Handle : HandleTold(h, w[h], flow'[h], socket'[h], remote'[h])
      /\ \A h \in Handle : Onward(h, w[h], next_handle, flow[h], socket[h], remote[h],
                                  w[h], next_handle', flow'[h], socket'[h], remote'[h])
  <2>1. \A h \in Handle : flow'[h] # NoFlow =>
          /\ FlowTold(h, flow'[h], socket[h], remote[h], w[h])
          /\ \A n : Announced(h, n, flow[h]) => Announced(h, n, flow'[h])
    BY <1>7, Zenon
  <2> QED  BY <1>1, <1>5, <1>6, <2>1, TimerOnward
<1> DEFINE T == {x \in Segment :
                   \/ \E j \in 1 .. Len(rx_queue) : x = rx_queue[j]
                   \/ FrameTold(x, w[x.handle], next_handle', flow'[x.handle], socket'[x.handle], remote'[x.handle],
                                guest'[x.key])}
<1>9. ASSUME NEW h \in 1 .. MaxHandle, flow[h] # NoFlow PROVE ResentFrames(flow[h]) \in Seq(T)
  <2> DEFINE u == flow[h].unacked
  <2>1. h \in Handle
    BY Zenon DEF Handle
  <2>2. flow[h] \in Flow /\ PendingTold(h, flow[h], w[h]) /\ FlowNumbered(flow[h], socket[h], remote[h], w[h])
    BY <1>4, <1>9, <2>1, Zenon DEF HandleTold, FlowTold
  <2>3. u \in Seq(Pending)
    BY <2>2, FlowIs, Zenon
  <2>4. ASSUME NEW i \in 1 .. Len(u) PROVE u[i].raw \in T
    <3> DEFINE x == u[i].raw
    <3>1. SegmentOfConnection(x, w[h]) /\ x.handle = h /\ x.kind # "fin" /\ x \in Segment
      BY <2>2, Zenon DEF PendingTold, SegmentOfConnection
    <3>2. u # <<>>
      <4>1. \A j \in 1 .. Len(<<>>) : FALSE
        BY SMT
      <4> QED  BY <2>4, <4>1, Zenon
    <3>3. flow[h].established /\ w[h].skipped = remote'[h].early
      BY <2>2, <3>2, Zenon DEF FlowNumbered, CheckRetransmits
    <3>4. h < next_handle
      BY <1>9, <2>1, Used, Zenon
    <3>5. Announced(h, next_handle', flow'[h])
      BY <1>8, <2>1, <3>3, <3>4, Zenon DEF Onward, Announced
    <3> HIDE DEF x
    <3>6. FrameTold(x, w[x.handle], next_handle', flow'[x.handle], socket'[x.handle], remote'[x.handle], guest'[x.key])
      BY <3>1, <3>3, <3>5, Zenon DEF FrameTold
    <3>7. x \in T
      BY <3>1, <3>6, Zenon
    <3> HIDE DEF T
    <3> QED  BY <3>7 DEF x
  <2> HIDE DEF T
  <2> QED  BY <2>3, <2>4, ResentFramesAre
<1>10. rx_queue \in Seq(T)
  <2>1. DOMAIN rx_queue = 1 .. Len(rx_queue) /\ Len(rx_queue) \in Nat /\ \A i \in 1 .. Len(rx_queue) : rx_queue[i] \in Segment
    BY <1>4, SMT
  <2>2. \A i \in 1 .. Len(rx_queue) : rx_queue[i] \in T
    BY <2>1, Zenon
  <2> HIDE DEF T
  <2> QED  BY <1>4, <2>1, <2>2, SMT
<1>11. rx_queue' \in Seq(T)
  <2> HIDE DEF T
  <2>1. MaxHandle \in Nat
    BY SMT DEF ConstantsOK
  <2>2. \A h \in 1 .. MaxHandle : flow[h] # NoFlow => ResentFrames(flow[h]) \in Seq(T)
    BY <1>9, Zenon
  <2> QED  BY <1>1, <1>10, <2>1, <2>2, QueueAfterIs, Zenon
<1>12. /\ rx_queue' \in Seq(Segment)
       /\ \A i \in 1 .. Len(rx_queue') :
            \/ \E j \in 1 .. Len(rx_queue) : rx_queue'[i] = rx_queue[j]
            \/ FrameTold(rx_queue'[i], w[rx_queue'[i].handle], next_handle', flow'[rx_queue'[i].handle],
                         socket'[rx_queue'[i].handle], remote'[rx_queue'[i].handle], guest'[rx_queue'[i].key])
  <2>1. T \subseteq Segment
    BY Zenon
  <2>2. rx_queue' \in Seq(Segment) /\ \A i \in 1 .. Len(rx_queue') : rx_queue'[i] \in T
    <3> HIDE DEF T
    <3> QED  BY <1>11, <2>1, SMT
  <2> QED  BY <2>2, Zenon
<1>13. /\ guest' \in [Keys -> GuestType]
       /\ \A k \in Keys : GuestOnward(guest[k], guest'[k]) /\ guest'[k] = guest[k]
  BY <1>1, <1>4, StayOnward, Zenon
<1>14. \A h \in Handle : h < next_handle' => w[h].key \in Keys /\ w[h].isn <= guest'[w[h].key].isn
  BY <1>1, Zenon DEF ToldAs, KeysTold
<1> QED  BY <1>8, <1>12, <1>13, <1>14, Carries

\* Every step keeps what is told.
LEMMA StepsTell ==
  ASSUME IInv, ConstantsOK, Told, Next
  PROVE  Told'
<1>1. PICK w \in [Handle -> Connection] : ToldAs(w)
  BY Zenon DEF Told
<1>2. CASE DrainQueue
  BY <1>1, <1>2, DrainQueueTold
<1>3. CASE CheckRetransmits
  BY <1>1, <1>3, CheckRetransmitsTold
<1>4. ASSUME NEW h \in Handle, NEW ok \in BOOLEAN, ConnectCompletes(h, ok) \/ StoreCompletes(h, ok) PROVE Told'
  BY <1>1, <1>4, ConnectCompletesTold, StoreCompletesTold
<1>5. ASSUME NEW h \in Handle, NEW some \in BOOLEAN, LoadCompletes(h, some) PROVE Told'
  BY <1>1, <1>5, LoadCompletesTold
<1>6. ASSUME NEW h \in Handle, OnTcpConnect(h) \/ OnTcpData(h) \/ OnTcpClosed(h) \/ RemoteSends(h) PROVE Told'
  BY <1>1, <1>6, OnTcpConnectTold, OnTcpDataTold, OnTcpClosedTold, RemoteSendsTold
<1>7. ASSUME NEW k \in Keys, \/ GuestConnects(k) \/ GuestRetriesSyn(k)
                             \/ \E b \in GuestByte : GuestSends(k, b)
                             \/ GuestAcks(k) \/ GuestFinishes(k) \/ GuestResets(k)
      PROVE  Told'
  BY <1>1, <1>7, GuestActionsTold
<1> QED  BY <1>2, <1>3, <1>4, <1>5, <1>6, <1>7, Zenon DEF Next

\* So does a step of others.
LEMMA UnchangedTells ==
  ASSUME Told, UNCHANGED <<flow, socket, next_handle, remote, rx_queue, guest>>
  PROVE  Told'
<1>1. PICK w \in [Handle -> Connection] : ToldAs(w)
  BY Zenon DEF Told
<1>2. /\ rx_queue \in Seq(Segment) /\ guest \in [Keys -> GuestType]
      /\ \A h \in Handle : HandleTold(h, w[h], flow[h], socket[h], remote[h])
  BY <1>1, ToldIs, Zenon
<1>3. \A h \in Handle : HandleTold(h, w[h], flow'[h], socket'[h], remote'[h])
  BY <1>2, Zenon
<1>4. \A h \in Handle : Onward(h, w[h], next_handle, flow[h], socket[h], remote[h],
                               w[h], next_handle', flow'[h], socket'[h], remote'[h])
  BY StayOnward, Zenon
<1>5. /\ guest' \in [Keys -> GuestType]
      /\ \A k \in Keys : GuestOnward(guest[k], guest'[k]) /\ guest'[k] = guest[k]
  BY <1>2, StayOnward, Zenon
<1>6. \A h \in Handle : h < next_handle' => w[h].key \in Keys /\ w[h].isn <= guest'[w[h].key].isn
  BY <1>1, Zenon DEF ToldAs, KeysTold
<1>7. rx_queue' \in Seq(Segment) /\ \A i \in 1 .. Len(rx_queue') : \E j \in 1 .. Len(rx_queue) : rx_queue'[i] = rx_queue[j]
  BY <1>2, Zenon
<1> QED  BY <1>1, <1>3, <1>4, <1>5, <1>6, <1>7, Carries

\* Nothing is told at first.
LEMMA InitTells ==
  ASSUME Init, ConstantsOK
  PROVE  Told
<1> DEFINE w == [h \in Handle |-> [key |-> None, isn |-> 0, skipped |-> 0]]
           g == [state |-> "closed", isn |-> 0, handle |-> None, sent |-> 0, got |-> <<>>, ended |-> FALSE]
<1>1. w \in [Handle -> Connection]
  <2>1. 0 \in Nat
    BY SMT
  <2> QED  BY <2>1, Zenon DEF Connection
<1>2. HandlesTold(w)
  <2> SUFFICES ASSUME NEW h \in Handle PROVE HandleTold(h, w[h], flow[h], socket[h], remote[h])
    BY Zenon DEF HandlesTold
  <2>1. flow[h] = NoFlow /\ socket[h] = Unopened /\ remote[h] = [sent |-> 0, read |-> 0, early |-> 0, received |-> <<>>]
    BY Zenon DEF Init
  <2>2. remote[h].sent = 0 /\ remote[h].read = 0 /\ remote[h].early = 0
    BY <2>1, SMT
  <2>3. 0 \in 0 .. MaxRemote /\ 0 \in 0 .. 0 /\ Unopened.reading # "data"
    BY SMT DEF ConstantsOK, Unopened
  <2> QED  BY <2>1, <2>2, <2>3, Zenon DEF HandleTold, RemoteSound, FlowTold
<1>3. KeysTold(w)
  <2>1. \A h \in Handle : ~(h < next_handle)
    BY SMT DEF Init, Handle
  <2> QED  BY <2>1, Zenon DEF KeysTold
<1>4. QueueTold(w)
  <2>1. <<>> \in Seq(Segment) /\ \A i \in 1 .. Len(<<>>) : FALSE
    BY SMT
  <2>2. rx_queue = <<>>
    BY Zenon DEF Init
  <2> QED  BY <2>1, <2>2, Zenon DEF QueueTold
<1>5. GuestsTold(w)
  <2>1. guest = [k \in Keys |-> g]
    BY Zenon DEF Init
  <2>2. g \in GuestType
    <3>1. 0 \in 0 .. MaxGuest /\ 0 \in Nat /\ <<>> \in Seq(RemoteByte) /\ "closed" \in {"closed", "connecting", "open", "finished"}
      BY SMT DEF ConstantsOK
    <3> QED  BY <3>1, Zenon DEF GuestType
  <2>3. ASSUME NEW k \in Keys PROVE GuestIsTold(k, guest[k], w)
    <3>1. guest[k].state = "closed" /\ guest[k].handle = None /\ guest[k].got = <<>>
      BY <2>1, Zenon
    <3>2. "closed" # "connecting" /\ "closed" # "open"
      BY SMT
    <3> QED  BY <3>1, <3>2, Zenon DEF GuestIsTold, GuestTold
  <2> HIDE DEF g
  <2> QED  BY <2>1, <2>2, <2>3, Zenon DEF GuestsTold
<1> HIDE DEF w
<1> QED  BY <1>1, <1>2, <1>3, <1>4, <1>5, Zenon DEF Told, ToldAs

\* The two halves of the timer handler alternate, frames are dropped up to the bound, and
\* there is a socket for each handle and no more.
Counted == draining \in BOOLEAN /\ lost \in 0 .. MaxLost /\ socket = [h \in Handle |-> socket[h]]

\* A segment of the guest changes one socket at most.
LEMMA SegmentSocket ==
  ASSUME NEW k \in Keys, NEW seg, handle_tcp(k, seg)
  PROVE  socket' = socket \/ \E h, x : socket' = [socket EXCEPT ![h] = x]
<1>1. CASE OpenFlow(k, seg)
  BY <1>1, Zenon DEF OpenFlow, nat
<1>2. CASE ResetFlow(k, seg)
  <2>1. socket' = [socket EXCEPT ![tcp_by_key[k]] = Closed(socket[tcp_by_key[k]])]
    BY <1>2, Zenon DEF ResetFlow
  <2> QED  BY <2>1, Zenon
<1>3. CASE IgnoreSegment(k, seg)
  BY <1>3, Zenon DEF IgnoreSegment, nat
<1>4. CASE AcceptSegment(k, seg)
  BY <1>4, Zenon DEF AcceptSegment
<1> QED  BY <1>1, <1>2, <1>3, <1>4, Zenon DEF handle_tcp

\* A step changes one socket, or leaves one for each handle.
LEMMA StepsSockets ==
  ASSUME Next
  PROVE  socket' = socket \/ (\E h, x : socket' = [socket EXCEPT ![h] = x])
         \/ socket' = [h \in Handle |-> socket'[h]]
<1>1. CASE DrainQueue
  BY <1>1, Zenon DEF DrainQueue
<1>2. CASE CheckRetransmits
  <2>1. PICK D : socket' = [h \in Handle |-> IF h \in D THEN Closed(socket[h]) ELSE socket[h]]
    BY <1>2, Zenon DEF CheckRetransmits
  <2> QED  BY <2>1, Zenon
<1>3. ASSUME NEW h \in Handle, NEW ok \in BOOLEAN, ConnectCompletes(h, ok) \/ StoreCompletes(h, ok)
      PROVE  \E x : socket' = [socket EXCEPT ![h] = x]
  BY <1>3, Zenon DEF ConnectCompletes, StoreCompletes
<1>4. ASSUME NEW h \in Handle, NEW some \in BOOLEAN, LoadCompletes(h, some)
      PROVE  \E x : socket' = [socket EXCEPT ![h] = x]
  BY <1>4, Zenon DEF LoadCompletes
<1>5. ASSUME NEW h \in Handle, OnTcpConnect(h) \/ OnTcpData(h) \/ OnTcpClosed(h)
      PROVE  \E x : socket' = [socket EXCEPT ![h] = x]
  BY <1>5, Zenon DEF OnTcpConnect, OnTcpData, OnTcpClosed
<1>6. ASSUME NEW h \in Handle, RemoteSends(h) PROVE socket' = socket
  BY <1>6, Zenon DEF RemoteSends, nat
<1>7. ASSUME NEW k \in Keys, \/ GuestConnects(k) \/ GuestRetriesSyn(k)
                             \/ \E b \in GuestByte : GuestSends(k, b)
                             \/ GuestAcks(k) \/ GuestFinishes(k) \/ GuestResets(k)
      PROVE  \E seg : handle_tcp(k, seg)
  BY <1>7, Zenon DEF GuestConnects, GuestRetriesSyn, GuestSends, GuestAcks, GuestFinishes, GuestResets
<1> QED  BY <1>1, <1>2, <1>3, <1>4, <1>5, <1>6, <1>7, SegmentSocket, Zenon DEF Next

\* A function with a new value at some place is a function.
LEMMA StillSockets ==
  ASSUME NEW S, DOMAIN S = Handle, NEW h, NEW x, NEW T, T = [S EXCEPT ![h] = x]
  PROVE  T = [g \in Handle |-> T[g]]
<1>1. T = [g \in DOMAIN S |-> IF g = h THEN x ELSE S[g]]
  BY Zenon
<1>2. \A g \in Handle : T[g] = IF g = h THEN x ELSE S[g]
  BY <1>1, SMT
<1> QED  BY <1>1, <1>2, Zenon

\* Every step keeps the count.
LEMMA StepsCount ==
  ASSUME IInv, ConstantsOK, Told, Counted, Next
  PROVE  Counted'
<1>1. ASSUME DrainQueue PROVE draining' \in BOOLEAN /\ lost' \in 0 .. MaxLost
  <2>1. PICK w \in [Handle -> Connection] : ToldAs(w)
    BY Zenon DEF Told
  <2>2. DOMAIN rx_queue = 1 .. Len(rx_queue) /\ Len(rx_queue) \in Nat
    <3>1. rx_queue \in Seq(Segment)
      BY <2>1, ToldIs, Zenon
    <3> QED  BY <3>1, SMT
  <2>3. IsFiniteSet(DOMAIN rx_queue)
    <3>1. 1 \in Int /\ Len(rx_queue) \in Int
      BY <2>2, SMT
    <3>2. IsFiniteSet(1 .. Len(rx_queue))
      BY <3>1, FS_Interval
    <3> QED  BY <2>2, <3>2, Zenon
  <2>4. PICK dropped \in SUBSET DOMAIN rx_queue :
          lost + Cardinality(dropped) <= MaxLost /\ lost' = lost + Cardinality(dropped)
    BY <1>1, Zenon DEF DrainQueue
  <2>5. Cardinality(dropped) \in Nat
    BY <2>3, FS_Subset, FS_CardinalityType
  <2>6. draining' = TRUE
    BY <1>1, Zenon DEF DrainQueue
  <2>7. lost' \in 0 .. MaxLost
    BY <2>4, <2>5, SMT DEF Counted, ConstantsOK
  <2>8. draining' \in BOOLEAN
    BY <2>6, Zenon
  <2> QED  BY <2>7, <2>8, Zenon
<1>2. ASSUME CheckRetransmits PROVE draining' \in BOOLEAN /\ lost' \in 0 .. MaxLost
  <2>1. draining' = FALSE /\ lost' = lost
    BY <1>2, Zenon DEF CheckRetransmits
  <2> QED  BY <2>1, Zenon DEF Counted
<1>3. ASSUME UNCHANGED <<draining, lost>> PROVE draining' \in BOOLEAN /\ lost' \in 0 .. MaxLost
  BY <1>3, Zenon DEF Counted
<1>4. ASSUME Next, ~DrainQueue, ~CheckRetransmits PROVE UNCHANGED <<draining, lost>>
  BY <1>4, Zenon
  DEF Next, ConnectCompletes, StoreCompletes, LoadCompletes, OnTcpConnect, OnTcpData, OnTcpClosed, RemoteSends,
      GuestConnects, GuestRetriesSyn, GuestSends, GuestAcks, GuestFinishes, GuestResets, handle_tcp
<1>5. socket' = [h \in Handle |-> socket'[h]]
  <2>1. DOMAIN socket = Handle
    BY HandleIs, Zenon DEF IInv, FlowsTyped
  <2>2. ASSUME socket' = socket PROVE socket' = [h \in Handle |-> socket'[h]]
    BY <2>2, Zenon DEF Counted
  <2> QED  BY <2>1, <2>2, StepsSockets, StillSockets, Zenon
<1> QED  BY <1>1, <1>2, <1>3, <1>4, <1>5, Zenon DEF Counted

\* The count at first.
LEMMA InitCounted ==
  ASSUME Init, ConstantsOK
  PROVE  Counted
<1>1. draining = FALSE /\ lost = 0
  BY Zenon DEF Init
<1>2. 0 \in 0 .. MaxLost
  BY SMT DEF ConstantsOK
<1>3. socket = [h \in Handle |-> Unopened]
  BY Zenon DEF Init
<1> QED  BY <1>1, <1>2, <1>3, Zenon DEF Counted

\* A guest of which all is told reads in order, and everything before the end.
LEMMA ToldSays ==
  ASSUME Told
  PROVE  GuestReadsInOrder /\ EndMeansAll
<1>1. PICK w \in [Handle -> Connection] : ToldAs(w)
  BY Zenon DEF Told
<1>2. /\ guest \in [Keys -> GuestType] /\ \A k \in Keys : GuestIsTold(k, guest[k], w)
      /\ \A h \in Handle : w[h] \in Connection /\ HandleTold(h, w[h], flow[h], socket[h], remote[h])
  BY <1>1, ToldIs, Zenon DEF ToldAs, GuestsTold
<1>3. ASSUME NEW k \in Keys, guest[k].handle # None
      PROVE  /\ guest[k].handle \in Handle /\ Len(guest[k].got) \in Nat
             /\ w[guest[k].handle].skipped = remote[guest[k].handle].early
             /\ \A i \in 1 .. Len(guest[k].got) : guest[k].got[i] = i + w[guest[k].handle].skipped
             /\ remote[guest[k].handle].early \in Int /\ remote[guest[k].handle].read \in Int
  <2> DEFINE g == guest[k]
             h == g.handle
  <2>1. g \in GuestType /\ GuestTold(k, g, w[h], next_handle, flow[h], socket[h], remote[h])
    BY <1>2, Zenon DEF GuestIsTold
  <2>2. h \in Handle /\ g.got \in Seq(RemoteByte)
    BY <1>3, <2>1, Zenon DEF GuestType
  <2>3. RemoteSound(socket[h], remote[h])
    BY <1>2, <2>2, Zenon DEF HandleTold
  <2>4. remote[h].early \in Int /\ remote[h].read \in Int
    BY <2>3, SMT DEF RemoteSound
  <2>5. Len(g.got) \in Nat
    BY <2>2, SMT
  <2> QED  BY <1>3, <2>1, <2>2, <2>4, <2>5, Zenon DEF GuestTold
<1>4. GuestReadsInOrder
  <2> SUFFICES ASSUME NEW k \in Keys, guest[k].handle # None, NEW i \in 1 .. Len(guest[k].got)
               PROVE  guest[k].got[i] = remote[guest[k].handle].early + i
    BY Zenon DEF GuestReadsInOrder
  <2>1. guest[k].got[i] = i + remote[guest[k].handle].early /\ remote[guest[k].handle].early \in Int
    BY <1>3, Zenon
  <2> QED  BY <2>1, SMT
<1>5. EndMeansAll
  <2> SUFFICES ASSUME NEW k \in Keys, guest[k].state = "open", guest[k].ended
               PROVE  remote[guest[k].handle].early + Len(guest[k].got) = remote[guest[k].handle].read
    BY Zenon DEF EndMeansAll
  <2> DEFINE g == guest[k]
             h == g.handle
             n == Len(g.got)
             c == remote[h].early
             r == remote[h].read
  <2>1. h # None /\ Over(socket[h], remote[h], w[h], n + 1)
    BY <1>2, Zenon DEF GuestIsTold, GuestTold
  <2>2. n \in Nat /\ c \in Int /\ r \in Int /\ w[h].skipped = c
    BY <1>3, <2>1, Zenon
  <2>3. n + 1 + c = r + 1
    BY <2>1, <2>2, Zenon DEF Over
  <2> HIDE DEF g, h, n, c, r
  <2>4. c + n = r
    BY <2>2, <2>3, SMT
  <2> QED  BY <2>4 DEF g, h, n, c, r
<1> QED  BY <1>4, <1>5

\* In a sound state everything is well formed.
LEMMA SoundTypes ==
  ASSUME IInv, Told, Counted, ConstantsOK
  PROVE  TypeOK
<1>1. PICK w \in [Handle -> Connection] : ToldAs(w)
  BY Zenon DEF Told
<1>2. rx_queue \in Seq(Segment) /\ guest \in [Keys -> GuestType]
  BY <1>1, ToldIs, Zenon
<1>3. ASSUME NEW h \in Handle
      PROVE  /\ flow[h] = NoFlow \/ flow[h] \in Flow
             /\ socket[h] \in SocketType(GuestByte)
             /\ remote[h] \in [sent : 0 .. MaxRemote, read : 0 .. MaxRemote, early : 0 .. MaxRemote, received : Seq(GuestByte)]
  <2>1. /\ flow[h] # NoFlow => flow[h] \in Flow
        /\ socket[h] \in SocketType(GuestByte) /\ RemoteSound(socket[h], remote[h])
    BY <1>1, HandleToldIs, Zenon
  <2>2. remote[h] \in RemoteEnd
    BY HandleIs, Zenon
  <2>3. remote[h].sent \in 0 .. MaxRemote /\ remote[h].read \in 0 .. MaxRemote /\ remote[h].early \in 0 .. MaxRemote
    BY <2>1, SMT DEF RemoteSound, ConstantsOK
  <2>4. remote[h] \in [sent : 0 .. MaxRemote, read : 0 .. MaxRemote, early : 0 .. MaxRemote, received : Seq(GuestByte)]
    BY <2>2, <2>3, SMT DEF RemoteEnd
  <2> QED  BY <2>1, <2>4, Zenon
<1>4. socket \in [Handle -> SocketType(GuestByte)]
  <2>1. socket = [h \in Handle |-> socket[h]]
    BY Zenon DEF Counted
  <2> QED  BY <1>3, <2>1, Zenon
<1>5. remote \in [Handle -> [sent : 0 .. MaxRemote, read : 0 .. MaxRemote, early : 0 .. MaxRemote, received : Seq(GuestByte)]]
  <2>1. remote \in [Handle -> RemoteEnd]
    BY Zenon DEF IInv, FlowsTyped
  <2>2. remote = [h \in Handle |-> remote[h]]
    BY <2>1, Zenon
  <2> QED  BY <1>3, <2>2, Zenon
<1>6. tcp_by_key \in [Keys -> {None} \cup Handle] /\ next_handle \in 1 .. MaxHandle + 1
  BY Zenon DEF IInv, FlowsTyped
<1> QED  BY <1>2, <1>3, <1>4, <1>5, <1>6, Zenon DEF TypeOK, Counted, GuestType

\* The invariant of the TCP half of the NAT, for any numbers of keys,
\* connections, bytes, losses and retries.
THEOREM NatInvariant ==
  ASSUME ConstantsOK
  PROVE  Spec => [](IInv /\ Told /\ Counted)
<1>1. Init => IInv /\ Told /\ Counted
  BY InitSound, InitTells, InitCounted
<1>2. IInv /\ Told /\ Counted /\ [Next]_vars => (IInv /\ Told /\ Counted)'
  <2>1. ASSUME IInv, Told, Counted, Next PROVE IInv' /\ Told' /\ Counted'
    BY <2>1, NextSteps, StepsKeep, StepsTell, StepsCount
  <2>2. ASSUME IInv, Told, Counted, UNCHANGED vars PROVE IInv' /\ Told' /\ Counted'
    BY <2>2, UnchangedKeeps, UnchangedTells, Zenon DEF vars, nat, Counted, Handle
  <2> QED  BY <2>1, <2>2, Zenon
<1> QED  BY <1>1, <1>2, PTL DEF Spec
=============================================================================
