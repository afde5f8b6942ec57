------------------------------ MODULE UdpFlows ------------------------------
(***************************************************************************)
(* The UDP half of the NAT (iodev/eth_nat.cc over wpb_net_io.cpp).  The    *)
(* guest's datagrams are sent on the emulator's thread; the continuation   *)
(* of a socket's connect, and the answers, run on the thread pool.  A send *)
(* looks at "connected" without the mutex and takes the mutex afterwards   *)
(* to queue the datagram.  No flow is ever closed.                         *)
(***************************************************************************)
EXTENDS Integers, FiniteSets, SequencesExt

CONSTANTS
  Key,             \* the guest's <<port, address, port>> triples
  MaxDatagrams     \* bound: datagrams that the guest sends for each of them

None == 0

ConstantsOK == MaxDatagrams \in Nat /\ IsFiniteSet(Key) /\ None \notin Key

VARIABLES
  udp_by_key,      \* the socket of each key, or None
  udp,             \* the sockets, by handle
  sender,          \* the emulator's thread inside wpb_net_udp_send
  given            \* datagrams of each key so far

vars == <<udp_by_key, udp, sender, given>>

Handle == 1 .. Cardinality(Key)
Unused == [key |-> None, task |-> "none", connected |-> FALSE, closed |-> FALSE, pending |-> <<>>,
           swapped |-> <<>>, sent |-> <<>>]
Away == [handle |-> None, datagram |-> 0, queues |-> FALSE]

TypeOK ==
  /\ udp_by_key \in [Key -> Handle \union {None}]
  /\ \A h \in Handle : /\ udp[h].key \in Key \union {None}
                       /\ udp[h].task \in {"none", "connecting", "connected", "swapped", "done"}
  /\ sender \in [handle : Handle \union {None}, datagram : 0 .. MaxDatagrams, queues : BOOLEAN]
  /\ given \in [Key -> 0 .. MaxDatagrams]

Init ==
  /\ udp_by_key = [k \in Key |-> None] /\ udp = [h \in Handle |-> Unused]
  /\ sender = Away /\ given = [k \in Key |-> 0]

-----------------------------------------------------------------------------
(* The emulator's thread. *)

\* handle_udp: finds the flow, or opens it, under flow_mutex; wpb_net_udp_open
\* starts to connect.
handle_udp == \E k \in Key :
  LET known == udp_by_key[k] # None
      h == IF known THEN udp_by_key[k] ELSE 1 + Cardinality({q \in Key : udp_by_key[q] # None})
  IN  /\ sender = Away /\ given[k] < MaxDatagrams
      /\ given' = [given EXCEPT ![k] = @ + 1]
      /\ udp_by_key' = [udp_by_key EXCEPT ![k] = h]
      /\ udp' = IF known THEN udp ELSE [udp EXCEPT ![h] = [Unused EXCEPT !.key = k, !.task = "connecting"]]
      /\ sender' = [handle |-> h, datagram |-> given[k] + 1, queues |-> FALSE]

Mine == udp[sender.handle]
Sends(u, d) == [u EXCEPT !.sent = Append(@, d)]

\* wpb_net_udp_send: what is closed drops it, what is connected sends it.
wpb_net_udp_send ==
  /\ sender # Away /\ ~sender.queues
  /\ IF Mine.closed THEN sender' = Away /\ UNCHANGED udp
     ELSE IF Mine.connected
     THEN sender' = Away /\ udp' = [udp EXCEPT ![sender.handle] = Sends(@, sender.datagram)]
     ELSE sender' = [sender EXCEPT !.queues = TRUE] /\ UNCHANGED udp
  /\ UNCHANGED <<udp_by_key, given>>

Queues ==
  /\ sender.queues
  /\ udp' = [udp EXCEPT ![sender.handle].pending = Append(@, sender.datagram)]
  /\ sender' = Away /\ UNCHANGED <<udp_by_key, given>>

-----------------------------------------------------------------------------
(* The thread pool. *)

TaskDoes(h, from, u) == udp[h].task = from /\ udp' = [udp EXCEPT ![h] = u] /\ UNCHANGED <<udp_by_key, sender, given>>

Connects(h) ==
  \/ TaskDoes(h, "connecting", [udp[h] EXCEPT !.task = "connected", !.connected = TRUE])
  \/ TaskDoes(h, "connecting", [udp[h] EXCEPT !.task = "done", !.closed = TRUE])

TakenTwice(u) == [u EXCEPT !.swapped = u.pending]
Taken(u) == [u EXCEPT !.swapped = u.pending, !.pending = <<>>]

Swaps(h) == TaskDoes(h, "connected", [Taken(udp[h]) EXCEPT !.task = "swapped"])

SendsPending(h) ==
  LET u == udp[h] IN
  TaskDoes(h, "swapped", IF u.swapped = <<>> THEN [u EXCEPT !.task = "done"]
                         ELSE [Sends(u, Head(u.swapped)) EXCEPT !.swapped = Tail(@)])

Next ==
  \/ handle_udp \/ wpb_net_udp_send \/ Queues
  \/ \E h \in Handle : Connects(h) \/ Swaps(h) \/ SendsPending(h)

Spec == Init /\ [][Next]_vars

-----------------------------------------------------------------------------
\* Every datagram that the guest sent is sent once, or waits to be: none is lost
\* or doubled between the queue, the continuation and the sender.
SentOnceOrWaiting ==
  \A h \in Handle : udp[h].key # None /\ ~udp[h].closed =>
    LET u == udp[h]
        all == u.sent \o u.swapped \o u.pending \o (IF sender.handle = h THEN <<sender.datagram>> ELSE <<>>)
    IN  ToSet(all) = 1 .. given[u.key] /\ Len(all) = given[u.key]

\* Of what is queued for a socket that is connected, at most one datagram was
\* queued too late to be sent: the thread that looked before it was connected.
AtMostOneStranded ==
  \A h \in Handle : ~udp[h].closed /\ udp[h].task \in {"swapped", "done"} => Len(udp[h].pending) <= 1
=============================================================================
