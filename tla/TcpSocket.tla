----------------------------- MODULE TcpSocket ------------------------------
(***************************************************************************)
(* A TCP socket of the host bridge (BochsEngine/wpb_net_io.cpp): the       *)
(* TcpState of one handle, with the asynchronous tasks that run for it on  *)
(* the thread pool.                                                        *)
(*                                                                         *)
(*   open        the handle is in s_tcp                                    *)
(*   connecting  the ConnectAsync continuation: to run, to call on_connect *)
(*   reading     the TcpReadLoop continuation: to run, to call on_data or  *)
(*               on_closed                                                 *)
(*   storing     the chunk given to StoreAsync, if one is                  *)
(*                                                                         *)
(* Every operator is one stretch of code that no other thread can see half *)
(* done, because the fields it writes are guarded by s_mutex or belong to  *)
(* the one task that runs it.                                              *)
(***************************************************************************)
EXTENDS Sequences

SocketType(Byte) ==
  [open : BOOLEAN, connected : BOOLEAN, closed : BOOLEAN, writing : BOOLEAN,
   connecting : {"none", "pending", "calling"},
   reading : {"none", "loading", "data", "end"},
   write_queue : Seq(Byte), storing : Seq(Byte)]

\* A handle not given out yet, and what wpb_net_tcp_open makes of it.
Unopened ==
  [open |-> FALSE, connected |-> FALSE, closed |-> FALSE, writing |-> FALSE,
   connecting |-> "none", reading |-> "none", write_queue |-> <<>>, storing |-> <<>>]

Opened == [Unopened EXCEPT !.open = TRUE, !.connecting = "pending"]

\* The ConnectAsync continuation, up to the call of on_connect.
Connected(s, ok) ==
  IF s.open THEN [s EXCEPT !.connected = ok, !.closed = ~ok, !.connecting = "calling",
                           !.reading = IF ok THEN "loading" ELSE @]
            ELSE [s EXCEPT !.connecting = "none"]

\* FlushTcpWriteQueue: the next chunk, if any, is given to StoreAsync.
Flushed(s) ==
  IF ~s.open THEN s
  ELSE IF s.closed \/ s.write_queue = <<>> THEN [s EXCEPT !.writing = FALSE]
  ELSE [s EXCEPT !.storing = <<Head(s.write_queue)>>, !.write_queue = Tail(@)]

\* A variant of wpb_net_tcp_send that ignores a flush in progress.
SentWithoutLatch(s, b) ==
  IF ~s.open \/ s.closed \/ ~s.connected THEN s
  ELSE Flushed([s EXCEPT !.write_queue = Append(@, b), !.writing = TRUE])

\* wpb_net_tcp_send: the chunk is queued, and a flush started unless one is
\* in progress.
Sent(s, b) ==
  IF ~s.open \/ s.closed \/ ~s.connected THEN s
  ELSE LET q == [s EXCEPT !.write_queue = Append(@, b), !.writing = TRUE]
       IN  IF s.writing THEN q ELSE Flushed(q)

\* The StoreAsync continuation.
Stored(s, ok) ==
  LET q == [s EXCEPT !.storing = <<>>]
  IN  IF ~s.open THEN q ELSE IF ok THEN Flushed(q) ELSE [q EXCEPT !.closed = TRUE]

\* The LoadAsync continuation, up to the call of on_data or on_closed.
Loaded(s, some) ==
  IF ~s.open THEN [s EXCEPT !.reading = "none"]
  ELSE IF some THEN [s EXCEPT !.reading = "data"]
  ELSE [s EXCEPT !.reading = "end", !.closed = TRUE]

\* wpb_net_tcp_close
Closed(s) == IF s.open THEN [s EXCEPT !.closed = TRUE, !.open = FALSE] ELSE s
=============================================================================
