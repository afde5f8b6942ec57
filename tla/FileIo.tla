------------------------------- MODULE FileIo -------------------------------
(***************************************************************************)
(* wpb_file_io.cpp: the disk images are WinRT streams, registered under a  *)
(* path; the disk code reads and writes them through handles.  A file of   *)
(* at most kMaxCachedFileSize bytes is read into memory when it is opened, *)
(* and written back, whole, when it is closed or when everything is        *)
(* flushed; a longer one is read and written in place.                     *)
(*                                                                         *)
(* The image code opens a path once: each probe for a format closes the    *)
(* file before the next one, or the image itself, opens it.  All calls are *)
(* made by the emulator's thread, one at a time, and the process may be    *)
(* ended by the user interface in the middle of one.                       *)
(***************************************************************************)
EXTENDS Integers, Sequences

CONSTANTS
  File,            \* the registered paths
  Value,           \* what a byte may hold
  Zero,            \* the byte that fills what a write skipped
  CacheLimit,      \* kMaxCachedFileSize
  MaxLength        \* bound: the length of a file

ConstantsOK ==
  /\ Zero \in Value
  /\ CacheLimit \in Nat
  /\ MaxLength \in Nat

Bytes == UNION {[1 .. n -> Value] : n \in 0 .. MaxLength}

VARIABLES
  stream,          \* stream[f]: what the stream reads back
  durable,         \* durable[f]: what it held when FlushAsync last ended
  open,            \* the files with an open handle
  handle,          \* handle[f]: the ExternalHandle
  unflushed,       \* the handles wpb_flush_all has still to flush
  reply,           \* the number the last call returned, and the bytes it read
  versions         \* history: what the file held since it was last saved

vars == <<stream, durable, open, handle, unflushed, reply, versions>>

ExternalHandle ==
  [data : Bytes, pos : 0 .. MaxLength, size : 0 .. MaxLength,
   dirty : BOOLEAN, cached : BOOLEAN]

TypeOK ==
  /\ stream \in [File -> Bytes]
  /\ durable \in [File -> Bytes]
  /\ open \subseteq File
  /\ handle \in [File -> ExternalHandle]
  /\ unflushed \subseteq open
  /\ reply \in [count : 0 .. MaxLength, bytes : Bytes]
  /\ versions \in [File -> SUBSET Bytes]

\* What the file holds for those that read it.
Held(f) == IF f \in open /\ handle[f].cached THEN handle[f].data ELSE stream[f]

Content == [f \in File |-> Held(f)]
Only(c) == [f \in File |-> {c[f]}]

-----------------------------------------------------------------------------
\* The bytes s once b was written to them at offset "at".
Overwritten(s, at, b) ==
  [i \in 1 .. (IF at + Len(b) > Len(s) THEN at + Len(b) ELSE Len(s)) |->
     IF i \in at + 1 .. at + Len(b) THEN b[i - at]
     ELSE IF i <= Len(s) THEN s[i]
     ELSE Zero]

\* At most n of the bytes of s from offset "at".
Available(s, at, n) == SubSeq(s, at + 1, IF at + n < Len(s) THEN at + n ELSE Len(s))

NoHandle == [data |-> <<>>, pos |-> 0, size |-> 0, dirty |-> FALSE, cached |-> TRUE]

Init ==
  /\ stream \in [File -> Bytes]
  /\ durable = stream
  /\ open = {}
  /\ handle = [f \in File |-> NoHandle]
  /\ unflushed = {}
  /\ reply = [count |-> 0, bytes |-> <<>>]
  /\ versions = Only(stream)

Idle == unflushed = {}

Opened(s) ==
  [NoHandle EXCEPT !.size = Len(s),
                   !.cached = Len(s) <= CacheLimit,
                   !.data = IF Len(s) <= CacheLimit THEN s ELSE <<>>]

wpb_open(f) ==
  /\ Idle
  /\ f \notin open
  /\ open' = open \cup {f}
  /\ handle' = [handle EXCEPT ![f] = Opened(stream[f])]
  /\ UNCHANGED <<stream, durable, unflushed, reply, versions>>

\* Wrong versions, which only a mutation uses: the new size not kept, or added
\* instead of set; the whole file written where the last write ended and not at its
\* beginning; what was written in place never flushed; a handle not marked by a
\* write.
SameSize(h, at) == h.size
SizeAdded(h, at) == h.size + at
AtPosition(h) == h.pos
OnlyCached(h) == h.dirty /\ h.cached
Unmarked(h) == h.dirty

\* The size of a file written in place up to "at".
SizeAfter(h, at) == IF at > h.size THEN at ELSE h.size

\* FlushHandleToStream seeks to the beginning before it writes the data.
FlushPosition(h) == 0

NeedsFlush(h) == h.dirty

\* "dirty" once something was written.
Marked(h) == TRUE

\* What the stream reads back after the flush of a handle.  WriteAsync does not
\* shorten it.
StreamAfter(f) ==
  IF handle[f].cached /\ NeedsFlush(handle[f])
  THEN Overwritten(stream[f], FlushPosition(handle[f]), handle[f].data)
  ELSE stream[f]

Flushed(f) ==
  /\ stream' = [stream EXCEPT ![f] = StreamAfter(f)]
  /\ durable' = [durable EXCEPT ![f] = IF NeedsFlush(handle[f]) THEN StreamAfter(f) ELSE @]
  /\ versions' = [versions EXCEPT ![f] = {Held(f)}]

wpb_close(f) ==
  /\ Idle
  /\ f \in open
  /\ Flushed(f)
  /\ open' = open \ {f}
  /\ UNCHANGED <<handle, unflushed, reply>>

\* SEEK_SET; the offsets are not negative.
wpb_lseek(f, offset) ==
  /\ Idle
  /\ f \in open
  /\ handle' = [handle EXCEPT ![f].pos = offset]
  /\ UNCHANGED <<stream, durable, open, unflushed, reply, versions>>

LengthOf(h) == IF h.cached THEN Len(h.data) ELSE h.size

\* SEEK_END.
LseekFromEnd(f, offset) ==
  /\ Idle
  /\ f \in open
  /\ LengthOf(handle[f]) + offset \in 0 .. MaxLength
  /\ handle' = [handle EXCEPT ![f].pos = LengthOf(handle[f]) + offset]
  /\ UNCHANGED <<stream, durable, open, unflushed, reply, versions>>

wpb_length(f) ==
  /\ Idle
  /\ f \in open
  /\ reply' = [count |-> LengthOf(handle[f]), bytes |-> <<>>]
  /\ UNCHANGED <<stream, durable, open, handle, unflushed, versions>>

\* Nothing is read at or behind the length the handle knows.
wpb_read(f, n) ==
  LET h == handle[f]
      wanted == IF h.pos + n < LengthOf(h) THEN n ELSE LengthOf(h) - h.pos
      got == IF h.pos >= LengthOf(h) THEN <<>> ELSE Available(Held(f), h.pos, wanted)
  IN  /\ Idle
      /\ f \in open
      /\ reply' = [count |-> Len(got), bytes |-> got]
      /\ handle' = [handle EXCEPT ![f].pos = @ + Len(got)]
      /\ UNCHANGED <<stream, durable, open, unflushed, versions>>

\* A cached file is changed in memory ...
WriteCached(f, b) ==
  LET h == handle[f]
  IN  /\ h.cached
      /\ handle' = [handle EXCEPT ![f].data = Overwritten(@, h.pos, b),
                                  ![f].pos = @ + Len(b),
                                  ![f].dirty = Marked(h)]
      /\ UNCHANGED stream

\* ... another one in its stream.
WriteInPlace(f, b) ==
  LET h == handle[f]
  IN  /\ ~h.cached
      /\ stream' = [stream EXCEPT ![f] = Overwritten(@, h.pos, b)]
      /\ handle' = [handle EXCEPT ![f].pos = @ + Len(b),
                                  ![f].size = SizeAfter(h, h.pos + Len(b)),
                                  ![f].dirty = Marked(h)]

wpb_write(f, b) ==
  /\ Idle
  /\ f \in open
  /\ b # <<>>
  /\ handle[f].pos + Len(b) <= MaxLength
  /\ WriteCached(f, b) \/ WriteInPlace(f, b)
  /\ versions' = [versions EXCEPT ![f] = @ \cup {Overwritten(Held(f), handle[f].pos, b)}]
  /\ UNCHANGED <<durable, open, unflushed, reply>>

\* wpb_flush_all takes note of the open handles ...
wpb_flush_all ==
  /\ Idle
  /\ unflushed' = open
  /\ UNCHANGED <<stream, durable, open, handle, reply, versions>>

\* ... and flushes one after the other.
FlushNext(f) ==
  /\ f \in unflushed
  /\ unflushed' = unflushed \ {f}
  /\ Flushed(f)
  /\ handle' = [handle EXCEPT ![f].dirty = FALSE]
  /\ UNCHANGED <<open, reply>>

\* The process ends.  What was written since the last FlushAsync may be lost;
\* a handle that was being flushed, or closed, may have got as far as WriteAsync.
Left(f, writing) == {durable[f], stream[f]} \cup (IF f \in writing THEN {StreamAfter(f)} ELSE {})

Crash(writing) ==
  /\ Idle \/ writing \subseteq unflushed
  /\ stream' \in [File -> Bytes]
  /\ \A f \in File : stream'[f] \in Left(f, writing)
  /\ durable' = stream'
  /\ open' = {}
  /\ unflushed' = {}
  /\ versions' = Only(stream')
  /\ UNCHANGED <<handle, reply>>

Next ==
  \/ \E f \in File : wpb_open(f) \/ wpb_close(f) \/ wpb_length(f) \/ FlushNext(f)
  \/ \E f \in File, offset \in 0 .. MaxLength : wpb_lseek(f, offset)
  \/ \E f \in File, offset \in -MaxLength .. MaxLength : LseekFromEnd(f, offset)
  \/ \E f \in File, n \in 1 .. MaxLength : wpb_read(f, n)
  \/ \E f \in File, b \in Bytes : wpb_write(f, b)
  \/ wpb_flush_all
  \/ Crash({}) \/ \E f \in open : Crash({f})

Spec == Init /\ [][Next]_vars

-----------------------------------------------------------------------------
\* A handle that is not dirty has nothing to lose: whatever reads the file, now
\* or after the process was ended, reads the same bytes (FlushHandleToStream
\* returns at once for such a handle, and wpb_close does not flush it).
CleanIsSaved ==
  \A f \in File :
    f \in open /\ ~handle[f].dirty => durable[f] = Held(f) /\ stream[f] = Held(f)

\* A file kept in memory is never shorter than its stream: the write of the
\* whole file, which does not shorten the stream, leaves nothing of the old one.
NothingBehindTheData ==
  \A f \in open : handle[f].cached => Len(stream[f]) <= Len(handle[f].data)

\* "flushes every open externally-registered handle, call before exit()"
\* (wpb_file_io.h): once it has returned, ending the process loses nothing.
FlushAllSaves ==
  [][unflushed # {} /\ unflushed' = {} /\ open' = open
       => \A f \in open : durable'[f] = Held(f)']_vars

Backed ==
  INSTANCE BackedFile WITH content <- Content, pos <- [f \in File |-> handle[f].pos]

\* What the image code sees is a file with a position, whether it is kept in
\* memory or not, and what an abrupt end leaves is something the file held
\* since it was last saved.
ImplementsBackedFile == Backed!Spec
=============================================================================
