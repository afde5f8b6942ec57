----------------------------- MODULE BackedFile -----------------------------
(***************************************************************************)
(* What the disk image code takes the calls of wpb_file_io.h for: files    *)
(* with a position, that read back what was written, whatever the layer    *)
(* keeps in memory.  A program that ends without saving leaves in a file   *)
(* something the file held since it was last saved.                        *)
(***************************************************************************)
EXTENDS Integers, Sequences

CONSTANTS
  File,            \* the registered paths
  Value,           \* what a byte may hold
  Zero,            \* what a byte that was skipped by a write holds
  MaxLength        \* bound: the length of a file

Bytes == UNION {[1 .. n -> Value] : n \in 0 .. MaxLength}

VARIABLES
  content,         \* content[f]: the bytes of the file
  versions,        \* versions[f]: what it held since it was last saved
  pos,             \* pos[f]: its position
  reply            \* what the last call returned

vars == <<content, versions, pos, reply>>

\* The bytes s once b was written to them at offset "at".
Overwritten(s, at, b) ==
  [i \in 1 .. (IF at + Len(b) > Len(s) THEN at + Len(b) ELSE Len(s)) |->
     IF i \in at + 1 .. at + Len(b) THEN b[i - at]
     ELSE IF i <= Len(s) THEN s[i]
     ELSE Zero]

\* At most n of the bytes of s from offset "at".
Available(s, at, n) == SubSeq(s, at + 1, IF at + n < Len(s) THEN at + n ELSE Len(s))

Init ==
  /\ content \in [File -> Bytes]
  /\ versions = [f \in File |-> {content[f]}]
  /\ pos = [f \in File |-> 0]
  /\ reply = [count |-> 0, bytes |-> <<>>]

Seek(f, p) ==
  /\ p \in Nat
  /\ pos' = [pos EXCEPT ![f] = p]
  /\ UNCHANGED <<content, versions, reply>>

SeekFromEnd(f, offset) ==
  /\ Len(content[f]) + offset >= 0
  /\ pos' = [pos EXCEPT ![f] = Len(content[f]) + offset]
  /\ UNCHANGED <<content, versions, reply>>

Length(f) ==
  /\ reply' = [count |-> Len(content[f]), bytes |-> <<>>]
  /\ UNCHANGED <<content, versions, pos>>

Read(f, n) ==
  LET got == Available(content[f], pos[f], n)
  IN  /\ reply' = [count |-> Len(got), bytes |-> got]
      /\ pos' = [pos EXCEPT ![f] = @ + Len(got)]
      /\ UNCHANGED <<content, versions>>

Write(f, b) ==
  /\ content' = [content EXCEPT ![f] = Overwritten(@, pos[f], b)]
  /\ versions' = [versions EXCEPT ![f] = @ \cup {Overwritten(content[f], pos[f], b)}]
  /\ pos' = [pos EXCEPT ![f] = @ + Len(b)]
  /\ UNCHANGED reply

\* The file is saved: by closing it, or with all others.
Save(f) ==
  /\ versions' = [versions EXCEPT ![f] = {content[f]}]
  /\ UNCHANGED <<content, pos, reply>>

\* The program ends without saving.
Crash ==
  /\ content' \in [File -> Bytes]
  /\ \A f \in File : content'[f] \in versions[f]
  /\ versions' = [f \in File |-> {content'[f]}]
  /\ UNCHANGED <<pos, reply>>

Next ==
  \/ \E f \in File, p \in 0 .. MaxLength : Seek(f, p)
  \/ \E f \in File, offset \in -MaxLength .. MaxLength : SeekFromEnd(f, offset)
  \/ \E f \in File : Length(f)
  \/ \E f \in File, n \in 1 .. MaxLength : Read(f, n)
  \/ \E f \in File, b \in Bytes : Write(f, b)
  \/ \E f \in File : Save(f)
  \/ Crash

Spec == Init /\ [][Next]_vars
=============================================================================
