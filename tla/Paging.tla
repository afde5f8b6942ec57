------------------------------- MODULE Paging -------------------------------
(***************************************************************************)
(* Translation of linear pages to frames (cpu/paging.cc): the walk of the  *)
(* page directory and page table, the TLB, of which a linear page has one  *)
(* slot, and the window of the page that instructions are fetched from     *)
(* (prefetch, cpu/cpu.cc), which is not translated again until it is left. *)
(* "s" is the CPU; "dir" and "pt" are the guest's tables, for each value   *)
(* of CR3 a directory of one entry and the table it points to.  Neither    *)
(* large pages nor global ones are built in.                               *)
(***************************************************************************)
EXTENDS Integers

CONSTANTS
  Pages,           \* linear pages, which are numbers
  Slots,           \* how many slots the TLB has
  Spaces,          \* values of CR3
  Mapped(_, _),    \* the frame that a page of a space is first mapped to
  MaxEdits         \* bound: changes of the tables by the guest

ConstantsOK ==
  /\ Pages \subseteq Nat /\ Slots \in Nat \ {0} /\ Spaces # {} /\ MaxEdits \in Nat
  /\ \A c \in Spaces, p \in Pages : Mapped(c, p) \in Nat

VARIABLES
  s,               \* the CPU
  dir, pt,         \* the tables
  allowed,         \* history: accesses that the tables allowed at some time since the flush
  touched,         \* history: pages whose entries the guest changed since
  moved,           \* history: A20 changed since the window was filled
  edits

vars == <<s, dir, pt, allowed, touched, moved, edits>>

NoPage == -1
Invalid == [lpf |-> NoPage, ppf |-> 0, ok |-> {}]
Access == [user : BOOLEAN, write : BOOLEAN]
A20ADDR(a20, frame) == IF a20 THEN frame ELSE frame - (frame % 2)

TypeOK ==
  /\ s.cr3 \in Spaces /\ {s.pg, s.wp, s.user, s.a20} \subseteq BOOLEAN
  /\ \A i \in 0 .. Slots - 1 : s.TLB[i].lpf \in Pages \union {NoPage} /\ s.TLB[i].ok \subseteq Access
  /\ \A i \in 0 .. Slots - 1 : s.TLB[i].lpf # NoPage => s.TLB[i].lpf % Slots = i
  /\ s.window \in Pages \union {NoPage} /\ s.at \in Nat
  /\ dir \in [Spaces -> [P : BOOLEAN, US : BOOLEAN, RW : BOOLEAN, A : BOOLEAN]]
  /\ \A c \in Spaces, p \in Pages : {pt[c][p].P, pt[c][p].US, pt[c][p].RW, pt[c][p].A, pt[c][p].D} \subseteq BOOLEAN
  /\ touched \subseteq Pages /\ moved \in BOOLEAN /\ edits \in 0 .. MaxEdits

-----------------------------------------------------------------------------
(* The walk. *)

\* Whether an access may be made to a page; WP has the supervisor obey RW.
priv_check(wp, a, us, rw) == (a.user => us) /\ (a.write /\ (wp \/ a.user) => rw)

Combined(d, t, c, p) == [us |-> d[c].US /\ t[c][p].US, rw |-> d[c].RW /\ t[c][p].RW]

Walks(k, d, t, p, a) ==
  /\ d[k.cr3].P /\ t[k.cr3][p].P
  /\ priv_check(k.wp, a, Combined(d, t, k.cr3, p).us, Combined(d, t, k.cr3, p).rw)

\* Everything the tables allow: a page, the frame it leads to, and an access.
Now(k, d, t) ==
  UNION {{<<p, t[k.cr3][p].frame, a>> : a \in {b \in Access : Walks(k, d, t, p, b)}} : p \in Pages}

\* Accesses that the new entry lets pass: writes only after a write, which marked
\* the page dirty.
GrantsEarly(us, write) == {a \in Access : a.user => us}
Grants(us, write) == {a \in Access : (a.user => us) /\ (a.write => write)}

\* dtranslate_linear: the CPU after it, the tables, whether it faults, the frame.
Slot(p) == p % Slots
dtranslate(k, p, a) ==
  LET e == k.TLB[Slot(p)]
      c == k.cr3
      frame == pt[c][p].frame
  IN  IF e.lpf = p /\ a \in e.ok
      THEN [k |-> k, dir |-> dir, pt |-> pt, fault |-> FALSE, frame |-> e.ppf]
      ELSE IF ~Walks(k, dir, pt, p, a)
      THEN [k |-> [k EXCEPT !.TLB[Slot(p)] = Invalid], dir |-> dir, pt |-> pt, fault |-> TRUE, frame |-> 0]
      ELSE [k |-> [k EXCEPT !.TLB[Slot(p)] =
                     [lpf |-> p, ppf |-> frame, ok |-> Grants(Combined(dir, pt, c, p).us, a.write)]],
            dir |-> [dir EXCEPT ![c].A = TRUE],
            pt |-> [pt EXCEPT ![c][p].A = TRUE, ![c][p].D = @ \/ a.write],
            fault |-> FALSE, frame |-> frame]

-----------------------------------------------------------------------------
Blank == [i \in 0 .. Slots - 1 |-> Invalid]

Init ==
  /\ s = [cr3 |-> CHOOSE c \in Spaces : TRUE, pg |-> TRUE, wp |-> FALSE, user |-> FALSE, a20 |-> TRUE,
          TLB |-> Blank, window |-> NoPage, at |-> 0]
  /\ dir = [c \in Spaces |-> [P |-> TRUE, US |-> TRUE, RW |-> TRUE, A |-> FALSE]]
  /\ pt = [c \in Spaces |-> [p \in Pages |->
            [P |-> TRUE, US |-> TRUE, RW |-> TRUE, A |-> FALSE, D |-> FALSE, frame |-> Mapped(c, p)]]]
  /\ allowed = Now(s, dir, pt) /\ touched = {} /\ moved = FALSE /\ edits = 0

Flushed(k) == allowed' = Now(k, dir, pt) /\ touched' = {}
Kept == UNCHANGED <<allowed, touched>>

\* A page fault is delivered at the supervisor's level, and leaves the window.
Done(t) ==
  /\ s' = IF t.fault THEN [t.k EXCEPT !.window = NoPage, !.at = 0, !.user = FALSE] ELSE t.k
  /\ dir' = t.dir /\ pt' = t.pt

Reads(write) == [user |-> s.user, write |-> write]

\* access_linear, when paging is enabled.
access_linear == \E p \in Pages, write \in BOOLEAN :
  s.pg /\ Done(dtranslate(s, p, Reads(write))) /\ Kept /\ UNCHANGED <<moved, edits>>

\* The loop of the CPU fetches an instruction from another page.
prefetch == \E p \in Pages :
  /\ s.window # p
  /\ LET t == dtranslate(s, p, Reads(FALSE)) IN
     IF ~s.pg
     THEN s' = [s EXCEPT !.window = p, !.at = A20ADDR(s.a20, p)] /\ UNCHANGED <<dir, pt>>
     ELSE IF t.fault THEN Done(t)
     ELSE s' = [t.k EXCEPT !.window = p, !.at = A20ADDR(s.a20, t.frame)] /\ dir' = t.dir /\ pt' = t.pt
  /\ moved' = FALSE /\ Kept /\ UNCHANGED edits

-----------------------------------------------------------------------------
(* Instructions of the supervisor. *)

TLB_flush(k) == [k EXCEPT !.TLB = Blank]
WindowKept(k) == k
invalidate_prefetch_q(k) == [k EXCEPT !.window = NoPage, !.at = 0]

\* MOV to CR3, and a task switch.
CR3_change == \E c \in Spaces :
  /\ ~s.user
  /\ s' = [TLB_flush(invalidate_prefetch_q(s)) EXCEPT !.cr3 = c]
  /\ Flushed(s') /\ UNCHANGED <<dir, pt, moved, edits>>

\* MOV to CR0: a change of PG or WP flushes the TLB.
FlushedOnPG(old, new) == IF old.pg # new.pg THEN TLB_flush(new) ELSE new
pagingCR0Changed(old, new) == IF old.pg # new.pg \/ old.wp # new.wp THEN TLB_flush(new) ELSE new

SetCR0 == \E pg \in BOOLEAN, wp \in BOOLEAN :
  /\ ~s.user /\ <<pg, wp>> # <<s.pg, s.wp>>
  /\ s' = pagingCR0Changed(s, [invalidate_prefetch_q(s) EXCEPT !.pg = pg, !.wp = wp])
  /\ Flushed(s') /\ UNCHANGED <<dir, pt, moved, edits>>

INVLPG == \E p \in Pages :
  /\ ~s.user
  /\ s' = [invalidate_prefetch_q(s) EXCEPT !.TLB[Slot(p)] = Invalid]
  /\ allowed' = {x \in allowed : x[1] # p} \union {x \in Now(s, dir, pt) : x[1] = p}
  /\ touched' = touched \ {p}
  /\ UNCHANGED <<dir, pt, moved, edits>>

\* A transfer to the other level goes through a segment, and leaves the window.
ChangesLevel ==
  /\ s' = [invalidate_prefetch_q(s) EXCEPT !.user = ~@]
  /\ UNCHANGED <<dir, pt, allowed, touched, moved, edits>>

\* A write to a port.
pagingA20Changed ==
  /\ ~s.user
  /\ s' = [TLB_flush(s) EXCEPT !.a20 = ~@]
  /\ Flushed(s') /\ moved' = (s.window # NoPage) /\ UNCHANGED <<dir, pt, edits>>

-----------------------------------------------------------------------------
\* The guest changes an entry, of which the TLB hears nothing.
Edited(d, t, pages) ==
  /\ edits < MaxEdits /\ edits' = edits + 1 /\ ~s.user
  /\ dir' = d /\ pt' = t
  /\ allowed' = allowed \union Now(s, d, t) /\ touched' = touched \union pages
  /\ UNCHANGED <<s, moved>>

EditsTable == \E c \in Spaces, p \in Pages :
  LET was == pt[c][p] IN
  \E e \in {[was EXCEPT !.P = ~@], [was EXCEPT !.US = ~@], [was EXCEPT !.RW = ~@],
            [was EXCEPT !.A = FALSE, !.D = FALSE], [was EXCEPT !.frame = 1 - (@ % 2)]} :
    e # was /\ Edited(dir, [pt EXCEPT ![c][p] = e], {p})

EditsDirectory == \E c \in Spaces :
  LET was == dir[c] IN
  \E e \in {[was EXCEPT !.US = ~@], [was EXCEPT !.RW = ~@], [was EXCEPT !.A = FALSE]} :
    e # was /\ Edited([dir EXCEPT ![c] = e], pt, Pages)

Next ==
  \/ access_linear \/ prefetch \/ CR3_change \/ SetCR0 \/ INVLPG \/ ChangesLevel \/ pagingA20Changed
  \/ EditsTable \/ EditsDirectory

Spec == Init /\ [][Next]_vars

-----------------------------------------------------------------------------
Valid(i) == s.TLB[i].lpf # NoPage

\* What the TLB lets pass without a walk, the tables of this address space have
\* allowed at some time since the guest last told the CPU to forget them; but a
\* write by the supervisor, with WP clear, to a page that is only to be read lets
\* the user write there too.
OnlySupervisorWritesWiden ==
  \A i \in 0 .. Slots - 1 : Valid(i) =>
    \A a \in s.TLB[i].ok : <<s.TLB[i].lpf, s.TLB[i].ppf, a>> \in allowed \/ (a.user /\ a.write /\ ~s.wp)

\* A page that can be written to without a walk is marked dirty, and one that can
\* be used is marked accessed, unless the guest has changed its entries since.
MarkedBeforeUse ==
  \A i \in 0 .. Slots - 1 : Valid(i) =>
    LET p == s.TLB[i].lpf IN
    \/ p \in touched
    \/ /\ dir[s.cr3].A /\ pt[s.cr3][p].A
       /\ (\E a \in s.TLB[i].ok : a.write) => pt[s.cr3][p].D

\* Instructions come from the frame that this address space maps their page to,
\* or did since it was told to forget; a change of A20 does not count until the
\* window is left.
OnlyA20LeavesFetchStale ==
  s.window # NoPage /\ ~moved =>
    IF s.pg THEN \E x \in allowed : x[1] = s.window /\ s.at = A20ADDR(s.a20, x[2]) /\ x[3] = Reads(FALSE)
    ELSE s.at = A20ADDR(s.a20, s.window)
=============================================================================
