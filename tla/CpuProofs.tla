----------------------------- MODULE CpuProofs -----------------------------
(***************************************************************************)
(* What MCCpu's run checks of the translation of addresses, proved for any *)
(* pages, slots of the TLB, address spaces and number of edits.  The       *)
(* inductive invariant says of each entry of the TLB what the tables have  *)
(* allowed since the last flush, and that they allow no more than that     *)
(* now.                                                                    *)
(***************************************************************************)
EXTENDS MCCpu, TLAPS

Page == LinearPages \cup {Translation!NoPage}
EntryType == [lpf : Page, ppf : Nat, ok : SUBSET Translation!Access]
Slot == 0 .. TlbSlots - 1
MmuType == [cr3 : AddressSpaces, pg : BOOLEAN, wp : BOOLEAN, user : BOOLEAN, a20 : BOOLEAN,
            TLB : [Slot -> EntryType], window : Page, at : Nat]
MmuFields == {"cr3", "pg", "wp", "user", "a20", "TLB", "window", "at"}
DirType == [P : BOOLEAN, US : BOOLEAN, RW : BOOLEAN, A : BOOLEAN]
TableType == [P : BOOLEAN, US : BOOLEAN, RW : BOOLEAN, A : BOOLEAN, D : BOOLEAN, frame : Nat]

TablesTyped(d, t) == d \in [AddressSpaces -> DirType] /\ t \in [AddressSpaces -> [LinearPages -> TableType]]

\* What an entry of the TLB lets pass is allowed, or is the supervisor's excess;
\* what it leads to is marked, unless the guest has changed the tables.
EntryAllowed(k, e, al) ==
  \A a \in e.ok : <<e.lpf, e.ppf, a>> \in al \/ (a.user /\ a.write /\ ~k.wp)
EntryMarked(k, e, d, t, to) ==
  \/ e.lpf \in to
  \/ /\ d[k.cr3].A /\ t[k.cr3][e.lpf].A
     /\ (\E a \in e.ok : a.write) => t[k.cr3][e.lpf].D
EntrySound(k, e, n, d, t, al, to) ==
  e.lpf # Translation!NoPage =>
    e.lpf % TlbSlots = n /\ EntryAllowed(k, e, al) /\ EntryMarked(k, e, d, t, to)

TlbSound(k, d, t, al, to) == \A n \in Slot : EntrySound(k, k.TLB[n], n, d, t, al, to)

\* The window is on a page that may be read, at the frame it was mapped to.
WindowSound(k, al, mv) ==
  k.window # Translation!NoPage /\ ~mv =>
    IF k.pg THEN \E x \in al : /\ x[1] = k.window /\ k.at = Translation!A20ADDR(k.a20, x[2])
                               /\ x[3] = [user |-> k.user, write |-> FALSE]
    ELSE k.at = Translation!A20ADDR(k.a20, k.window)

PagingSound ==
  /\ mmu \in MmuType /\ TablesTyped(dir, pt)
  /\ Translation!Now(mmu, dir, pt) \subseteq allowed
  /\ TlbSound(mmu, dir, pt, allowed, touched)
  /\ WindowSound(mmu, allowed, moved)

\* The tables give the same rights, and no mark is taken away.
SameRights(d, t, d2, t2) ==
  \A c \in AddressSpaces :
    /\ d2[c].P = d[c].P /\ d2[c].US = d[c].US /\ d2[c].RW = d[c].RW
    /\ \A p \in LinearPages : /\ t2[c][p].P = t[c][p].P /\ t2[c][p].US = t[c][p].US
                              /\ t2[c][p].RW = t[c][p].RW /\ t2[c][p].frame = t[c][p].frame
KeepMarks(d, t, d2, t2) ==
  \A c \in AddressSpaces :
    /\ d[c].A => d2[c].A
    /\ \A p \in LinearPages : (t[c][p].A => t2[c][p].A) /\ (t[c][p].D => t2[c][p].D)

\* The fields of a translation unit.
LEMMA MmuFieldsAre ==
  ASSUME NEW k \in MmuType
  PROVE  /\ DOMAIN k = MmuFields /\ k.cr3 \in AddressSpaces /\ k.TLB \in [Slot -> EntryType]
         /\ k.pg \in BOOLEAN /\ k.wp \in BOOLEAN /\ k.user \in BOOLEAN /\ k.a20 \in BOOLEAN
         /\ k.window \in Page /\ k.at \in Nat
<1>1. DOMAIN k = MmuFields
  BY SMT DEF MmuType, MmuFields
<1> QED  BY <1>1, Zenon DEF MmuType

\* What the tables allow.
LEMMA InNow ==
  ASSUME NEW k, NEW d, NEW t, NEW x
  PROVE  x \in Translation!Now(k, d, t)
           <=> \E p \in LinearPages, a \in Translation!Access :
                 Translation!Walks(k, d, t, p, a) /\ x = <<p, t[k.cr3][p].frame, a>>
  BY SMT DEF Translation!Now

\* They allow the same as long as their rights are the same.
LEMMA SameRightsAllow ==
  ASSUME NEW k, NEW k2, NEW d, NEW t, NEW d2, NEW t2, SameRights(d, t, d2, t2),
         k.cr3 \in AddressSpaces, k2.cr3 = k.cr3, k2.wp = k.wp
  PROVE  Translation!Now(k2, d2, t2) = Translation!Now(k, d, t)
<1>1. /\ d2[k.cr3].P = d[k.cr3].P /\ d2[k.cr3].US = d[k.cr3].US /\ d2[k.cr3].RW = d[k.cr3].RW
      /\ \A p \in LinearPages :
           /\ t2[k.cr3][p].P = t[k.cr3][p].P /\ t2[k.cr3][p].US = t[k.cr3][p].US
           /\ t2[k.cr3][p].RW = t[k.cr3][p].RW /\ t2[k.cr3][p].frame = t[k.cr3][p].frame
  BY Zenon DEF SameRights
<1>2. \A p \in LinearPages : Translation!Combined(d2, t2, k.cr3, p) = Translation!Combined(d, t, k.cr3, p)
  BY <1>1, Zenon DEF Translation!Combined
<1>3. \A p \in LinearPages, a \in Translation!Access :
        Translation!Walks(k2, d2, t2, p, a) <=> Translation!Walks(k, d, t, p, a)
  <2> SUFFICES ASSUME NEW p \in LinearPages, NEW a
               PROVE  Translation!Walks(k2, d2, t2, p, a) <=> Translation!Walks(k, d, t, p, a)
    BY Zenon
  <2>1. t2[k.cr3][p].P = t[k.cr3][p].P /\ Translation!Combined(d2, t2, k.cr3, p) = Translation!Combined(d, t, k.cr3, p)
    BY ONLY <1>1, <1>2, p \in LinearPages, Zenon
  <2> QED  BY <1>1, <2>1, Zenon DEF Translation!Walks
<1>4. \A x : x \in Translation!Now(k2, d2, t2) <=> x \in Translation!Now(k, d, t)
  <2> TAKE x
  <2>1. x \in Translation!Now(k2, d2, t2)
          <=> \E p \in LinearPages, a \in Translation!Access :
                Translation!Walks(k2, d2, t2, p, a) /\ x = <<p, t2[k2.cr3][p].frame, a>>
    BY InNow, SMT
  <2>2. x \in Translation!Now(k, d, t)
          <=> \E p \in LinearPages, a \in Translation!Access :
                Translation!Walks(k, d, t, p, a) /\ x = <<p, t[k.cr3][p].frame, a>>
    BY InNow, SMT
  <2>3. \A p \in LinearPages : t2[k2.cr3][p].frame = t[k.cr3][p].frame
    BY <1>1, Zenon
  <2>4. \A p \in LinearPages, a \in Translation!Access :
          Translation!Walks(k2, d2, t2, p, a) /\ x = <<p, t2[k2.cr3][p].frame, a>>
            <=> Translation!Walks(k, d, t, p, a) /\ x = <<p, t[k.cr3][p].frame, a>>
    BY <1>3, <2>3, SMT
  <2> QED  BY ONLY <2>1, <2>2, <2>4, Zenon
<1> QED  BY <1>4, Zenon

\* Marks keep an entry as it was.
LEMMA MarksKeepEntry ==
  ASSUME NEW k, NEW k2, NEW e, NEW n, NEW d, NEW t, NEW d2, NEW t2, NEW al, NEW to,
         KeepMarks(d, t, d2, t2), k.cr3 \in AddressSpaces, e.lpf \in Page,
         k2.cr3 = k.cr3, k2.wp = k.wp, EntrySound(k, e, n, d, t, al, to)
  PROVE  EntrySound(k2, e, n, d2, t2, al, to)
<1> SUFFICES ASSUME e.lpf # Translation!NoPage
             PROVE  e.lpf % TlbSlots = n /\ EntryAllowed(k2, e, al) /\ EntryMarked(k2, e, d2, t2, to)
  BY Zenon DEF EntrySound
<1>1. e.lpf % TlbSlots = n /\ EntryAllowed(k, e, al) /\ EntryMarked(k, e, d, t, to)
  BY Zenon DEF EntrySound
<1>2. e.lpf \in LinearPages
  BY Zenon DEF Page
<1>3. EntryAllowed(k2, e, al)
  BY <1>1, Zenon DEF EntryAllowed
<1>4. EntryMarked(k2, e, d2, t2, to)
  BY <1>1, <1>2, Zenon DEF EntryMarked, KeepMarks
<1> QED  BY <1>1, <1>3, <1>4, Zenon

\* The entry that dtranslate_linear makes after a walk lets pass what the tables
\* allow, or what the supervisor was allowed.
LEMMA NewEntryAllowed ==
  ASSUME NEW k \in MmuType, NEW d, NEW t, TablesTyped(d, t), NEW p \in LinearPages,
         NEW a \in Translation!Access, Translation!Walks(k, d, t, p, a),
         NEW b \in Translation!Grants(Translation!Combined(d, t, k.cr3, p).us, a.write)
  PROVE  b \in Translation!Access /\ (Translation!Walks(k, d, t, p, b) \/ (b.user /\ b.write /\ ~k.wp))
<1> DEFINE us == Translation!Combined(d, t, k.cr3, p).us
           rw == Translation!Combined(d, t, k.cr3, p).rw
<1>1. b \in Translation!Access /\ (b.user => us) /\ (b.write => a.write)
  BY Zenon DEF Translation!Grants
<1>2. d[k.cr3].P /\ t[k.cr3][p].P /\ Translation!priv_check(k.wp, a, us, rw)
  BY Zenon DEF Translation!Walks
<1> HIDE DEF us, rw
<1>3. (a.user => us) /\ (a.write /\ (k.wp \/ a.user) => rw)
  BY <1>2, Zenon DEF Translation!priv_check
<1>4. CASE b.user /\ b.write /\ ~k.wp
  BY <1>1, <1>4, Zenon
<1>5. CASE ~(b.user /\ b.write /\ ~k.wp)
  <2>1. Translation!priv_check(k.wp, b, us, rw)
    BY <1>1, <1>3, <1>5, Zenon DEF Translation!priv_check
  <2> QED  BY <1>1, <1>2, <2>1, Zenon DEF Translation!Walks, us, rw
<1> QED  BY <1>4, <1>5, Zenon

\* The CPU with another entry in a slot.
Filled(k, n, e) == [k EXCEPT !.TLB[n] = e]

\* A slot of the TLB is filled; the others stay.
LEMMA TlbUpdated ==
  ASSUME NEW k \in MmuType, NEW n \in Slot, NEW e \in EntryType,
         NEW k2, k2 = Filled(k, n, e)
  PROVE  /\ k2 \in MmuType /\ k2.TLB[n] = e /\ (\A m \in Slot : m # n => k2.TLB[m] = k.TLB[m])
         /\ k2.cr3 = k.cr3 /\ k2.pg = k.pg /\ k2.wp = k.wp /\ k2.user = k.user
         /\ k2.a20 = k.a20 /\ k2.window = k.window /\ k2.at = k.at
<1>1. DOMAIN k = MmuFields /\ k.TLB \in [Slot -> EntryType]
  BY MmuFieldsAre, Zenon
<1>2. /\ k2.cr3 = k.cr3 /\ k2.pg = k.pg /\ k2.wp = k.wp /\ k2.user = k.user
      /\ k2.a20 = k.a20 /\ k2.window = k.window /\ k2.at = k.at
      /\ k2.TLB = [k.TLB EXCEPT ![n] = e]
  BY <1>1, SMT DEF MmuFields, Filled
<1>3. k2.TLB \in [Slot -> EntryType] /\ k2.TLB[n] = e /\ (\A m \in Slot : m # n => k2.TLB[m] = k.TLB[m])
  BY <1>1, <1>2, SMT
<1>4. k2 = [cr3 |-> k2.cr3, pg |-> k2.pg, wp |-> k2.wp, user |-> k2.user, a20 |-> k2.a20,
            TLB |-> k2.TLB, window |-> k2.window, at |-> k2.at]
  BY <1>1, SMT DEF MmuFields, Filled
<1>5. k2 \in MmuType
  BY <1>2, <1>3, <1>4, MmuFieldsAre, Zenon DEF MmuType
<1> QED  BY <1>2, <1>3, <1>5, Zenon

\* The fields of an entry of the tables.
LEMMA TableFieldsAre ==
  ASSUME NEW e \in TableType
  PROVE  /\ DOMAIN e = {"P", "US", "RW", "A", "D", "frame"}
         /\ e.P \in BOOLEAN /\ e.US \in BOOLEAN /\ e.RW \in BOOLEAN /\ e.A \in BOOLEAN
         /\ e.D \in BOOLEAN /\ e.frame \in Nat
<1>1. DOMAIN e = {"P", "US", "RW", "A", "D", "frame"}
  BY SMT DEF TableType
<1> QED  BY <1>1, Zenon DEF TableType

\* The fields of a directory entry.
LEMMA DirFieldsAre ==
  ASSUME NEW e \in DirType
  PROVE  /\ DOMAIN e = {"P", "US", "RW", "A"}
         /\ e.P \in BOOLEAN /\ e.US \in BOOLEAN /\ e.RW \in BOOLEAN /\ e.A \in BOOLEAN
<1>1. DOMAIN e = {"P", "US", "RW", "A"}
  BY SMT DEF DirType
<1> QED  BY <1>1, Zenon DEF DirType

\* An entry that a walk marks.
Marked(e, x, y) == [[e EXCEPT !.A = x] EXCEPT !.D = y]

MarkedAs(e, x, y, r) ==
  /\ r \in TableType /\ r.P = e.P /\ r.US = e.US /\ r.RW = e.RW /\ r.frame = e.frame
  /\ r.A = x /\ r.D = y

\* The accessed and dirty bits of a table entry are written, and nothing else.
LEMMA TableMarked ==
  ASSUME NEW e \in TableType, NEW x \in BOOLEAN, NEW y \in BOOLEAN
  PROVE  MarkedAs(e, x, y, Marked(e, x, y))
<1> DEFINE e1 == [e EXCEPT !.A = x]
           e2 == [e1 EXCEPT !.D = y]
<1>1. DOMAIN e = {"P", "US", "RW", "A", "D", "frame"}
  BY TableFieldsAre, Zenon
<1>2. /\ DOMAIN e1 = {"P", "US", "RW", "A", "D", "frame"} /\ e1.A = x
      /\ e1.P = e.P /\ e1.US = e.US /\ e1.RW = e.RW /\ e1.frame = e.frame
  BY <1>1, SMT
<1> HIDE DEF e1
<1>3. /\ e2.P = e.P /\ e2.US = e.US /\ e2.RW = e.RW /\ e2.frame = e.frame /\ e2.A = x /\ e2.D = y
      /\ e2 = [P |-> e2.P, US |-> e2.US, RW |-> e2.RW, A |-> e2.A, D |-> e2.D, frame |-> e2.frame]
  BY ONLY <1>2, SMT
<1>4. Marked(e, x, y) = e2
  BY Zenon DEF Marked, e1
<1> HIDE DEF e2
<1>5. e2 \in TableType
  BY <1>3, TableFieldsAre, Zenon DEF TableType
<1>6. MarkedAs(e, x, y, e2)
  BY ONLY <1>3, <1>5, Zenon DEF MarkedAs
<1> QED  BY ONLY <1>4, <1>6, Zenon

\* The accessed bit of a directory entry is set, and nothing else.
LEMMA DirMarked ==
  ASSUME NEW e \in DirType, NEW e2, e2 = [e EXCEPT !.A = TRUE]
  PROVE  e2 \in DirType /\ e2.P = e.P /\ e2.US = e.US /\ e2.RW = e.RW /\ e2.A
<1> DEFINE yes == TRUE
<1>1. yes \in BOOLEAN /\ yes
  BY Zenon
<1>2. e2 = [e EXCEPT !.A = yes]
  OBVIOUS
<1> HIDE DEF yes
<1>3. DOMAIN e = {"P", "US", "RW", "A"}
  BY DirFieldsAre, Zenon
<1>4. /\ e2.P = e.P /\ e2.US = e.US /\ e2.RW = e.RW /\ e2.A = yes
      /\ e2 = [P |-> e2.P, US |-> e2.US, RW |-> e2.RW, A |-> e2.A]
  BY ONLY <1>2, <1>3, SMT
<1>5. e2 \in DirType
  BY <1>1, <1>4, DirFieldsAre, Zenon DEF DirType
<1> QED  BY <1>1, <1>4, <1>5, Zenon

\* A walk marks an entry of the directory and one of the table, and gives no right.
MarkedDir(d, c) == [d EXCEPT ![c].A = TRUE]
MarkedTable(t, c, p, w) == [t EXCEPT ![c][p].A = TRUE, ![c][p].D = @ \/ w]

\* What a walk writes into the tables.
LEMMA WalkMarks ==
  ASSUME NEW d, NEW t, TablesTyped(d, t), NEW c \in AddressSpaces, NEW p \in LinearPages, NEW w \in BOOLEAN,
         NEW d2, d2 = MarkedDir(d, c),
         NEW t2, t2 = MarkedTable(t, c, p, w)
  PROVE  /\ TablesTyped(d2, t2) /\ SameRights(d, t, d2, t2) /\ KeepMarks(d, t, d2, t2)
         /\ d2[c].A /\ t2[c][p].A /\ (w => t2[c][p].D)
<1> DEFINE yes == TRUE
           dirty == t[c][p].D \/ w
           de == [d[c] EXCEPT !.A = TRUE]
           te == Marked(t[c][p], yes, dirty)
<1>1. d \in [AddressSpaces -> DirType] /\ t \in [AddressSpaces -> [LinearPages -> TableType]]
  BY Zenon DEF TablesTyped
<1>2. d[c] \in DirType /\ t[c] \in [LinearPages -> TableType] /\ t[c][p] \in TableType
  BY <1>1, Zenon
<1>3. d2 = [d EXCEPT ![c] = de]
  BY <1>1, Zenon DEF MarkedDir
<1>4. t2 = [t EXCEPT ![c] = [t[c] EXCEPT ![p] = te]]
  BY <1>1, <1>2, Zenon DEF Marked, MarkedTable
<1>5. de \in DirType /\ de.P = d[c].P /\ de.US = d[c].US /\ de.RW = d[c].RW /\ de.A
  BY <1>2, DirMarked, Zenon
<1>0. yes \in BOOLEAN /\ dirty \in BOOLEAN /\ yes /\ (t[c][p].D => dirty) /\ (w => dirty)
  OBVIOUS
<1>d. yes \in BOOLEAN /\ dirty \in BOOLEAN
  OBVIOUS
<1> HIDE DEF yes, dirty
<1>6. /\ te \in TableType /\ te.P = t[c][p].P /\ te.US = t[c][p].US /\ te.RW = t[c][p].RW
      /\ te.frame = t[c][p].frame /\ te.A /\ (t[c][p].D => te.D) /\ (w => te.D)
  <2> DEFINE u == t[c][p]
  <2>1. u \in TableType /\ (u.D => dirty) /\ te = Marked(u, yes, dirty)
    BY <1>0, <1>2, Zenon
  <2> HIDE DEF te, u
  <2>3. MarkedAs(u, yes, dirty, te)
    BY ONLY <1>d, <2>1, TableMarked, Zenon
  <2>2. /\ te \in TableType /\ te.P = u.P /\ te.US = u.US /\ te.RW = u.RW /\ te.frame = u.frame
        /\ te.A = yes /\ te.D = dirty
    BY ONLY <2>3, Zenon DEF MarkedAs
  <2> QED  BY ONLY <1>0, <2>1, <2>2, Zenon DEF u
<1> HIDE DEF de, te
<1>7. d2 \in [AddressSpaces -> DirType] /\ d2[c] = de /\ \A x \in AddressSpaces : x # c => d2[x] = d[x]
  BY <1>1, <1>3, <1>5, Zenon
<1> DEFINE row == [t[c] EXCEPT ![p] = te]
<1>a. /\ row \in [LinearPages -> TableType] /\ row[p] = te
      /\ \A q \in LinearPages : q # p => row[q] = t[c][q]
  BY ONLY <1>2, <1>6, Zenon
<1>b. t2 = [t EXCEPT ![c] = row]
  BY <1>4
<1> HIDE DEF row
<1>c. /\ t2 \in [AddressSpaces -> [LinearPages -> TableType]] /\ t2[c] = row
      /\ \A x \in AddressSpaces : x # c => t2[x] = t[x]
  BY ONLY <1>1, <1>a, <1>b, Zenon
<1>8. /\ t2 \in [AddressSpaces -> [LinearPages -> TableType]] /\ t2[c][p] = te
      /\ \A x \in AddressSpaces, q \in LinearPages : ~(x = c /\ q = p) => t2[x][q] = t[x][q]
  BY ONLY <1>a, <1>c, Zenon
<1>9. SameRights(d, t, d2, t2)
  <2> SUFFICES ASSUME NEW x \in AddressSpaces
               PROVE  /\ d2[x].P = d[x].P /\ d2[x].US = d[x].US /\ d2[x].RW = d[x].RW
                      /\ \A q \in LinearPages : /\ t2[x][q].P = t[x][q].P /\ t2[x][q].US = t[x][q].US
                                                /\ t2[x][q].RW = t[x][q].RW /\ t2[x][q].frame = t[x][q].frame
    BY Zenon DEF SameRights
  <2>1. d2[x].P = d[x].P /\ d2[x].US = d[x].US /\ d2[x].RW = d[x].RW
    BY <1>5, <1>7, Zenon
  <2>2. ASSUME NEW q \in LinearPages
        PROVE  /\ t2[x][q].P = t[x][q].P /\ t2[x][q].US = t[x][q].US
               /\ t2[x][q].RW = t[x][q].RW /\ t2[x][q].frame = t[x][q].frame
    <3>1. CASE x = c /\ q = p
      BY <1>6, <1>8, <3>1, Zenon
    <3>2. CASE ~(x = c /\ q = p)
      BY <1>8, <3>2, Zenon
    <3> QED  BY <3>1, <3>2, Zenon
  <2> QED  BY <2>1, <2>2, Zenon
<1>10. KeepMarks(d, t, d2, t2)
  <2> SUFFICES ASSUME NEW x \in AddressSpaces
               PROVE  /\ d[x].A => d2[x].A
                      /\ \A q \in LinearPages : (t[x][q].A => t2[x][q].A) /\ (t[x][q].D => t2[x][q].D)
    BY Zenon DEF KeepMarks
  <2>1. d[x].A => d2[x].A
    BY <1>5, <1>7, Zenon
  <2>2. ASSUME NEW q \in LinearPages PROVE (t[x][q].A => t2[x][q].A) /\ (t[x][q].D => t2[x][q].D)
    <3>1. CASE x = c /\ q = p
      BY <1>6, <1>8, <3>1, Zenon
    <3>2. CASE ~(x = c /\ q = p)
      BY <1>8, <3>2, Zenon
    <3> QED  BY <3>1, <3>2, Zenon
  <2> QED  BY <2>1, <2>2, Zenon
<1> QED  BY <1>5, <1>6, <1>7, <1>8, <1>9, <1>10, Zenon DEF TablesTyped

\* A slot that is filled soundly leaves the TLB sound.
LEMMA SlotFilled ==
  ASSUME NEW k \in MmuType, NEW n \in Slot, NEW e \in EntryType,
         NEW k2, k2 = Filled(k, n, e),
         NEW d, NEW t, NEW d2, NEW t2, NEW al, NEW to,
         KeepMarks(d, t, d2, t2), TlbSound(k, d, t, al, to), EntrySound(k, e, n, d2, t2, al, to)
  PROVE  TlbSound(k2, d2, t2, al, to)
<1>1. /\ k2.TLB[n] = e /\ (\A m \in Slot : m # n => k2.TLB[m] = k.TLB[m])
      /\ k2.cr3 = k.cr3 /\ k2.wp = k.wp
  BY TlbUpdated, SMT
<1>2. k.cr3 \in AddressSpaces /\ k.TLB \in [Slot -> EntryType]
  BY MmuFieldsAre, Zenon
<1> SUFFICES ASSUME NEW m \in Slot PROVE EntrySound(k2, k2.TLB[m], m, d2, t2, al, to)
  BY Zenon DEF TlbSound
<1>3. CASE m = n
  BY <1>1, <1>3, Zenon DEF EntrySound, EntryAllowed, EntryMarked
<1>4. CASE m # n
  <2>1. k.TLB[m] \in EntryType /\ EntrySound(k, k.TLB[m], m, d, t, al, to)
    BY <1>2, Zenon DEF TlbSound
  <2>2. k.TLB[m].lpf \in Page
    BY <2>1, SMT DEF EntryType
  <2>3. EntrySound(k2, k.TLB[m], m, d2, t2, al, to)
    BY <1>1, <1>2, <2>1, <2>2, MarksKeepEntry, Zenon
  <2> QED  BY <1>1, <1>4, <2>3, Zenon
<1> QED  BY <1>3, <1>4, Zenon

\* An entry without a page is sound.
LEMMA InvalidSound ==
  /\ Translation!Invalid \in EntryType
  /\ \A k, n, d, t, al, to : EntrySound(k, Translation!Invalid, n, d, t, al, to)
<1>1. Translation!Invalid = [lpf |-> Translation!NoPage, ppf |-> 0, ok |-> {}]
  BY DEF Translation!Invalid
<1>2. Translation!Invalid.lpf = Translation!NoPage
  BY <1>1, Zenon
<1>3. Translation!Invalid \in EntryType
  BY <1>1, SMT DEF EntryType, Page
<1> QED  BY <1>2, <1>3, Zenon DEF EntrySound

\* What dtranslate_linear does, apart from its result: the CPU, the tables and the TLB.
LEMMA TranslateKeeps ==
  ASSUME NEW p \in LinearPages, NEW a \in Translation!Access, PagingSound,
         Translation!ConstantsOK,
         NEW r, r = Translation!dtranslate(mmu, p, a)
  PROVE  /\ r.k \in MmuType /\ TablesTyped(r.dir, r.pt)
         /\ r.k.cr3 = mmu.cr3 /\ r.k.pg = mmu.pg /\ r.k.wp = mmu.wp /\ r.k.user = mmu.user
         /\ r.k.a20 = mmu.a20 /\ r.k.window = mmu.window /\ r.k.at = mmu.at
         /\ SameRights(dir, pt, r.dir, r.pt) /\ KeepMarks(dir, pt, r.dir, r.pt)
         /\ TlbSound(r.k, r.dir, r.pt, allowed, touched)
         /\ r.frame \in Nat
         /\ ~r.fault /\ ~a.write => <<p, r.frame, a>> \in allowed
<1> DEFINE n == Translation!Slot(p)
           e == mmu.TLB[n]
           c == mmu.cr3
<1>a. mmu \in MmuType /\ TablesTyped(dir, pt) /\ TlbSound(mmu, dir, pt, allowed, touched)
      /\ Translation!Now(mmu, dir, pt) \subseteq allowed
  BY Zenon DEF PagingSound
<1>b. c \in AddressSpaces /\ mmu.TLB \in [Slot -> EntryType] /\ mmu.wp \in BOOLEAN
  BY <1>a, MmuFieldsAre, Zenon
<1>c. p \in Nat /\ n \in Slot /\ n = p % TlbSlots /\ p # Translation!NoPage
  BY SMT DEF Translation!ConstantsOK, Slot, Translation!Slot, Translation!NoPage
<1>d. e \in EntryType
  BY <1>b, <1>c, Zenon
<1>e. e.lpf \in Page /\ e.ppf \in Nat /\ e.ok \subseteq Translation!Access
  BY <1>d, SMT DEF EntryType
<1>f. SameRights(dir, pt, dir, pt) /\ KeepMarks(dir, pt, dir, pt)
  BY Zenon DEF SameRights, KeepMarks
<1>g. pt[c][p] \in TableType /\ pt[c][p].frame \in Nat /\ dir[c] \in DirType
  BY <1>a, <1>b, TableFieldsAre, Zenon DEF TablesTyped
<1>h. a.user \in BOOLEAN /\ a.write \in BOOLEAN
  BY SMT DEF Translation!Access
<1> HIDE DEF n, e, c
<1>1. CASE e.lpf = p /\ a \in e.ok
  <2>1. r = [k |-> mmu, dir |-> dir, pt |-> pt, fault |-> FALSE, frame |-> e.ppf]
    BY <1>1, Zenon DEF Translation!dtranslate, n, e, c
  <2>2. r.k = mmu /\ r.dir = dir /\ r.pt = pt /\ r.frame = e.ppf
    BY <2>1, SMT
  <2>3. ~a.write => <<p, r.frame, a>> \in allowed
    <3>1. EntrySound(mmu, e, n, dir, pt, allowed, touched)
      BY <1>a, <1>c, Zenon DEF TlbSound, e
    <3>2. EntryAllowed(mmu, e, allowed)
      BY <1>1, <1>c, <3>1, Zenon DEF EntrySound
    <3> QED  BY <1>1, <2>2, <3>2, Zenon DEF EntryAllowed
  <2> QED  BY ONLY <1>a, <1>e, <1>f, <2>2, <2>3, Zenon
<1>2. CASE ~(e.lpf = p /\ a \in e.ok) /\ ~Translation!Walks(mmu, dir, pt, p, a)
  <2> DEFINE k2 == Filled(mmu, n, Translation!Invalid)
  <2>1. r = [k |-> k2, dir |-> dir, pt |-> pt, fault |-> TRUE, frame |-> 0]
    BY <1>2, Zenon DEF Translation!dtranslate, Filled, n, e, c
  <2>0. k2 = Filled(mmu, n, Translation!Invalid)
    OBVIOUS
  <2> HIDE DEF k2
  <2>2. r.k = k2 /\ r.dir = dir /\ r.pt = pt /\ r.frame = 0 /\ r.fault
    BY <2>1, SMT
  <2>3. /\ k2 \in MmuType /\ k2.cr3 = mmu.cr3 /\ k2.pg = mmu.pg /\ k2.wp = mmu.wp /\ k2.user = mmu.user
        /\ k2.a20 = mmu.a20 /\ k2.window = mmu.window /\ k2.at = mmu.at
    BY <1>a, <1>c, <2>0, InvalidSound, TlbUpdated, SMT
  <2>4. TlbSound(k2, dir, pt, allowed, touched)
    BY <1>a, <1>c, <1>f, <2>0, InvalidSound, SlotFilled, Zenon
  <2>5. r.frame \in Nat
    BY <2>2, SMT
  <2> QED  BY ONLY <1>a, <1>f, <2>2, <2>3, <2>4, <2>5, Zenon
<1>3. CASE ~(e.lpf = p /\ a \in e.ok) /\ Translation!Walks(mmu, dir, pt, p, a)
  <2> DEFINE us == Translation!Combined(dir, pt, c, p).us
             frame == pt[c][p].frame
             new == [lpf |-> p, ppf |-> frame, ok |-> Translation!Grants(us, a.write)]
             k2 == Filled(mmu, n, new)
             d2 == MarkedDir(dir, c)
             t2 == MarkedTable(pt, c, p, a.write)
  <2>1. r = [k |-> k2, dir |-> d2, pt |-> t2, fault |-> FALSE, frame |-> frame]
    BY <1>3, Zenon DEF Translation!dtranslate, Filled, MarkedDir, MarkedTable, n, e, c
  <2>0. d2 = MarkedDir(dir, c) /\ t2 = MarkedTable(pt, c, p, a.write)
    OBVIOUS
  <2> HIDE DEF k2, d2, t2
  <2>2. r.k = k2 /\ r.dir = d2 /\ r.pt = t2 /\ r.frame = frame
    BY <2>1, SMT
  <2>3. /\ TablesTyped(d2, t2) /\ SameRights(dir, pt, d2, t2) /\ KeepMarks(dir, pt, d2, t2)
        /\ d2[c].A /\ t2[c][p].A /\ (a.write => t2[c][p].D)
    BY <1>a, <1>b, <1>h, <2>0, WalkMarks, SMT
  <2>4. new.lpf = p /\ new.ppf = frame /\ new.ok = Translation!Grants(us, a.write)
    BY Zenon
  <2>5. Translation!Grants(us, a.write) \subseteq Translation!Access
    BY Zenon DEF Translation!Grants
  <2>6. new \in EntryType
    BY <1>g, <2>5, SMT DEF EntryType, Page
  <2>7. ASSUME NEW b \in Translation!Grants(us, a.write)
        PROVE  <<p, frame, b>> \in allowed \/ (b.user /\ b.write /\ ~mmu.wp)
    <3>1. b \in Translation!Access /\ (Translation!Walks(mmu, dir, pt, p, b) \/ (b.user /\ b.write /\ ~mmu.wp))
      BY <1>3, <1>a, NewEntryAllowed, Zenon DEF c
    <3>2. Translation!Walks(mmu, dir, pt, p, b) => <<p, frame, b>> \in Translation!Now(mmu, dir, pt)
      BY <3>1, InNow, Zenon DEF c
    <3> QED  BY <1>a, <3>1, <3>2, Zenon
  <2>8. <<p, frame, a>> \in allowed
    BY <1>3, <1>a, InNow, Zenon DEF c
  <2>9. EntrySound(mmu, new, n, d2, t2, allowed, touched)
    <3> HIDE DEF new
    <3>1. new.lpf % TlbSlots = n
      BY <1>c, <2>4, Zenon
    <3>2. EntryAllowed(mmu, new, allowed)
      BY <2>4, <2>7, Zenon DEF EntryAllowed
    <3>3. EntryMarked(mmu, new, d2, t2, touched)
      BY <2>3, <2>4, Zenon DEF EntryMarked, Translation!Grants, c
    <3> QED  BY <3>1, <3>2, <3>3, Zenon DEF EntrySound
  <2> HIDE DEF new
  <2>10. k2 = Filled(mmu, n, new)
    BY Zenon DEF k2
  <2>11. /\ k2 \in MmuType /\ k2.cr3 = mmu.cr3 /\ k2.pg = mmu.pg /\ k2.wp = mmu.wp /\ k2.user = mmu.user
         /\ k2.a20 = mmu.a20 /\ k2.window = mmu.window /\ k2.at = mmu.at
    BY <1>a, <1>c, <2>6, <2>10, TlbUpdated, SMT
  <2>12. TlbSound(k2, d2, t2, allowed, touched)
    BY <1>a, <1>c, <2>3, <2>6, <2>9, <2>10, SlotFilled, Zenon
  <2> QED  BY ONLY <1>g, <2>2, <2>3, <2>8, <2>11, <2>12, Zenon
<1> QED  BY <1>1, <1>2, <1>3, Zenon

-----------------------------------------------------------------------------
\* The CPU with one part changed.
WithSpace(k, c) == [k EXCEPT !.cr3 = c]
WithPaging(k, x, y) == [k EXCEPT !.pg = x, !.wp = y]
WithLevel(k, x) == [k EXCEPT !.user = x]
WithA20(k, x) == [k EXCEPT !.a20 = x]
WithTlb(k, e) == [k EXCEPT !.TLB = e]
WithWindow(k, w, n) == [k EXCEPT !.window = w, !.at = n]

\* The directory's address is loaded.
LEMMA WithSpaceKeeps ==
  ASSUME NEW k \in MmuType, NEW c \in AddressSpaces, NEW r, r = WithSpace(k, c)
  PROVE  /\ r \in MmuType
         /\ r.cr3 = c /\ r.pg = k.pg /\ r.wp = k.wp /\ r.user = k.user /\ r.a20 = k.a20
         /\ r.TLB = k.TLB /\ r.window = k.window /\ r.at = k.at
<1>1. ASSUME NEW C, NEW B, NEW T, NEW W, NEW N, NEW q \in [cr3 : C, pg : B, wp : B, user : B, a20 : B, TLB : T, window : W, at : N],
             NEW v \in C
      PROVE  [q EXCEPT !.cr3 = v] \in [cr3 : C, pg : B, wp : B, user : B, a20 : B, TLB : T, window : W, at : N]
  BY SMT
<1>2. r \in MmuType
  BY <1>1, Zenon DEF MmuType, WithSpace
<1>3. DOMAIN k = MmuFields
  BY MmuFieldsAre, Zenon
<1>4. /\ r.cr3 = c /\ r.pg = k.pg /\ r.wp = k.wp /\ r.user = k.user /\ r.a20 = k.a20
      /\ r.TLB = k.TLB /\ r.window = k.window /\ r.at = k.at
  BY <1>3, SMT DEF MmuFields, WithSpace
<1> QED  BY <1>2, <1>4, Zenon

\* Paging or write protection is switched.
LEMMA WithPagingKeeps ==
  ASSUME NEW k \in MmuType, NEW x \in BOOLEAN, NEW y \in BOOLEAN, NEW r, r = WithPaging(k, x, y)
  PROVE  /\ r \in MmuType
         /\ r.cr3 = k.cr3 /\ r.pg = x /\ r.wp = y /\ r.user = k.user /\ r.a20 = k.a20
         /\ r.TLB = k.TLB /\ r.window = k.window /\ r.at = k.at
<1>1. ASSUME NEW C, NEW B, NEW T, NEW W, NEW N, NEW q \in [cr3 : C, pg : B, wp : B, user : B, a20 : B, TLB : T, window : W, at : N],
             NEW u \in B, NEW v \in B
      PROVE  [q EXCEPT !.pg = u, !.wp = v] \in [cr3 : C, pg : B, wp : B, user : B, a20 : B, TLB : T, window : W, at : N]
  <2>1. [q EXCEPT !.pg = u] \in [cr3 : C, pg : B, wp : B, user : B, a20 : B, TLB : T, window : W, at : N]
    BY ONLY <1>1, SMT
  <2> DEFINE p == [q EXCEPT !.pg = u]
  <2>a. p \in [cr3 : C, pg : B, wp : B, user : B, a20 : B, TLB : T, window : W, at : N]
    BY <2>1
  <2> HIDE DEF p
  <2>2. [p EXCEPT !.wp = v] \in [cr3 : C, pg : B, wp : B, user : B, a20 : B, TLB : T, window : W, at : N]
    BY ONLY <1>1, <2>a, SMT
  <2> QED  BY <2>1, <2>2, Zenon DEF p
<1>2. r \in MmuType
  BY <1>1, Zenon DEF MmuType, WithPaging
<1>3. DOMAIN k = MmuFields
  BY MmuFieldsAre, Zenon
<1>4. /\ r.cr3 = k.cr3 /\ r.pg = x /\ r.wp = y /\ r.user = k.user /\ r.a20 = k.a20
      /\ r.TLB = k.TLB /\ r.window = k.window /\ r.at = k.at
  BY <1>3, SMT DEF MmuFields, WithPaging
<1> QED  BY <1>2, <1>4, Zenon

\* The privilege level changes.
LEMMA WithLevelKeeps ==
  ASSUME NEW k \in MmuType, NEW x \in BOOLEAN, NEW r, r = WithLevel(k, x)
  PROVE  /\ r \in MmuType
         /\ r.cr3 = k.cr3 /\ r.pg = k.pg /\ r.wp = k.wp /\ r.user = x /\ r.a20 = k.a20
         /\ r.TLB = k.TLB /\ r.window = k.window /\ r.at = k.at
<1>1. ASSUME NEW C, NEW B, NEW T, NEW W, NEW N, NEW q \in [cr3 : C, pg : B, wp : B, user : B, a20 : B, TLB : T, window : W, at : N],
             NEW v \in B
      PROVE  [q EXCEPT !.user = v] \in [cr3 : C, pg : B, wp : B, user : B, a20 : B, TLB : T, window : W, at : N]
  BY SMT
<1>2. r \in MmuType
  BY <1>1, Zenon DEF MmuType, WithLevel
<1>3. DOMAIN k = MmuFields
  BY MmuFieldsAre, Zenon
<1>4. /\ r.cr3 = k.cr3 /\ r.pg = k.pg /\ r.wp = k.wp /\ r.user = x /\ r.a20 = k.a20
      /\ r.TLB = k.TLB /\ r.window = k.window /\ r.at = k.at
  BY <1>3, SMT DEF MmuFields, WithLevel
<1> QED  BY <1>2, <1>4, Zenon

\* The A20 gate is switched.
LEMMA WithA20Keeps ==
  ASSUME NEW k \in MmuType, NEW x \in BOOLEAN, NEW r, r = WithA20(k, x)
  PROVE  /\ r \in MmuType
         /\ r.cr3 = k.cr3 /\ r.pg = k.pg /\ r.wp = k.wp /\ r.user = k.user /\ r.a20 = x
         /\ r.TLB = k.TLB /\ r.window = k.window /\ r.at = k.at
<1>1. ASSUME NEW C, NEW B, NEW T, NEW W, NEW N, NEW q \in [cr3 : C, pg : B, wp : B, user : B, a20 : B, TLB : T, window : W, at : N],
             NEW v \in B
      PROVE  [q EXCEPT !.a20 = v] \in [cr3 : C, pg : B, wp : B, user : B, a20 : B, TLB : T, window : W, at : N]
  BY SMT
<1>2. r \in MmuType
  BY <1>1, Zenon DEF MmuType, WithA20
<1>3. DOMAIN k = MmuFields
  BY MmuFieldsAre, Zenon
<1>4. /\ r.cr3 = k.cr3 /\ r.pg = k.pg /\ r.wp = k.wp /\ r.user = k.user /\ r.a20 = x
      /\ r.TLB = k.TLB /\ r.window = k.window /\ r.at = k.at
  BY <1>3, SMT DEF MmuFields, WithA20
<1> QED  BY <1>2, <1>4, Zenon

\* The TLB is written.
LEMMA WithTlbKeeps ==
  ASSUME NEW k \in MmuType, NEW e \in [Slot -> EntryType], NEW r, r = WithTlb(k, e)
  PROVE  /\ r \in MmuType
         /\ r.cr3 = k.cr3 /\ r.pg = k.pg /\ r.wp = k.wp /\ r.user = k.user /\ r.a20 = k.a20
         /\ r.TLB = e /\ r.window = k.window /\ r.at = k.at
<1>1. ASSUME NEW C, NEW B, NEW T, NEW W, NEW N, NEW q \in [cr3 : C, pg : B, wp : B, user : B, a20 : B, TLB : T, window : W, at : N],
             NEW v \in T
      PROVE  [q EXCEPT !.TLB = v] \in [cr3 : C, pg : B, wp : B, user : B, a20 : B, TLB : T, window : W, at : N]
  BY SMT
<1>2. r \in MmuType
  BY <1>1, Zenon DEF MmuType, WithTlb
<1>3. DOMAIN k = MmuFields
  BY MmuFieldsAre, Zenon
<1>4. /\ r.cr3 = k.cr3 /\ r.pg = k.pg /\ r.wp = k.wp /\ r.user = k.user /\ r.a20 = k.a20
      /\ r.TLB = e /\ r.window = k.window /\ r.at = k.at
  BY <1>3, SMT DEF MmuFields, WithTlb
<1> QED  BY <1>2, <1>4, Zenon

\* The fetch window is moved.
LEMMA WithWindowKeeps ==
  ASSUME NEW k \in MmuType, NEW w \in Page, NEW n \in Nat, NEW r, r = WithWindow(k, w, n)
  PROVE  /\ r \in MmuType
         /\ r.cr3 = k.cr3 /\ r.pg = k.pg /\ r.wp = k.wp /\ r.user = k.user /\ r.a20 = k.a20
         /\ r.TLB = k.TLB /\ r.window = w /\ r.at = n
<1>1. ASSUME NEW C, NEW B, NEW T, NEW W, NEW N, NEW q \in [cr3 : C, pg : B, wp : B, user : B, a20 : B, TLB : T, window : W, at : N],
             NEW u \in W, NEW v \in N
      PROVE  [q EXCEPT !.window = u, !.at = v] \in [cr3 : C, pg : B, wp : B, user : B, a20 : B, TLB : T, window : W, at : N]
  <2>1. [q EXCEPT !.window = u] \in [cr3 : C, pg : B, wp : B, user : B, a20 : B, TLB : T, window : W, at : N]
    BY ONLY <1>1, SMT
  <2> DEFINE p == [q EXCEPT !.window = u]
  <2>a. p \in [cr3 : C, pg : B, wp : B, user : B, a20 : B, TLB : T, window : W, at : N]
    BY <2>1
  <2> HIDE DEF p
  <2>2. [p EXCEPT !.at = v] \in [cr3 : C, pg : B, wp : B, user : B, a20 : B, TLB : T, window : W, at : N]
    BY ONLY <1>1, <2>a, SMT
  <2> QED  BY <2>1, <2>2, Zenon DEF p
<1>2. r \in MmuType
  BY <1>1, Zenon DEF MmuType, WithWindow
<1>3. DOMAIN k = MmuFields
  BY MmuFieldsAre, Zenon
<1>4. /\ r.cr3 = k.cr3 /\ r.pg = k.pg /\ r.wp = k.wp /\ r.user = k.user /\ r.a20 = k.a20
      /\ r.TLB = k.TLB /\ r.window = w /\ r.at = n
  BY <1>3, SMT DEF MmuFields, WithWindow
<1> QED  BY <1>2, <1>4, Zenon

\* An empty TLB is sound.
LEMMA BlankSound ==
  /\ Translation!Blank \in [Slot -> EntryType]
  /\ \A k, d, t, al, to : k.TLB = Translation!Blank => TlbSound(k, d, t, al, to)
<1>1. Translation!Blank = [n \in Slot |-> Translation!Invalid]
  BY Zenon DEF Translation!Blank, Slot
<1>2. \A n \in Slot : Translation!Blank[n] = Translation!Invalid
  BY <1>1, Zenon
<1>3. Translation!Blank \in [Slot -> EntryType]
  BY <1>1, InvalidSound, Zenon
<1> QED  BY <1>2, <1>3, InvalidSound, Zenon DEF TlbSound

\* The parts of the invariant.
LEMMA PagingParts ==
  ASSUME PagingSound
  PROVE  /\ mmu \in MmuType /\ TablesTyped(dir, pt) /\ Translation!Now(mmu, dir, pt) \subseteq allowed
         /\ TlbSound(mmu, dir, pt, allowed, touched) /\ WindowSound(mmu, allowed, moved)
         /\ DOMAIN mmu = MmuFields /\ mmu.cr3 \in AddressSpaces /\ mmu.TLB \in [Slot -> EntryType]
         /\ mmu.pg \in BOOLEAN /\ mmu.wp \in BOOLEAN /\ mmu.user \in BOOLEAN /\ mmu.a20 \in BOOLEAN
         /\ mmu.window \in Page /\ mmu.at \in Nat
<1>1. mmu \in MmuType
  BY Zenon DEF PagingSound
<1> QED  BY <1>1, MmuFieldsAre, Zenon DEF PagingSound

\* A flush leaves nothing to be allowed but what the tables allow.
LEMMA FlushKeeps ==
  ASSUME TablesTyped(dir, pt), UNCHANGED <<dir, pt>>, mmu' \in MmuType,
         mmu'.TLB = Translation!Blank, Translation!Flushed(mmu'), WindowSound(mmu', allowed', moved')
  PROVE  PagingSound'
<1>1. allowed' = Translation!Now(mmu', dir, pt) /\ dir' = dir /\ pt' = pt
  BY Zenon DEF Translation!Flushed
<1>2. TlbSound(mmu', dir', pt', allowed', touched')
  BY BlankSound, Zenon
<1> QED  BY <1>1, <1>2, Zenon DEF PagingSound

\* With no window, nothing is fetched from a stale one.
LEMMA OutsideWindow ==
  ASSUME NEW k, k.window = Translation!NoPage
  PROVE  \A al, mv : WindowSound(k, al, mv)
  BY Zenon DEF WindowSound

\* The same TLB in the same space, with the same tables.
LEMMA SameMmuKeeps ==
  ASSUME NEW k, NEW k2, NEW d, NEW t, NEW al, NEW to,
         k.cr3 \in AddressSpaces, k2.TLB = k.TLB, k2.cr3 = k.cr3, k2.wp = k.wp
  PROVE  /\ Translation!Now(k2, d, t) = Translation!Now(k, d, t)
         /\ TlbSound(k, d, t, al, to) => TlbSound(k2, d, t, al, to)
<1>1. SameRights(d, t, d, t)
  BY Zenon DEF SameRights
<1>2. Translation!Now(k2, d, t) = Translation!Now(k, d, t)
  BY <1>1, SameRightsAllow, SMT
<1>3. TlbSound(k, d, t, al, to) => TlbSound(k2, d, t, al, to)
  BY Zenon DEF TlbSound, EntrySound, EntryAllowed, EntryMarked
<1> QED  BY <1>2, <1>3, Zenon

\* MOV to CR3, and a task switch.
LEMMA ChangeOfSpaceKeeps ==
  ASSUME PagingSound, Translation!CR3_change
  PROVE  PagingSound'
<1>1. PICK c \in AddressSpaces :
        /\ mmu' = [Translation!TLB_flush(Translation!invalidate_prefetch_q(mmu)) EXCEPT !.cr3 = c]
        /\ Translation!Flushed(mmu') /\ UNCHANGED <<dir, pt, moved, edits>>
  BY Zenon DEF Translation!CR3_change
<1> DEFINE k1 == WithWindow(mmu, Translation!NoPage, 0)
           k2 == WithTlb(k1, Translation!Blank)
<1>2. mmu' = WithSpace(k2, c)
  BY <1>1, Zenon
  DEF Translation!TLB_flush, Translation!invalidate_prefetch_q, WithWindow, WithTlb, WithSpace
<1>a. Translation!NoPage \in Page /\ 0 \in Nat
  BY SMT DEF Page
<1>b. k1 = WithWindow(mmu, Translation!NoPage, 0) /\ k2 = WithTlb(k1, Translation!Blank)
  OBVIOUS
<1> HIDE DEF k1, k2
<1>c. k1 \in MmuType /\ k1.window = Translation!NoPage
  BY <1>a, <1>b, PagingParts, WithWindowKeeps, SMT
<1>d. k2 \in MmuType /\ k2.window = Translation!NoPage /\ k2.TLB = Translation!Blank
  BY <1>b, <1>c, BlankSound, WithTlbKeeps, SMT
<1>3. mmu' \in MmuType /\ mmu'.window = Translation!NoPage /\ mmu'.TLB = Translation!Blank
  BY <1>2, <1>d, WithSpaceKeeps, SMT
<1> QED  BY <1>1, <1>2, <1>3, PagingParts, OutsideWindow, FlushKeeps, Zenon

\* MOV to CR0.
LEMMA PagingChangeKeeps ==
  ASSUME PagingSound, Translation!SetCR0
  PROVE  PagingSound'
<1>1. PICK x \in BOOLEAN, y \in BOOLEAN :
        /\ <<x, y>> # <<mmu.pg, mmu.wp>>
        /\ mmu' = Translation!pagingCR0Changed(mmu,
                    [Translation!invalidate_prefetch_q(mmu) EXCEPT !.pg = x, !.wp = y])
        /\ Translation!Flushed(mmu') /\ UNCHANGED <<dir, pt, moved, edits>>
  BY Zenon DEF Translation!SetCR0
<1> DEFINE k1 == WithWindow(mmu, Translation!NoPage, 0)
           k2 == WithPaging(k1, x, y)
<1>2. mmu' = Translation!pagingCR0Changed(mmu, k2)
  BY <1>1, Zenon DEF Translation!invalidate_prefetch_q, WithWindow, WithPaging
<1>a. Translation!NoPage \in Page /\ 0 \in Nat
  BY SMT DEF Page
<1>b. k1 = WithWindow(mmu, Translation!NoPage, 0) /\ k2 = WithPaging(k1, x, y)
  OBVIOUS
<1> HIDE DEF k1, k2
<1>c. k1 \in MmuType /\ k1.window = Translation!NoPage
  BY <1>a, <1>b, PagingParts, WithWindowKeeps, SMT
<1>d. k2 \in MmuType /\ k2.window = Translation!NoPage /\ k2.pg = x /\ k2.wp = y
  BY <1>b, <1>c, WithPagingKeeps, SMT
<1>e. mmu.pg # k2.pg \/ mmu.wp # k2.wp
  BY <1>1, <1>d, Zenon
<1>f. mmu' = WithTlb(k2, Translation!Blank)
  BY <1>2, <1>e, Zenon DEF Translation!pagingCR0Changed, Translation!TLB_flush, WithTlb
<1>3. mmu' \in MmuType /\ mmu'.window = Translation!NoPage /\ mmu'.TLB = Translation!Blank
  BY <1>d, <1>f, BlankSound, WithTlbKeeps, SMT
<1> QED  BY <1>1, <1>3, PagingParts, OutsideWindow, FlushKeeps, Zenon

\* The A20 line: the window stays, and counts as moved.
LEMMA A20Keeps ==
  ASSUME PagingSound, Translation!pagingA20Changed
  PROVE  PagingSound'
<1> DEFINE x == ~mmu.a20
           k1 == WithTlb(mmu, Translation!Blank)
<1>1. /\ mmu' = WithA20(k1, x) /\ Translation!Flushed(mmu') /\ moved' = (mmu.window # Translation!NoPage)
      /\ UNCHANGED <<dir, pt>>
  BY Zenon DEF Translation!pagingA20Changed, Translation!TLB_flush, WithTlb, WithA20
<1>2. x \in BOOLEAN /\ k1 = WithTlb(mmu, Translation!Blank)
  OBVIOUS
<1> HIDE DEF x, k1
<1>3. k1 \in MmuType /\ k1.window = mmu.window /\ k1.TLB = Translation!Blank
  BY <1>2, PagingParts, BlankSound, WithTlbKeeps, SMT
<1>4. mmu' \in MmuType /\ mmu'.window = mmu.window /\ mmu'.TLB = Translation!Blank
  BY <1>1, <1>2, <1>3, WithA20Keeps, SMT
<1>5. WindowSound(mmu', allowed', moved')
  BY <1>1, <1>4, Zenon DEF WindowSound
<1> QED  BY <1>1, <1>4, <1>5, PagingParts, FlushKeeps, Zenon

\* A transfer to the other level.
LEMMA ChangeOfLevelKeeps ==
  ASSUME PagingSound, Translation!ChangesLevel
  PROVE  PagingSound'
<1> DEFINE x == ~mmu.user
           k1 == WithWindow(mmu, Translation!NoPage, 0)
<1>1. mmu' = WithLevel(k1, x) /\ UNCHANGED <<dir, pt, allowed, touched, moved>>
  <2>1. mmu' = [k1 EXCEPT !.user = ~k1.user] /\ UNCHANGED <<dir, pt, allowed, touched, moved>>
    BY Zenon DEF Translation!ChangesLevel, Translation!invalidate_prefetch_q, WithWindow
  <2>2. k1.user = mmu.user
    BY PagingParts, SMT DEF WithWindow, MmuFields
  <2> QED  BY <2>1, <2>2, Zenon DEF WithLevel
<1>2. x \in BOOLEAN /\ k1 = WithWindow(mmu, Translation!NoPage, 0)
  OBVIOUS
<1>a. Translation!NoPage \in Page /\ 0 \in Nat
  BY SMT DEF Page
<1> HIDE DEF x, k1
<1>3. k1 \in MmuType /\ k1.window = Translation!NoPage /\ k1.TLB = mmu.TLB /\ k1.cr3 = mmu.cr3 /\ k1.wp = mmu.wp
  BY <1>2, <1>a, PagingParts, WithWindowKeeps, SMT
<1>4. /\ mmu' \in MmuType /\ mmu'.window = Translation!NoPage /\ mmu'.TLB = mmu.TLB /\ mmu'.cr3 = mmu.cr3
      /\ mmu'.wp = mmu.wp
  BY <1>1, <1>2, <1>3, WithLevelKeeps, SMT
<1>5. mmu.cr3 \in AddressSpaces /\ TlbSound(mmu, dir, pt, allowed, touched) /\ TablesTyped(dir, pt)
      /\ Translation!Now(mmu, dir, pt) \subseteq allowed
  BY PagingParts, Zenon
<1>6. Translation!Now(mmu', dir, pt) = Translation!Now(mmu, dir, pt) /\ TlbSound(mmu', dir, pt, allowed, touched)
  BY ONLY <1>4, <1>5, SameMmuKeeps, SMT
<1>7. WindowSound(mmu', allowed', moved')
  BY <1>4, OutsideWindow, Zenon
<1> QED  BY <1>1, <1>4, <1>5, <1>6, <1>7, Zenon DEF PagingSound

\* INVLPG.
LEMMA InvalidationKeeps ==
  ASSUME PagingSound, Translation!ConstantsOK, Translation!INVLPG
  PROVE  PagingSound'
<1>1. PICK p \in LinearPages :
        /\ mmu' = [Translation!invalidate_prefetch_q(mmu) EXCEPT !.TLB[Translation!Slot(p)] = Translation!Invalid]
        /\ allowed' = {x \in allowed : x[1] # p} \cup {x \in Translation!Now(mmu, dir, pt) : x[1] = p}
        /\ touched' = touched \ {p} /\ UNCHANGED <<dir, pt, moved, edits>>
  BY Zenon DEF Translation!INVLPG
<1> DEFINE n == Translation!Slot(p)
           k1 == WithWindow(mmu, Translation!NoPage, 0)
<1>2. mmu' = Filled(k1, n, Translation!Invalid)
  BY <1>1, Zenon DEF Translation!invalidate_prefetch_q, WithWindow, Filled
<1>a. n \in Slot /\ n = p % TlbSlots /\ Translation!NoPage \in Page /\ 0 \in Nat
  BY SMT DEF Translation!ConstantsOK, Slot, Translation!Slot, Page
<1>b. k1 = WithWindow(mmu, Translation!NoPage, 0)
  OBVIOUS
<1> HIDE DEF k1, n
<1>3. k1 \in MmuType /\ k1.window = Translation!NoPage /\ k1.TLB = mmu.TLB /\ k1.cr3 = mmu.cr3 /\ k1.wp = mmu.wp
  BY <1>a, <1>b, PagingParts, WithWindowKeeps, SMT
<1>4. /\ mmu' \in MmuType /\ mmu'.window = Translation!NoPage /\ mmu'.cr3 = mmu.cr3 /\ mmu'.wp = mmu.wp
      /\ mmu'.TLB[n] = Translation!Invalid /\ \A m \in Slot : m # n => mmu'.TLB[m] = mmu.TLB[m]
  BY <1>2, <1>3, <1>a, InvalidSound, TlbUpdated, SMT
<1>5. /\ mmu.cr3 \in AddressSpaces /\ TlbSound(mmu, dir, pt, allowed, touched) /\ TablesTyped(dir, pt)
      /\ Translation!Now(mmu, dir, pt) \subseteq allowed
  BY PagingParts, Zenon
<1>6. Translation!Now(mmu', dir', pt') \subseteq allowed'
  <2>1. SameRights(dir, pt, dir', pt')
    BY <1>1, Zenon DEF SameRights
  <2>2. Translation!Now(mmu', dir', pt') = Translation!Now(mmu, dir, pt)
    BY ONLY <1>4, <1>5, <2>1, SameRightsAllow, SMT
  <2> QED  BY <1>1, <1>5, <2>2, Zenon
<1>7. TlbSound(mmu', dir', pt', allowed', touched')
  <2> SUFFICES ASSUME NEW m \in Slot
               PROVE  EntrySound(mmu', mmu'.TLB[m], m, dir', pt', allowed', touched')
    BY Zenon DEF TlbSound
  <2>1. CASE m = n
    BY <1>4, <2>1, InvalidSound, Zenon
  <2>2. CASE m # n
    <3> DEFINE e == mmu.TLB[m]
    <3>1. EntrySound(mmu, e, m, dir, pt, allowed, touched) /\ mmu'.TLB[m] = e
      BY <1>4, <1>5, <2>2, Zenon DEF TlbSound
    <3> HIDE DEF e
    <3> SUFFICES ASSUME e.lpf # Translation!NoPage
                 PROVE  /\ e.lpf % TlbSlots = m /\ EntryAllowed(mmu', e, allowed')
                        /\ EntryMarked(mmu', e, dir', pt', touched')
      BY <3>1, Zenon DEF EntrySound
    <3>2. e.lpf % TlbSlots = m /\ EntryAllowed(mmu, e, allowed) /\ EntryMarked(mmu, e, dir, pt, touched)
      BY <3>1, Zenon DEF EntrySound
    <3>3. e.lpf # p
      BY <1>a, <2>2, <3>2, Zenon
    <3>4. EntryAllowed(mmu', e, allowed')
      <4> SUFFICES ASSUME NEW a \in e.ok
                   PROVE  <<e.lpf, e.ppf, a>> \in allowed' \/ (a.user /\ a.write /\ ~mmu'.wp)
        BY Zenon DEF EntryAllowed
      <4>1. <<e.lpf, e.ppf, a>> \in allowed \/ (a.user /\ a.write /\ ~mmu'.wp)
        BY <1>4, <3>2, Zenon DEF EntryAllowed
      <4>2. <<e.lpf, e.ppf, a>>[1] = e.lpf
        BY SMT
      <4>3. <<e.lpf, e.ppf, a>> \in allowed => <<e.lpf, e.ppf, a>> \in allowed'
        <5> DEFINE x == <<e.lpf, e.ppf, a>>
        <5>1. x[1] # p
          BY <3>3, <4>2, Zenon
        <5> HIDE DEF x
        <5>2. x \in allowed => x \in allowed'
          BY <1>1, <5>1, Zenon
        <5> QED  BY <5>2, Zenon DEF x
      <4> QED  BY <4>1, <4>3, Zenon
    <3>5. EntryMarked(mmu', e, dir', pt', touched')
      <4>1. e.lpf \in touched => e.lpf \in touched'
        BY <1>1, <3>3, Zenon
      <4>2. dir' = dir /\ pt' = pt
        BY <1>1, Zenon
      <4> QED  BY <1>4, <3>2, <4>1, <4>2, Zenon DEF EntryMarked
    <3> QED  BY <3>2, <3>4, <3>5, Zenon
  <2> QED  BY <2>1, <2>2, Zenon
<1>8. WindowSound(mmu', allowed', moved')
  BY <1>4, OutsideWindow, Zenon
<1> QED  BY <1>1, <1>4, <1>5, <1>6, <1>7, <1>8, Zenon DEF PagingSound

\* What is left after a translation, whatever becomes of the window.
LEMMA AfterTranslation ==
  ASSUME PagingSound, Translation!ConstantsOK, NEW p \in LinearPages, NEW a \in Translation!Access,
         NEW r, r = Translation!dtranslate(mmu, p, a),
         mmu' \in MmuType, mmu'.TLB = r.k.TLB, mmu'.cr3 = r.k.cr3, mmu'.wp = r.k.wp,
         dir' = r.dir, pt' = r.pt, allowed' = allowed, touched' = touched,
         WindowSound(mmu', allowed', moved')
  PROVE  PagingSound'
<1>1. /\ r.k \in MmuType /\ TablesTyped(r.dir, r.pt) /\ r.k.cr3 = mmu.cr3 /\ r.k.wp = mmu.wp
      /\ SameRights(dir, pt, r.dir, r.pt) /\ TlbSound(r.k, r.dir, r.pt, allowed, touched)
  BY TranslateKeeps, Zenon
<1>2. mmu.cr3 \in AddressSpaces /\ Translation!Now(mmu, dir, pt) \subseteq allowed
  BY PagingParts, Zenon
<1> HIDE DEF Translation!dtranslate
<1>3. Translation!Now(mmu', r.dir, r.pt) = Translation!Now(mmu, dir, pt)
  BY <1>1, <1>2, SameRightsAllow, SMT
<1>4. TlbSound(mmu', r.dir, r.pt, allowed, touched)
  BY <1>1, <1>2, SameMmuKeeps, SMT
<1> QED  BY <1>1, <1>2, <1>3, <1>4, Zenon DEF PagingSound

\* The access of an instruction.
LEMMA AccessTyped ==
  ASSUME PagingSound, NEW w \in BOOLEAN
  PROVE  Translation!Reads(w) \in Translation!Access /\ Translation!Reads(w).write = w
<1>1. ASSUME NEW B, NEW x \in B, NEW y \in B
      PROVE  [user |-> x, write |-> y] \in [user : B, write : B] /\ [user |-> x, write |-> y].write = y
  BY SMT
<1>2. mmu.user \in BOOLEAN
  BY PagingParts, Zenon
<1> QED  BY <1>1, <1>2, Zenon DEF Translation!Reads, Translation!Access

\* A page fault leaves the window, at the supervisor's level.
LEMMA FaultLeavesWindow ==
  ASSUME NEW k \in MmuType, NEW k2, k2 = [k EXCEPT !.window = Translation!NoPage, !.at = 0, !.user = FALSE]
  PROVE  k2 \in MmuType /\ k2.window = Translation!NoPage /\ k2.TLB = k.TLB /\ k2.cr3 = k.cr3 /\ k2.wp = k.wp
<1> DEFINE no == FALSE
           k1 == WithWindow(k, Translation!NoPage, 0)
<1>1. k2 = WithLevel(k1, no)
  BY Zenon DEF WithWindow, WithLevel
<1>2. no \in BOOLEAN /\ k1 = WithWindow(k, Translation!NoPage, 0)
  OBVIOUS
<1>3. Translation!NoPage \in Page /\ 0 \in Nat
  BY SMT DEF Page
<1> HIDE DEF no, k1
<1>4. k1 \in MmuType /\ k1.window = Translation!NoPage /\ k1.TLB = k.TLB /\ k1.cr3 = k.cr3 /\ k1.wp = k.wp
  BY <1>2, <1>3, WithWindowKeeps, SMT
<1> QED  BY <1>1, <1>2, <1>4, WithLevelKeeps, SMT

\* access_linear.
LEMMA AccessKeeps ==
  ASSUME PagingSound, Translation!ConstantsOK, Translation!access_linear
  PROVE  PagingSound'
<1>1. PICK p \in LinearPages, w \in BOOLEAN :
        /\ Translation!Done(Translation!dtranslate(mmu, p, Translation!Reads(w)))
        /\ UNCHANGED <<allowed, touched, moved>>
  BY Zenon DEF Translation!access_linear, Translation!Kept
<1> DEFINE a == Translation!Reads(w)
           r == Translation!dtranslate(mmu, p, a)
<1>2. a \in Translation!Access
  BY AccessTyped, Zenon
<1>3. r = Translation!dtranslate(mmu, p, a)
  OBVIOUS
<1>4. /\ mmu' = IF r.fault THEN [r.k EXCEPT !.window = Translation!NoPage, !.at = 0, !.user = FALSE] ELSE r.k
      /\ dir' = r.dir /\ pt' = r.pt
  BY <1>1, Zenon DEF Translation!Done
<1> HIDE DEF a, r
<1>5. /\ r.k \in MmuType /\ r.k.pg = mmu.pg /\ r.k.user = mmu.user
      /\ r.k.a20 = mmu.a20 /\ r.k.window = mmu.window /\ r.k.at = mmu.at
  BY <1>2, <1>3, TranslateKeeps, Zenon
<1>6. CASE r.fault
  <2>1. /\ mmu' \in MmuType /\ mmu'.window = Translation!NoPage /\ mmu'.TLB = r.k.TLB /\ mmu'.cr3 = r.k.cr3
        /\ mmu'.wp = r.k.wp
    BY <1>4, <1>5, <1>6, FaultLeavesWindow, Zenon
  <2>2. WindowSound(mmu', allowed', moved')
    BY <2>1, OutsideWindow, Zenon
  <2> QED  BY <1>1, <1>2, <1>3, <1>4, <2>1, <2>2, AfterTranslation, Zenon
<1>7. CASE ~r.fault
  <2>1. mmu' = r.k
    BY <1>4, <1>7, Zenon
  <2>2. WindowSound(mmu, allowed, moved)
    BY PagingParts, Zenon
  <2>3. WindowSound(mmu', allowed', moved')
    BY <1>1, <1>5, <2>1, <2>2, Zenon DEF WindowSound
  <2> QED  BY <1>1, <1>2, <1>3, <1>4, <1>5, <2>1, <2>3, AfterTranslation, Zenon
<1> QED  BY <1>6, <1>7, Zenon

\* The frame of the window.
LEMMA A20Typed ==
  ASSUME NEW x \in Nat, NEW b \in BOOLEAN
  PROVE  Translation!A20ADDR(b, x) \in Nat
  BY SMT DEF Translation!A20ADDR

\* prefetch.
LEMMA PrefetchKeeps ==
  ASSUME PagingSound, Translation!ConstantsOK, Translation!prefetch
  PROVE  PagingSound'
<1> DEFINE no == FALSE
           a == Translation!Reads(no)
<1>1. PICK p \in LinearPages :
        /\ LET t == Translation!dtranslate(mmu, p, a) IN
           IF ~mmu.pg
           THEN /\ mmu' = [mmu EXCEPT !.window = p, !.at = Translation!A20ADDR(mmu.a20, p)]
                /\ UNCHANGED <<dir, pt>>
           ELSE IF t.fault THEN Translation!Done(t)
           ELSE /\ mmu' = [t.k EXCEPT !.window = p, !.at = Translation!A20ADDR(mmu.a20, t.frame)]
                /\ dir' = t.dir /\ pt' = t.pt
        /\ moved' = FALSE /\ UNCHANGED <<allowed, touched>>
  BY Zenon DEF Translation!prefetch, Translation!Kept
<1> DEFINE r == Translation!dtranslate(mmu, p, a)
<1>2. no \in BOOLEAN /\ ~no
  OBVIOUS
<1>3. r = Translation!dtranslate(mmu, p, a) /\ a = [user |-> mmu.user, write |-> FALSE]
  BY Zenon DEF Translation!Reads
<1>4. a \in Translation!Access /\ ~a.write
  <2> HIDE DEF no
  <2> QED  BY <1>2, AccessTyped, Zenon
<1>5. p \in Nat /\ p \in Page
  BY SMT DEF Translation!ConstantsOK, Page
<1>6. /\ ~mmu.pg => /\ mmu' = WithWindow(mmu, p, Translation!A20ADDR(mmu.a20, p))
                    /\ dir' = dir /\ pt' = pt
      /\ mmu.pg /\ r.fault =>
           /\ mmu' = [r.k EXCEPT !.window = Translation!NoPage, !.at = 0, !.user = FALSE]
           /\ dir' = r.dir /\ pt' = r.pt
      /\ mmu.pg /\ ~r.fault =>
           /\ mmu' = WithWindow(r.k, p, Translation!A20ADDR(mmu.a20, r.frame))
           /\ dir' = r.dir /\ pt' = r.pt
      /\ moved' = FALSE /\ allowed' = allowed /\ touched' = touched
  BY <1>1, Zenon DEF Translation!Done, WithWindow
<1> HIDE DEF a, r
<1>7. /\ r.k \in MmuType /\ r.k.cr3 = mmu.cr3 /\ r.k.pg = mmu.pg /\ r.k.wp = mmu.wp /\ r.k.user = mmu.user
      /\ r.k.a20 = mmu.a20 /\ r.frame \in Nat /\ (~r.fault => <<p, r.frame, a>> \in allowed)
  BY <1>3, <1>4, TranslateKeeps, Zenon
<1>8. CASE ~mmu.pg
  <2> DEFINE x == Translation!A20ADDR(mmu.a20, p)
  <2>1. x \in Nat
    BY <1>5, PagingParts, A20Typed, Zenon
  <2>2. mmu' = WithWindow(mmu, p, x)
    BY <1>6, <1>8, Zenon
  <2>3. x = Translation!A20ADDR(mmu.a20, p)
    OBVIOUS
  <2> HIDE DEF x
  <2>4. /\ mmu' \in MmuType /\ mmu'.TLB = mmu.TLB /\ mmu'.cr3 = mmu.cr3 /\ mmu'.wp = mmu.wp /\ mmu'.pg = mmu.pg
        /\ mmu'.window = p /\ mmu'.at = x /\ mmu'.a20 = mmu.a20
    BY <1>5, <2>1, <2>2, PagingParts, WithWindowKeeps, SMT
  <2>5. WindowSound(mmu', allowed', moved')
    BY <1>8, <2>3, <2>4, Zenon DEF WindowSound
  <2>6. mmu.cr3 \in AddressSpaces /\ TlbSound(mmu, dir, pt, allowed, touched) /\ TablesTyped(dir, pt)
        /\ Translation!Now(mmu, dir, pt) \subseteq allowed
    BY PagingParts, Zenon
  <2>7. Translation!Now(mmu', dir, pt) = Translation!Now(mmu, dir, pt) /\ TlbSound(mmu', dir, pt, allowed, touched)
    BY ONLY <2>4, <2>6, SameMmuKeeps, SMT
  <2> QED  BY <1>6, <1>8, <2>4, <2>5, <2>6, <2>7, Zenon DEF PagingSound
<1>9. CASE mmu.pg /\ r.fault
  <2>1. /\ mmu' \in MmuType /\ mmu'.window = Translation!NoPage /\ mmu'.TLB = r.k.TLB /\ mmu'.cr3 = r.k.cr3
        /\ mmu'.wp = r.k.wp
    BY <1>6, <1>7, <1>9, FaultLeavesWindow, Zenon
  <2>2. WindowSound(mmu', allowed', moved')
    BY <2>1, OutsideWindow, Zenon
  <2>3. dir' = r.dir /\ pt' = r.pt /\ allowed' = allowed /\ touched' = touched
    BY <1>6, <1>9, Zenon
  <2> QED  BY <1>3, <1>4, <2>1, <2>2, <2>3, AfterTranslation, Zenon
<1>10. CASE mmu.pg /\ ~r.fault
  <2> DEFINE x == Translation!A20ADDR(mmu.a20, r.frame)
  <2>1. x \in Nat
    BY <1>7, PagingParts, A20Typed, Zenon
  <2>2. mmu' = WithWindow(r.k, p, x)
    BY <1>6, <1>10, Zenon
  <2>3. x = Translation!A20ADDR(mmu.a20, r.frame)
    OBVIOUS
  <2> HIDE DEF x
  <2>4. /\ mmu' \in MmuType /\ mmu'.TLB = r.k.TLB /\ mmu'.cr3 = r.k.cr3 /\ mmu'.wp = r.k.wp /\ mmu'.pg = r.k.pg
        /\ mmu'.window = p /\ mmu'.at = x /\ mmu'.a20 = r.k.a20 /\ mmu'.user = r.k.user
    <3>1. r.k \in MmuType
      BY <1>7, Zenon
    <3> DEFINE k == r.k
    <3>2. k \in MmuType /\ mmu' = WithWindow(k, p, x)
      BY <2>2, <3>1, Zenon
    <3> HIDE DEF k
    <3>3. /\ mmu' \in MmuType /\ mmu'.TLB = k.TLB /\ mmu'.cr3 = k.cr3 /\ mmu'.wp = k.wp /\ mmu'.pg = k.pg
          /\ mmu'.window = p /\ mmu'.at = x /\ mmu'.a20 = k.a20 /\ mmu'.user = k.user
      BY ONLY <1>5, <2>1, <3>2, WithWindowKeeps, SMT
    <3> QED  BY <3>3, Zenon DEF k
  <2>5. WindowSound(mmu', allowed', moved')
    <3> DEFINE y == <<p, r.frame, a>>
    <3>1. y \in allowed'
      BY <1>6, <1>7, <1>10, Zenon
    <3>2. y[1] = p /\ y[2] = r.frame /\ y[3] = a
      BY SMT
    <3> HIDE DEF y
    <3>3. /\ y[1] = mmu'.window /\ mmu'.at = Translation!A20ADDR(mmu'.a20, y[2])
          /\ y[3] = [user |-> mmu'.user, write |-> FALSE]
      BY <1>3, <1>7, <2>3, <2>4, <3>2, Zenon
    <3>4. mmu'.pg
      BY <1>7, <1>10, <2>4, Zenon
    <3> QED  BY <3>1, <3>3, <3>4, Zenon DEF WindowSound
  <2> QED  BY <1>3, <1>4, <1>6, <1>10, <2>4, <2>5, AfterTranslation, Zenon
<1> QED  BY <1>8, <1>9, <1>10, Zenon

\* What more is allowed leaves the window sound.
LEMMA MoreAllowed ==
  ASSUME NEW k, NEW al, NEW al2, NEW mv, al \subseteq al2, WindowSound(k, al, mv)
  PROVE  WindowSound(k, al2, mv)
  BY Zenon DEF WindowSound

\* A change of the tables, of which the TLB hears nothing.
OnlyEdits(d, t, pages) ==
  \A c \in AddressSpaces, p \in LinearPages \ pages : d[c] = dir[c] /\ t[c][p] = pt[c][p]

\* The guest edits tables, and owes an invalidation of what it edited.
LEMMA EditKeeps ==
  ASSUME PagingSound, NEW d, NEW t, NEW pages, Translation!Edited(d, t, pages), TablesTyped(d, t),
         OnlyEdits(d, t, pages)
  PROVE  PagingSound'
<1>1. /\ dir' = d /\ pt' = t /\ allowed' = allowed \cup Translation!Now(mmu, d, t)
      /\ touched' = touched \cup pages /\ mmu' = mmu /\ moved' = moved
  BY Zenon DEF Translation!Edited
<1>2. /\ mmu \in MmuType /\ mmu.cr3 \in AddressSpaces /\ mmu.TLB \in [Slot -> EntryType]
      /\ TlbSound(mmu, dir, pt, allowed, touched) /\ WindowSound(mmu, allowed, moved)
  BY PagingParts, Zenon
<1>3. WindowSound(mmu', allowed', moved')
  BY <1>1, <1>2, MoreAllowed, Zenon
<1>4. TlbSound(mmu', dir', pt', allowed', touched')
  <2> SUFFICES ASSUME NEW n \in Slot PROVE EntrySound(mmu, mmu.TLB[n], n, d, t, allowed', touched')
    BY <1>1, Zenon DEF TlbSound
  <2> DEFINE e == mmu.TLB[n]
  <2>1. EntrySound(mmu, e, n, dir, pt, allowed, touched)
    BY <1>2, Zenon DEF TlbSound
  <2>2. e \in EntryType
    BY <1>2, Zenon
  <2>3. e.lpf \in Page
    BY <2>2, SMT DEF EntryType
  <2> HIDE DEF e
  <2> SUFFICES ASSUME e.lpf # Translation!NoPage
               PROVE  e.lpf % TlbSlots = n /\ EntryAllowed(mmu, e, allowed') /\ EntryMarked(mmu, e, d, t, touched')
    BY <2>1, Zenon DEF EntrySound, e
  <2>4. e.lpf % TlbSlots = n /\ EntryAllowed(mmu, e, allowed) /\ EntryMarked(mmu, e, dir, pt, touched)
    BY <2>1, Zenon DEF EntrySound
  <2>5. EntryAllowed(mmu, e, allowed')
    BY <1>1, <2>4, Zenon DEF EntryAllowed
  <2>6. EntryMarked(mmu, e, d, t, touched')
    <3>1. CASE e.lpf \in pages
      BY <1>1, <3>1, Zenon DEF EntryMarked
    <3>2. CASE e.lpf \notin pages
      <4>1. d[mmu.cr3] = dir[mmu.cr3] /\ t[mmu.cr3][e.lpf] = pt[mmu.cr3][e.lpf]
        BY <1>2, <2>3, <3>2, Zenon DEF Page, OnlyEdits
      <4>2. e.lpf \in touched => e.lpf \in touched'
        BY <1>1, Zenon
      <4> QED  BY <2>4, <4>1, <4>2, Zenon DEF EntryMarked
    <3> QED  BY <3>1, <3>2, Zenon
  <2> QED  BY <2>4, <2>5, <2>6, Zenon
<1> QED  BY <1>1, <1>2, <1>3, <1>4, Zenon DEF PagingSound

\* The guest changes an entry of a table.
LEMMA EditTyped ==
  ASSUME NEW e \in TableType
  PROVE  /\ [e EXCEPT !.P = ~@] \in TableType /\ [e EXCEPT !.US = ~@] \in TableType
         /\ [e EXCEPT !.RW = ~@] \in TableType /\ [e EXCEPT !.A = FALSE, !.D = FALSE] \in TableType
         /\ [e EXCEPT !.frame = 1 - (@ % 2)] \in TableType
<1>1. ASSUME NEW B, NEW N, NEW q \in [P : B, US : B, RW : B, A : B, D : B, frame : N], NEW x \in B, NEW y \in N
      PROVE  /\ [q EXCEPT !.P = x] \in [P : B, US : B, RW : B, A : B, D : B, frame : N]
             /\ [q EXCEPT !.US = x] \in [P : B, US : B, RW : B, A : B, D : B, frame : N]
             /\ [q EXCEPT !.RW = x] \in [P : B, US : B, RW : B, A : B, D : B, frame : N]
             /\ [q EXCEPT !.A = x] \in [P : B, US : B, RW : B, A : B, D : B, frame : N]
             /\ [q EXCEPT !.D = x] \in [P : B, US : B, RW : B, A : B, D : B, frame : N]
             /\ [q EXCEPT !.frame = y] \in [P : B, US : B, RW : B, A : B, D : B, frame : N]
  BY SMT
<1>2. /\ \A x \in BOOLEAN : [e EXCEPT !.P = x] \in TableType /\ [e EXCEPT !.US = x] \in TableType
                            /\ [e EXCEPT !.RW = x] \in TableType
      /\ \A q \in TableType, x \in BOOLEAN : [q EXCEPT !.A = x] \in TableType /\ [q EXCEPT !.D = x] \in TableType
      /\ \A y \in Nat : [e EXCEPT !.frame = y] \in TableType
  BY <1>1, Zenon DEF TableType
<1>3. e.P \in BOOLEAN /\ e.US \in BOOLEAN /\ e.RW \in BOOLEAN /\ e.frame \in Nat
  BY TableFieldsAre, Zenon
<1>4. (~e.P) \in BOOLEAN /\ (~e.US) \in BOOLEAN /\ (~e.RW) \in BOOLEAN /\ FALSE \in BOOLEAN
  OBVIOUS
<1>5. 1 - (e.frame % 2) \in Nat
  BY <1>3, SMT
<1>6. [[e EXCEPT !.A = FALSE] EXCEPT !.D = FALSE] \in TableType
  BY <1>2, <1>4, Zenon
<1> QED  BY <1>2, <1>4, <1>5, <1>6, Zenon

\* An edited directory entry is one.
LEMMA EditDirTyped ==
  ASSUME NEW e \in DirType
  PROVE  /\ [e EXCEPT !.US = ~@] \in DirType /\ [e EXCEPT !.RW = ~@] \in DirType /\ [e EXCEPT !.A = FALSE] \in DirType
<1>1. ASSUME NEW B, NEW q \in [P : B, US : B, RW : B, A : B], NEW x \in B
      PROVE  /\ [q EXCEPT !.US = x] \in [P : B, US : B, RW : B, A : B]
             /\ [q EXCEPT !.RW = x] \in [P : B, US : B, RW : B, A : B]
             /\ [q EXCEPT !.A = x] \in [P : B, US : B, RW : B, A : B]
  BY SMT
<1>2. \A x \in BOOLEAN : [e EXCEPT !.US = x] \in DirType /\ [e EXCEPT !.RW = x] \in DirType /\ [e EXCEPT !.A = x] \in DirType
  BY <1>1, Zenon DEF DirType
<1>3. (~e.US) \in BOOLEAN /\ (~e.RW) \in BOOLEAN /\ FALSE \in BOOLEAN
  OBVIOUS
<1> QED  BY <1>2, <1>3, Zenon

\* An edit of a table entry.
LEMMA EditsTableKeeps ==
  ASSUME PagingSound, Translation!EditsTable
  PROVE  PagingSound'
<1>a. PICK c \in AddressSpaces, p \in LinearPages :
        LET was == pt[c][p] IN
        \E e \in {[was EXCEPT !.P = ~@], [was EXCEPT !.US = ~@], [was EXCEPT !.RW = ~@],
                  [was EXCEPT !.A = FALSE, !.D = FALSE], [was EXCEPT !.frame = 1 - (@ % 2)]} :
          e # was /\ Translation!Edited(dir, [pt EXCEPT ![c][p] = e], {p})
  BY Zenon DEF Translation!EditsTable
<1>1. PICK e \in {[pt[c][p] EXCEPT !.P = ~@], [pt[c][p] EXCEPT !.US = ~@], [pt[c][p] EXCEPT !.RW = ~@],
                    [pt[c][p] EXCEPT !.A = FALSE, !.D = FALSE], [pt[c][p] EXCEPT !.frame = 1 - (@ % 2)]} :
        Translation!Edited(dir, [pt EXCEPT ![c][p] = e], {p})
  BY <1>a, Zenon
<1>2. dir \in [AddressSpaces -> DirType] /\ pt \in [AddressSpaces -> [LinearPages -> TableType]]
  BY PagingParts, Zenon DEF TablesTyped
<1>3. pt[c][p] \in TableType /\ pt[c] \in [LinearPages -> TableType]
  BY <1>2, Zenon
<1>4. e \in TableType
  BY <1>3, EditTyped, Zenon
<1> DEFINE row == [pt[c] EXCEPT ![p] = e]
           t == [pt EXCEPT ![c] = row]
<1>5. Translation!Edited(dir, t, {p})
  BY <1>1
<1>6. row \in [LinearPages -> TableType] /\ \A q \in LinearPages \ {p} : row[q] = pt[c][q]
  BY ONLY <1>3, <1>4, Zenon
<1> HIDE DEF row
<1>7. t \in [AddressSpaces -> [LinearPages -> TableType]] /\ t[c] = row /\ \A x \in AddressSpaces : x # c => t[x] = pt[x]
  BY ONLY <1>2, <1>6, Zenon
<1> HIDE DEF t
<1>8. TablesTyped(dir, t)
  BY <1>2, <1>7, Zenon DEF TablesTyped
<1>9. OnlyEdits(dir, t, {p})
  BY <1>6, <1>7, Zenon DEF OnlyEdits
<1> QED  BY <1>5, <1>8, <1>9, EditKeeps, Zenon

\* An edit of a directory entry.
LEMMA EditsDirectoryKeeps ==
  ASSUME PagingSound, Translation!EditsDirectory
  PROVE  PagingSound'
<1>a. PICK c \in AddressSpaces :
        LET was == dir[c] IN
        \E e \in {[was EXCEPT !.US = ~@], [was EXCEPT !.RW = ~@], [was EXCEPT !.A = FALSE]} :
          e # was /\ Translation!Edited([dir EXCEPT ![c] = e], pt, LinearPages)
  BY Zenon DEF Translation!EditsDirectory
<1>1. PICK e \in {[dir[c] EXCEPT !.US = ~@], [dir[c] EXCEPT !.RW = ~@], [dir[c] EXCEPT !.A = FALSE]} :
        Translation!Edited([dir EXCEPT ![c] = e], pt, LinearPages)
  BY <1>a, Zenon
<1>2. dir \in [AddressSpaces -> DirType] /\ pt \in [AddressSpaces -> [LinearPages -> TableType]]
  BY PagingParts, Zenon DEF TablesTyped
<1>b. dir[c] \in DirType
  BY <1>2, Zenon
<1>3. e \in DirType
  BY <1>b, EditDirTyped, Zenon
<1> DEFINE d == [dir EXCEPT ![c] = e]
<1>4. d \in [AddressSpaces -> DirType]
  BY ONLY <1>2, <1>3, Zenon
<1>5. Translation!Edited(d, pt, LinearPages)
  BY <1>1
<1> HIDE DEF d
<1>6. TablesTyped(d, pt)
  BY <1>2, <1>4, Zenon DEF TablesTyped
<1>7. OnlyEdits(d, pt, LinearPages)
  BY Zenon DEF OnlyEdits
<1> QED  BY <1>5, <1>6, <1>7, EditKeeps, Zenon

-----------------------------------------------------------------------------
\* The tables that the guest begins with allow everything that they allow.
LEMMA PagingStarts ==
  ASSUME Translation!Init, Translation!ConstantsOK
  PROVE  PagingSound
<1> DEFINE yes == TRUE
           no == FALSE
<1>1. /\ mmu = [cr3 |-> CHOOSE c \in AddressSpaces : TRUE, pg |-> yes, wp |-> no, user |-> no, a20 |-> yes,
                TLB |-> Translation!Blank, window |-> Translation!NoPage, at |-> 0]
      /\ dir = [c \in AddressSpaces |-> [P |-> yes, US |-> yes, RW |-> yes, A |-> no]]
      /\ pt = [c \in AddressSpaces |-> [p \in LinearPages |->
                 [P |-> yes, US |-> yes, RW |-> yes, A |-> no, D |-> no, frame |-> FirstFrame(c, p)]]]
      /\ allowed = Translation!Now(mmu, dir, pt)
  BY Zenon DEF Translation!Init
<1>2. yes \in BOOLEAN /\ no \in BOOLEAN
  OBVIOUS
<1> HIDE DEF yes, no
<1>3. /\ mmu.TLB = Translation!Blank /\ mmu.window = Translation!NoPage
  BY <1>1, Zenon
<1>4. mmu \in MmuType
  <2>1. (CHOOSE c \in AddressSpaces : TRUE) \in AddressSpaces
    BY Zenon DEF Translation!ConstantsOK
  <2>2. Translation!NoPage \in Page /\ 0 \in Nat
    BY SMT DEF Page
  <2> QED  BY <1>1, <1>2, <2>1, <2>2, BlankSound, Zenon DEF MmuType
<1>5. TablesTyped(dir, pt)
  <2>1. \A c \in AddressSpaces, p \in LinearPages : FirstFrame(c, p) \in Nat
    BY Zenon DEF Translation!ConstantsOK
  <2>2. dir \in [AddressSpaces -> DirType]
    BY <1>1, <1>2, Zenon DEF DirType
  <2>3. \A c \in AddressSpaces, p \in LinearPages :
          [P |-> yes, US |-> yes, RW |-> yes, A |-> no, D |-> no, frame |-> FirstFrame(c, p)] \in TableType
    BY <1>2, <2>1, Zenon DEF TableType
  <2>4. pt \in [AddressSpaces -> [LinearPages -> TableType]]
    BY <1>1, <2>3, Zenon
  <2> QED  BY <2>2, <2>4, Zenon DEF TablesTyped
<1> QED  BY <1>1, <1>3, <1>4, <1>5, BlankSound, OutsideWindow, Zenon DEF PagingSound

\* Every step of the translation keeps it sound.
LEMMA PagingStepsKeep ==
  ASSUME PagingSound, Translation!ConstantsOK, Translation!Next
  PROVE  PagingSound'
  BY AccessKeeps, PrefetchKeeps, ChangeOfSpaceKeeps, PagingChangeKeeps, InvalidationKeeps, ChangeOfLevelKeeps,
     A20Keeps, EditsTableKeeps, EditsDirectoryKeeps, Zenon DEF Translation!Next

\* So does a step of anything else.
LEMMA PagingUnchanged ==
  ASSUME PagingSound, UNCHANGED translation
  PROVE  PagingSound'
<1>1. /\ mmu' = mmu /\ dir' = dir /\ pt' = pt /\ allowed' = allowed /\ touched' = touched
      /\ moved' = moved
  BY Zenon DEF translation
<1> QED  BY <1>1, Zenon DEF PagingSound

\* In every behaviour of the run, for any pages, slots, spaces and edits, the
\* tables have allowed all that the TLB and the window hold.
THEOREM PagingInvariant == Spec => []PagingSound
<1>1. Init => PagingSound
  BY ConstantsAssumption, PagingStarts, Zenon DEF Init
<1>2. PagingSound /\ [Next]_vars => PagingSound'
  <2> SUFFICES ASSUME PagingSound, [Next]_vars PROVE PagingSound'
    OBVIOUS
  <2>1. CASE driven \in Translating /\ Translation!Next
    BY <2>1, ConstantsAssumption, PagingStepsKeep, Zenon
  <2>2. CASE UNCHANGED translation
    BY <2>2, PagingUnchanged, Zenon
  <2>3. Next => (driven \in Translating /\ Translation!Next) \/ UNCHANGED translation
    BY Zenon DEF Next
  <2>4. UNCHANGED vars => UNCHANGED translation
    BY Zenon DEF vars
  <2> QED  BY <2>1, <2>2, <2>3, <2>4, Zenon
<1> QED  BY <1>1, <1>2, PTL DEF Spec

\* What is sound is allowed.
LEMMA PagingSays ==
  ASSUME PagingSound, Translation!ConstantsOK
  PROVE  TranslationIsAllowed
<1>1. TlbSound(mmu, dir, pt, allowed, touched) /\ WindowSound(mmu, allowed, moved)
  BY PagingParts, Zenon
<1>2. Translation!OnlySupervisorWritesWiden
  BY <1>1, Zenon DEF TlbSound, EntrySound, EntryAllowed, Slot, Translation!OnlySupervisorWritesWiden, Translation!Valid
<1>3. Translation!MarkedBeforeUse
  BY <1>1, Zenon DEF TlbSound, EntrySound, EntryMarked, Slot, Translation!MarkedBeforeUse, Translation!Valid
<1>4. Translation!OnlyA20LeavesFetchStale
  BY <1>1, Zenon DEF WindowSound, Translation!OnlyA20LeavesFetchStale, Translation!Reads
<1> QED  BY <1>2, <1>3, <1>4, Zenon DEF TranslationIsAllowed

\* What the TLB and the prefetch window let pass without a walk, the tables have
\* allowed since the guest had them forgotten, and marked (paging.cc, cpu.cc).
THEOREM NothingForgottenPasses == Spec => []TranslationIsAllowed
<1>1. PagingSound => TranslationIsAllowed
  BY ConstantsAssumption, PagingSays, Zenon
<1> QED  BY <1>1, PagingInvariant, PTL
=============================================================================
