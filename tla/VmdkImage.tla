----------------------------- MODULE VmdkImage ------------------------------
(***************************************************************************)
(* A VMware 4 sparse hard disk image (vmware4_image_t, vmware4.cc) and the *)
(* host file it is kept in.  The disk is cut into grains; a table names    *)
(* the place of every grain in the file, and the file may hold a second    *)
(* copy of the table.  The tables themselves are found in two directories  *)
(* (flb_cache, flb_copy_cache); a table that is in neither does not exist  *)
(* and its grains cannot be used.                                          *)
(*                                                                         *)
(* One grain (the "tlb") and one table (the "slb") are in memory.  A grain *)
(* is flushed when another one is needed, and flush() does not seek: it    *)
(* relies on the file being positioned at the place of the grain.          *)
(* "position" is that position; places lie one behind the other, and       *)
(* Metadata is any position before them.                                   *)
(***************************************************************************)
EXTENDS Integers

CONSTANTS
  Tables,          \* gt_count
  TableSize,       \* header.slb_count
  GrainSize,       \* header.tlb_size_sectors
  Value,           \* what a sector may hold
  Zero,            \* what a sector that was never written holds
  InDirectory,     \* the tables named in the directory
  InCopy,          \* the tables named in the copy of the directory
  HostPlaces       \* bound: the places the host file has room for

Table == 0 .. Tables - 1
Entry == 0 .. TableSize - 1
Grain == 0 .. Tables * TableSize - 1
Slot == 0 .. GrainSize - 1
Sector == 0 .. Tables * TableSize * GrainSize - 1
Place == 1 .. HostPlaces

ConstantsOK ==
  /\ Tables \in Nat \ {0}
  /\ TableSize \in Nat \ {0}
  /\ GrainSize \in Nat \ {0}
  /\ Zero \in Value
  /\ InDirectory \subseteq Table
  /\ InCopy \subseteq Table
  /\ HostPlaces \in Nat

Exists(t) == t \in InDirectory \cup InCopy

Metadata == 0        \* a position before all places
Unallocated == 0     \* an entry of a table
NoGrain == -1        \* tlb_offset = INVALID_OFFSET

VARIABLES
  \* the host file
  table,             \* table[t][e]: the place of a grain
  table_copy,        \* the same, in the copy
  data,              \* data[p]: the sectors at place p
  end,               \* the place at which the file ends
  position,          \* the file position
  \* the driver
  open,
  tlb_grain,         \* the grain at tlb_offset, in memory
  tlb, is_dirty,
  slb_cache, current_flb_index, slb_cache_loaded,
  reply,             \* what the last read returned
  \* history
  versions,          \* versions[s]: what sector s held since the last close
  missed             \* has a seek ever met a table that does not exist?

tables == <<table, table_copy>>
slb == <<slb_cache, current_flb_index, slb_cache_loaded>>
vars == <<tables, data, end, position, open, tlb_grain, tlb, is_dirty, slb, reply, versions, missed>>

GrainOf(s) == s \div GrainSize
SlotOf(s) == s % GrainSize
TableOf(g) == g \div TableSize
EntryOf(g) == g % TableSize

TypeOK ==
  /\ table \in [Table -> [Entry -> Place \cup {Unallocated}]]
  /\ table_copy \in [Table -> [Entry -> Place \cup {Unallocated}]]
  /\ data \in [Place -> [Slot -> Value]]
  /\ end \in 1 .. HostPlaces + 1
  /\ position \in 0 .. HostPlaces + 1
  /\ open \in BOOLEAN
  /\ tlb_grain \in Grain \cup {NoGrain}
  /\ tlb \in [Slot -> Value]
  /\ is_dirty \in BOOLEAN
  /\ slb_cache \in [Entry -> Place \cup {Unallocated}]
  /\ current_flb_index \in Table
  /\ slb_cache_loaded \in BOOLEAN
  /\ reply \in Value
  /\ versions \in [Sector -> SUBSET Value]
  /\ missed \in BOOLEAN

-----------------------------------------------------------------------------
\* ensure_slb_cache reads the copy of a table that the directory does not name.
TableInUse(t) == IF t \in InDirectory THEN table[t] ELSE table_copy[t]

PlaceOf(g) == TableInUse(TableOf(g))[EntryOf(g)]

\* What the sectors hold: the grain in memory hides the one in the file.
Content ==
  [s \in Sector |->
     IF open /\ GrainOf(s) = tlb_grain THEN tlb[SlotOf(s)]
     ELSE IF PlaceOf(GrainOf(s)) = Unallocated THEN Zero
     ELSE data[PlaceOf(GrainOf(s))][SlotOf(s)]]

Only(d) == [s \in Sector |-> {d[s]}]

NoEntries == [e \in Entry |-> Unallocated]
ZeroGrain == [i \in Slot |-> Zero]

\* Any image that other software, or an earlier run, may have left.
Init ==
  /\ end \in 1 .. HostPlaces + 1
  /\ table \in [Table -> [Entry -> 0 .. end - 1]]
  /\ table_copy = [t \in Table |-> IF t \in InCopy THEN table[t] ELSE NoEntries]
  /\ \A t \in Table : ~Exists(t) => table[t] = NoEntries
  /\ \A g, h \in Grain : PlaceOf(g) = PlaceOf(h) /\ PlaceOf(g) # Unallocated => g = h
  /\ data \in [Place -> [Slot -> Value]]
  /\ position = Metadata
  /\ open = FALSE
  /\ tlb_grain = NoGrain /\ tlb = ZeroGrain /\ is_dirty = FALSE
  /\ slb_cache = NoEntries /\ current_flb_index = 0 /\ slb_cache_loaded = FALSE
  /\ reply = Zero
  /\ versions = Only(Content)
  /\ missed = FALSE

\* open() reads the header and the directories; the buffers are not initialized.
Open ==
  /\ ~open
  /\ open' = TRUE
  /\ position' = Metadata
  /\ tlb_grain' = NoGrain
  /\ is_dirty' = FALSE
  /\ current_flb_index' = 0
  /\ slb_cache_loaded' = FALSE
  /\ UNCHANGED <<tables, data, end, tlb, slb_cache, reply, versions, missed>>

\* Wrong versions, which only a mutation uses: flush() forgotten; every flush
\* taken to lengthen the file; no lseek back once the grain was read; the copy
\* of the table entered before the table.
NotFlushed == data
EndAlwaysMoves == IF is_dirty THEN end + 1 ELSE end
BehindIt(p) == p + 1
EnteredFirst(writes) == TRUE

\* flush(): the file, and its position, once the grain in memory is written.
Flushed == IF is_dirty THEN [data EXCEPT ![position] = tlb] ELSE data
OldPosition == IF is_dirty THEN position + 1 ELSE position
OldEnd == IF is_dirty /\ position = end THEN end + 1 ELSE end

\* Where the file is positioned once the grain at p was read.
RewoundTo(p) == p

\* Which of the two entries are made after that many of the writes.
TableEntered(writes) == writes >= 1
CopyEntered(writes) == writes >= 2

Entered(tabs, named, g, p) ==
  IF TableOf(g) \in named THEN [tabs EXCEPT ![TableOf(g)][EntryOf(g)] = p] ELSE tabs

CanFlush == is_dirty => position \in Place

\* ensure_slb_cache(t): the table in memory after it.
Cached(t) == slb_cache_loaded /\ current_flb_index = t
SlbFor(t) == IF Cached(t) THEN slb_cache ELSE TableInUse(t)

\* perform_seek() to the grain in memory: nothing happens.
SeekHit(g) ==
  /\ g = tlb_grain
  /\ UNCHANGED <<tables, data, end, position, tlb_grain, slb>>

\* ... to another one, which has a place: the file stays positioned at it.
SeekLoads(g) ==
  LET t == TableOf(g)
      p == SlbFor(t)[EntryOf(g)]
  IN  /\ g # tlb_grain /\ CanFlush /\ Exists(t)
      /\ p # Unallocated
      /\ data' = Flushed
      /\ end' = OldEnd
      /\ slb_cache' = SlbFor(t) /\ current_flb_index' = t /\ slb_cache_loaded' = TRUE
      /\ tlb_grain' = g
      /\ position' = RewoundTo(p)
      /\ UNCHANGED tables

\* ... to one that has none, even to read it: zeros are appended to the file,
\* and the place is entered in the table and then in its copy.
SeekAllocates(g) ==
  LET t == TableOf(g)
      e == EntryOf(g)
      p == OldEnd
  IN  /\ g # tlb_grain /\ CanFlush /\ Exists(t)
      /\ SlbFor(t)[e] = Unallocated
      /\ p \in Place
      /\ data' = [Flushed EXCEPT ![p] = ZeroGrain]
      /\ end' = p + 1
      /\ table' = Entered(table, InDirectory, g, p)
      /\ table_copy' = Entered(table_copy, InCopy, g, p)
      /\ slb_cache' = [SlbFor(t) EXCEPT ![e] = p]
      /\ current_flb_index' = t /\ slb_cache_loaded' = TRUE
      /\ tlb_grain' = g
      /\ position' = p

\* ... to one whose table does not exist: the seek fails, but the grain in
\* memory was flushed and the table in memory dropped.
SeekFails(g) ==
  LET t == TableOf(g)
  IN  /\ open
      /\ g # tlb_grain /\ CanFlush /\ ~Exists(t)
      /\ data' = Flushed
      /\ end' = OldEnd
      /\ position' = OldPosition
      /\ is_dirty' = FALSE
      /\ slb_cache' = NoEntries /\ current_flb_index' = t /\ slb_cache_loaded' = FALSE
      /\ missed' = TRUE
      /\ UNCHANGED <<tables, open, tlb_grain, tlb, reply, versions>>

\* The grain in memory once perform_seek() to g succeeded.
Loaded(g) ==
  IF g = tlb_grain THEN tlb
  ELSE IF SlbFor(TableOf(g))[EntryOf(g)] = Unallocated THEN ZeroGrain
  ELSE Flushed[SlbFor(TableOf(g))[EntryOf(g)]]

Seek(g) == SeekHit(g) \/ SeekLoads(g) \/ SeekAllocates(g)

\* lseek() and read() of one sector.
ReadSector(s) ==
  /\ open
  /\ Seek(GrainOf(s))
  /\ tlb' = Loaded(GrainOf(s))
  /\ is_dirty' = (is_dirty /\ GrainOf(s) = tlb_grain)
  /\ reply' = Loaded(GrainOf(s))[SlotOf(s)]
  /\ UNCHANGED <<open, versions, missed>>

\* lseek() and write() of one sector.
WriteSector(s, v) ==
  /\ open
  /\ Seek(GrainOf(s))
  /\ tlb' = [Loaded(GrainOf(s)) EXCEPT ![SlotOf(s)] = v]
  /\ is_dirty' = TRUE
  /\ versions' = [versions EXCEPT ![s] = @ \cup {v}]
  /\ UNCHANGED <<open, reply, missed>>

Close ==
  /\ open
  /\ CanFlush
  /\ open' = FALSE
  /\ data' = Flushed
  /\ end' = OldEnd
  /\ is_dirty' = FALSE
  /\ UNCHANGED <<tables, position, tlb_grain, tlb, slb, reply, missed>>
  /\ versions' = Only(Content')

\* The program ends without close(), between two operations ...
Crash ==
  /\ open
  /\ open' = FALSE
  /\ UNCHANGED <<tables, data, end, position, tlb_grain, tlb, is_dirty, slb, reply, missed>>
  /\ versions' = Only(Content')

\* ... or while a place is allocated, after some of the two writes that enter
\* it in the table and in the copy.
CrashAllocating(g, writes) ==
  LET p == OldEnd
  IN  /\ open
      /\ g # tlb_grain /\ CanFlush /\ Exists(TableOf(g))
      /\ SlbFor(TableOf(g))[EntryOf(g)] = Unallocated
      /\ p \in Place
      /\ open' = FALSE
      /\ data' = [Flushed EXCEPT ![p] = ZeroGrain]
      /\ end' = p + 1
      /\ table' = IF TableEntered(writes) THEN Entered(table, InDirectory, g, p) ELSE table
      /\ table_copy' = IF CopyEntered(writes) THEN Entered(table_copy, InCopy, g, p) ELSE table_copy
      /\ UNCHANGED <<position, tlb_grain, tlb, is_dirty, slb, reply, missed>>
      /\ versions' = Only(Content')

Next ==
  \/ Open
  \/ \E s \in Sector : ReadSector(s)
  \/ \E s \in Sector, v \in Value : WriteSector(s, v)
  \/ \E g \in Grain : SeekFails(g)
  \/ Close
  \/ Crash
  \/ \E g \in Grain, writes \in 0 .. 2 : CrashAllocating(g, writes)

Spec == Init /\ [][Next]_vars

-----------------------------------------------------------------------------
\* What flush() relies on, in the words of its comment: "Assume that the file
\* is already at the position for the current tlb."
AtCurrentGrain == open /\ is_dirty => position = PlaceOf(tlb_grain)

\* It is so until the guest uses a grain of a table that does not exist.
AtGrainUntilMissed == missed \/ AtCurrentGrain

\* The copy of a table never names a place that the table does not: a program
\* that ends while a place is allocated leaves at most the copy behind.
CopyNeverAhead ==
  \A t \in InDirectory \cap InCopy, e \in Entry :
    table_copy[t][e] \in {Unallocated, table[t][e]}

Disk == INSTANCE SectorDisk WITH disk <- Content

\* Until the guest uses a grain of a table that does not exist, the image is a
\* disk: it reads back what was written, and a program that ends without closing
\* it damages no sector that was not written since the last close.
DiskUntilMissed == Disk!Init /\ [][missed \/ Disk!Next]_<<Content, versions, reply>>
=============================================================================
