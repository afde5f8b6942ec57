------------------------------ MODULE VhdImage ------------------------------
(***************************************************************************)
(* A dynamic VHD hard disk image (vpc_image_t, vpc.cc) and the host file   *)
(* it is kept in.  The file holds a table (the BAT), then places, each a   *)
(* sector bitmap and a block of sectors, and ends with a footer, exactly   *)
(* where the next place will begin.                                        *)
(*                                                                         *)
(* Nothing is kept back in memory: a write goes to the file step by step,  *)
(* and "step" is the next write to the file that it still has to do.  The  *)
(* program may end at any time (Crash), also between two of these steps.   *)
(* harddrv.cc reads and writes one sector at a time.                       *)
(***************************************************************************)
EXTENDS Integers

CONSTANTS
  Blocks,          \* max_table_entries
  BlockSize,       \* block_size, in sectors
  Value,           \* what a sector may hold
  Zero,            \* what a sector of a block with no place holds
  HostPlaces       \* bound: the places the host file has room for

ConstantsOK ==
  /\ Blocks \in Nat \ {0}
  /\ BlockSize \in Nat \ {0}
  /\ Zero \in Value
  /\ HostPlaces \in Nat

Block == 0 .. Blocks - 1
Slot == 0 .. BlockSize - 1
Sector == 0 .. Blocks * BlockSize - 1
Place == 0 .. HostPlaces - 1

Unallocated == -1    \* 0xFFFFFFFF, an entry of the table
Nowhere == -1        \* no place of the file

VARIABLES
  \* the host file
  bat,               \* the table at bat_offset
  bitmap,            \* bitmap[p]: is every sector of place p marked as in use?
  data,              \* data[p]: the sectors of place p
  footer_at,         \* the place over which the footer lies, or Nowhere
  \* the driver
  open,
  pagetable,
  free,              \* free_data_block_offset: where the next place begins
  last_bitmap,       \* last_bitmap_offset: the place whose bitmap was written last
  step,              \* "idle", or the next write of the sector being written
  target,            \* the sector being written, and what with
  reply,             \* what the last read returned
  \* history
  versions,          \* versions[s]: what sector s held since the last close
  interrupted        \* has the program ended within an allocation, and none finished since?

file == <<bat, bitmap, data, footer_at>>
driver == <<pagetable, free, last_bitmap>>
vars == <<file, open, driver, step, target, reply, versions, interrupted>>

BlockOf(s) == s \div BlockSize
SlotOf(s) == s % BlockSize

TypeOK ==
  /\ bat \in [Block -> Place \cup {Unallocated}]
  /\ bitmap \in [Place -> BOOLEAN]
  /\ data \in [Place -> [Slot -> Value]]
  /\ footer_at \in 0 .. HostPlaces \cup {Nowhere}
  /\ open \in BOOLEAN
  /\ pagetable \in [Block -> Place \cup {Unallocated}]
  /\ free \in 0 .. HostPlaces
  /\ last_bitmap \in Place \cup {Nowhere}
  /\ step \in {"idle", "footer", "bat", "sector"}
  /\ target \in [sector : Sector, value : Value]
  /\ reply \in Value
  /\ versions \in [Sector -> SUBSET Value]
  /\ interrupted \in BOOLEAN

\* The last place that a table uses ends at n.
EndsAt(map, n) ==
  /\ \A b \in Block : map[b] < n
  /\ n > 0 => \E b \in Block : map[b] = n - 1

Injective(map) ==
  \A b, c \in Block : map[b] = map[c] /\ map[b] # Unallocated => b = c

-----------------------------------------------------------------------------
\* What the file says the sectors hold.
Content ==
  [s \in Sector |->
     IF bat[BlockOf(s)] = Unallocated THEN Zero ELSE data[bat[BlockOf(s)]][SlotOf(s)]]

Only(d) == [s \in Sector |-> {d[s]}]

\* Any image that other software, or an earlier run, may have left: nothing
\* follows its footer.
Init ==
  /\ bat \in [Block -> Place \cup {Unallocated}]
  /\ Injective(bat)
  /\ \E n \in 0 .. HostPlaces : EndsAt(bat, n) /\ free = n
  /\ bitmap \in [Place -> BOOLEAN]
  /\ data \in [Place -> [Slot -> Value]]
  /\ \A p \in Place : p >= free => data[p] = [i \in Slot |-> Zero]
  /\ footer_at = free
  /\ open = FALSE
  /\ pagetable = bat
  /\ last_bitmap = Nowhere
  /\ step = "idle"
  /\ target = [sector |-> 0, value |-> Zero]
  /\ reply = Zero
  /\ versions = Only(Content)
  /\ interrupted = FALSE

\* open() reads the table and finds where the last place in use ends.
Open ==
  /\ ~open
  /\ open' = TRUE
  /\ pagetable' = bat
  /\ free' \in 0 .. HostPlaces /\ EndsAt(bat, free')
  /\ last_bitmap' = Nowhere
  /\ UNCHANGED <<file, step, target, reply, versions, interrupted>>

Idle == open /\ step = "idle"

\* lseek() and read() of one sector.
ReadSector(s) ==
  /\ Idle
  /\ reply' = IF pagetable[BlockOf(s)] = Unallocated THEN Zero
              ELSE data[pagetable[BlockOf(s)]][SlotOf(s)]
  /\ UNCHANGED <<file, open, driver, step, target, versions, interrupted>>

\* Wrong versions of Marked and EndOf, which only a mutation uses.
NeverMarked(p) == bitmap
BeginningOf(p) == p
EndOfNext(p) == p + 2

\* The bitmaps once place p is marked; its own was, if it was marked last.
Marked(p) == IF last_bitmap = p THEN bitmap ELSE [bitmap EXCEPT ![p] = TRUE]

\* Where place p ends: behind its bitmap and its block.
EndOf(p) == p + 1

\* lseek() and write() of one sector, of a block that has a place: the first
\* write to another place marks all its sectors (get_sector_offset).
WriteInPlace(s, v) ==
  LET p == pagetable[BlockOf(s)] IN
  /\ Idle
  /\ p # Unallocated
  /\ bitmap' = Marked(p)
  /\ last_bitmap' = p
  /\ step' = "sector"
  /\ target' = [sector |-> s, value |-> v]
  /\ UNCHANGED <<bat, data, footer_at, open, pagetable, free, reply, versions, interrupted>>

\* ... of a block that has none (alloc_block): the bitmap of the new place goes
\* where the footer was,
WriteNewBlock(s, v) ==
  /\ Idle
  /\ pagetable[BlockOf(s)] = Unallocated
  /\ free < HostPlaces
  /\ pagetable' = [pagetable EXCEPT ![BlockOf(s)] = free]
  /\ bitmap' = [bitmap EXCEPT ![free] = TRUE]
  /\ footer_at' = IF footer_at = free THEN Nowhere ELSE footer_at
  /\ free' = EndOf(free)
  /\ step' = "footer"
  /\ target' = [sector |-> s, value |-> v]
  /\ UNCHANGED <<bat, data, open, last_bitmap, reply, versions, interrupted>>

\* the footer is written again after it (rewrite_footer),
WriteFooter ==
  /\ step = "footer"
  /\ step' = "bat"
  /\ footer_at' = free
  /\ UNCHANGED <<bat, bitmap, data, open, driver, target, reply, versions, interrupted>>

\* then the entry of the table,
WriteTableEntry ==
  /\ step = "bat"
  /\ step' = "sector"
  /\ bat' = [bat EXCEPT ![BlockOf(target.sector)] = pagetable[BlockOf(target.sector)]]
  /\ interrupted' = FALSE
  /\ UNCHANGED <<bitmap, data, footer_at, open, driver, target, reply, versions>>

\* and the sector at last.
WriteData ==
  LET s == target.sector IN
  /\ step = "sector"
  /\ step' = "idle"
  /\ data' = [data EXCEPT ![pagetable[BlockOf(s)]][SlotOf(s)] = target.value]
  /\ versions' = [versions EXCEPT ![s] = @ \cup {target.value}]
  /\ UNCHANGED <<bat, bitmap, footer_at, open, driver, target, reply, interrupted>>

\* close() has nothing to write.
Close ==
  /\ Idle
  /\ open' = FALSE
  /\ versions' = Only(Content)
  /\ UNCHANGED <<file, driver, step, target, reply, interrupted>>

\* The program ends without close(), possibly within a write.
Crash ==
  /\ open
  /\ open' = FALSE
  /\ step' = "idle"
  /\ versions' = Only(Content)
  /\ interrupted' = (interrupted \/ step \in {"footer", "bat"})
  /\ UNCHANGED <<file, driver, target, reply>>

Next ==
  \/ Open
  \/ \E s \in Sector : ReadSector(s)
  \/ \E s \in Sector, v \in Value : WriteInPlace(s, v)
  \/ \E s \in Sector, v \in Value : WriteNewBlock(s, v)
  \/ WriteFooter
  \/ WriteTableEntry
  \/ WriteData
  \/ Close
  \/ Crash

Spec == Init /\ [][Next]_vars

-----------------------------------------------------------------------------
\* The file ends with the footer, right after the last place in use, except
\* during an allocation and after a program ended within one; the next
\* allocation makes up for that.
FooterEndsFile ==
  step \in {"idle", "sector"} /\ ~interrupted => EndsAt(bat, footer_at)

\* A sector is marked as in use before it is written, so that other software
\* finds what the guest wrote, whenever the program ends.
MarkedBeforeWritten ==
  [][\A p \in Place : data'[p] # data[p] => bitmap[p]]_vars

Disk == INSTANCE SectorDisk WITH disk <- Content

\* The image is a disk: it reads back what was written, in any order of reads,
\* writes, closes and opens, and a program that ends within a write damages no
\* other sector.
ImplementsDisk == Disk!Spec
=============================================================================
