------------------------------ MODULE VdiImage ------------------------------
(***************************************************************************)
(* A VDI hard disk image (vbox_image_t, vbox.cc) and the host file it is   *)
(* kept in.  The image is a table, mtlb, from the blocks of the disk to    *)
(* the blocks of the file; a block of the disk gets a block of the file    *)
(* when it is first flushed.  One block at a time is in memory and is      *)
(* flushed when another one is needed.  The table and the number of blocks *)
(* in use go to the file only when the image is closed.                    *)
(*                                                                         *)
(* The driver reads and writes one sector at a time: harddrv.cc seeks to   *)
(* logical_sector * 512 and transfers 512 bytes, so an offset is a sector. *)
(* The program may end at any time (Crash) without closing the image.      *)
(***************************************************************************)
EXTENDS Integers

CONSTANTS
  Blocks,          \* header.blocks_in_hdd
  BlockSize,       \* header.block_size, in sectors
  Value,           \* what a sector may hold
  Zero,            \* what a sector of a block with no place in the file holds
  HostBlocks       \* bound: the blocks the host file has room for

ConstantsOK ==
  /\ Blocks \in Nat \ {0}
  /\ BlockSize \in Nat \ {0}
  /\ Zero \in Value
  /\ HostBlocks \in Nat

Block == 0 .. Blocks - 1
Slot == 0 .. BlockSize - 1
Sector == 0 .. Blocks * BlockSize - 1
HostBlock == 0 .. HostBlocks - 1

Unallocated == -1    \* an entry of mtlb
NoBlock == -1        \* mtlb_sector: no block is in memory

VARIABLES
  \* the host file
  file_map,          \* the table at header.offset_blocks
  file_count,        \* header.blocks_allocated
  data,              \* data[p]: the p-th block after header.offset_data
  \* the driver
  phase,             \* is the image closed, open, or half way through close()?
  mtlb, blocks_allocated, mtlb_dirty,
  mtlb_sector, block_data, is_dirty,
  reply,             \* what the last read returned
  \* history
  versions,          \* versions[s]: what sector s held since the last close
  torn               \* did the program ever end between the two writes of close()?

file == <<file_map, file_count, data>>
table == <<mtlb, blocks_allocated, mtlb_dirty>>
cache == <<mtlb_sector, block_data, is_dirty>>
vars == <<file, phase, table, cache, reply, versions, torn>>

BlockOf(s) == s \div BlockSize
SlotOf(s) == s % BlockSize

TypeOK ==
  /\ file_map \in [Block -> HostBlock \cup {Unallocated}]
  /\ file_count \in 0 .. HostBlocks
  /\ data \in [HostBlock -> [Slot -> Value]]
  /\ phase \in {"closed", "open", "closing"}
  /\ mtlb \in [Block -> HostBlock \cup {Unallocated}]
  /\ blocks_allocated \in 0 .. HostBlocks
  /\ mtlb_dirty \in BOOLEAN
  /\ mtlb_sector \in Block \cup {NoBlock}
  /\ block_data \in [Slot -> Value]
  /\ is_dirty \in BOOLEAN
  /\ reply \in Value
  /\ versions \in [Sector -> SUBSET Value]
  /\ torn \in BOOLEAN

\* A table in which every block in use has a place of its own, below count.
WellFormed(map, count) ==
  /\ \A b \in Block : map[b] # Unallocated => map[b] < count
  /\ \A b, c \in Block : map[b] = map[c] /\ map[b] # Unallocated => b = c

-----------------------------------------------------------------------------
\* What a sector holds according to a table and the blocks of the file.
Held(map, blocks, s) ==
  IF map[BlockOf(s)] = Unallocated THEN Zero
                                   ELSE blocks[map[BlockOf(s)]][SlotOf(s)]

\* What the sectors hold: the block in memory hides the one in the file.
Content ==
  [s \in Sector |->
     IF phase = "open" /\ BlockOf(s) = mtlb_sector THEN block_data[SlotOf(s)]
     ELSE IF phase = "closed" THEN Held(file_map, data, s)
     ELSE Held(mtlb, data, s)]

Only(d) == [s \in Sector |-> {d[s]}]

\* Any image that other software, or an earlier run, may have left.
Init ==
  /\ file_map \in [Block -> HostBlock \cup {Unallocated}]
  /\ file_count \in 0 .. HostBlocks
  /\ WellFormed(file_map, file_count)
  /\ data \in [HostBlock -> [Slot -> Value]]
  /\ phase = "closed"
  /\ mtlb = file_map /\ blocks_allocated = file_count /\ mtlb_dirty = FALSE
  /\ mtlb_sector = NoBlock /\ block_data = [i \in Slot |-> Zero] /\ is_dirty = FALSE
  /\ reply = Zero
  /\ versions = Only(Content)
  /\ torn = FALSE

\* open(); the block buffer is allocated and not initialized.
Open ==
  /\ phase = "closed"
  /\ phase' = "open"
  /\ mtlb' = file_map
  /\ blocks_allocated' = file_count
  /\ mtlb_dirty' = FALSE
  /\ mtlb_sector' = NoBlock
  /\ is_dirty' = FALSE
  /\ UNCHANGED <<file, block_data, reply, versions, torn>>

\* flush(), with write_block(): the block in memory goes to the file if it was
\* written to, to a new place at the end if it has none.
NeedsPlace == is_dirty /\ mtlb[mtlb_sector] = Unallocated
FlushedMap == IF NeedsPlace THEN [mtlb EXCEPT ![mtlb_sector] = blocks_allocated] ELSE mtlb
FlushedData == IF is_dirty THEN [data EXCEPT ![FlushedMap[mtlb_sector]] = block_data] ELSE data

\* Wrong versions of Flush, which only a mutation uses: the new place is not
\* counted; every flush is counted; the block leaves memory unwritten.
FlushUncounted ==
  /\ NeedsPlace => blocks_allocated < HostBlocks
  /\ mtlb' = FlushedMap
  /\ blocks_allocated' = blocks_allocated
  /\ mtlb_dirty' = (mtlb_dirty \/ NeedsPlace)
  /\ data' = FlushedData

FlushCountsAll ==
  /\ NeedsPlace => blocks_allocated < HostBlocks
  /\ mtlb' = FlushedMap
  /\ blocks_allocated' = IF is_dirty THEN blocks_allocated + 1 ELSE blocks_allocated
  /\ mtlb_dirty' = (mtlb_dirty \/ NeedsPlace)
  /\ data' = FlushedData

FlushForgotten == UNCHANGED <<mtlb, blocks_allocated, mtlb_dirty, data>>

\* flush()
Flush ==
  /\ NeedsPlace => blocks_allocated < HostBlocks
  /\ mtlb' = FlushedMap
  /\ blocks_allocated' = IF NeedsPlace THEN blocks_allocated + 1 ELSE blocks_allocated
  /\ mtlb_dirty' = (mtlb_dirty \/ NeedsPlace)
  /\ data' = FlushedData

\* perform_seek() to a block: what is in memory after it, and is it dirty?
Loaded(b) ==
  IF b = mtlb_sector THEN block_data
  ELSE [i \in Slot |-> IF FlushedMap[b] = Unallocated THEN Zero
                       ELSE FlushedData[FlushedMap[b]][i]]

PerformSeek(b) ==
  /\ mtlb_sector' = b
  /\ IF b = mtlb_sector THEN UNCHANGED <<mtlb, blocks_allocated, mtlb_dirty, data>>
                        ELSE Flush
  /\ UNCHANGED <<phase, file_map, file_count, torn>>

\* lseek() and read() of one sector.
ReadSector(s) ==
  /\ phase = "open"
  /\ PerformSeek(BlockOf(s))
  /\ block_data' = Loaded(BlockOf(s))
  /\ is_dirty' = (is_dirty /\ BlockOf(s) = mtlb_sector)
  /\ reply' = Loaded(BlockOf(s))[SlotOf(s)]
  /\ UNCHANGED versions

\* lseek() and write() of one sector.
WriteSector(s, v) ==
  /\ phase = "open"
  /\ PerformSeek(BlockOf(s))
  /\ block_data' = [Loaded(BlockOf(s)) EXCEPT ![SlotOf(s)] = v]
  /\ is_dirty' = TRUE
  /\ versions' = [versions EXCEPT ![s] = @ \cup {v}]
  /\ UNCHANGED reply

\* close(), up to the write of the table ...
CloseTable ==
  /\ phase = "open"
  /\ phase' = "closing"
  /\ Flush
  /\ is_dirty' = FALSE
  /\ file_map' = IF mtlb_dirty' THEN mtlb' ELSE file_map
  /\ UNCHANGED <<file_count, mtlb_sector, block_data, reply, versions, torn>>

\* ... and the write of the header, which is where blocks_allocated is kept.
CloseHeader ==
  /\ phase = "closing"
  /\ phase' = "closed"
  /\ file_count' = IF mtlb_dirty THEN blocks_allocated ELSE file_count
  /\ UNCHANGED <<file_map, data, table, cache, reply, torn>>
  /\ versions' = Only(Content')

\* The program ends without close(); what is in memory is gone.
Crash ==
  /\ \/ phase = "open" /\ torn' = torn
     \/ phase = "closing" /\ torn' = TRUE
  /\ phase' = "closed"
  /\ UNCHANGED <<file, table, cache, reply>>
  /\ versions' = Only(Content')

Next ==
  \/ Open
  \/ \E s \in Sector : ReadSector(s)
  \/ \E s \in Sector, v \in Value : WriteSector(s, v)
  \/ CloseTable
  \/ CloseHeader
  \/ Crash

Spec == Init /\ [][Next]_vars

-----------------------------------------------------------------------------
\* No two blocks of the disk are kept in the same place of the file, and every
\* place in use is counted, unless the program once ended between the two
\* writes of close(): then the next block to be allocated gets a place that is
\* taken, and two parts of the guest's disk overwrite each other.
OnlyTornCloseShares == torn \/ (phase # "closed" => WellFormed(mtlb, blocks_allocated))

Disk == INSTANCE SectorDisk WITH disk <- Content

\* Until the program once ends between the two writes of close(), the image is
\* a disk: it reads back what was written, through any order of reads, writes,
\* flushes, closes and opens, and a program that ends without closing it leaves
\* in every sector something that sector held since the last close, so that only
\* sectors the guest wrote can lose anything.
DiskUntilTorn == Disk!Init /\ [][torn \/ Disk!Next]_<<Content, versions, reply>>
=============================================================================
