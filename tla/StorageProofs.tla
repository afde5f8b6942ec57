---------------------------- MODULE StorageProofs ----------------------------
(***************************************************************************)
(* Proofs about the storage of MCStorage, for images and files of any      *)
(* size: the inductive invariant of each image format and of the files     *)
(* under them, that each image implements SectorDisk and the files         *)
(* BackedFile, and the properties that the run checks.                     *)
(***************************************************************************)
EXTENDS MCStorage, SequenceTheorems, TLAPS

\* A sector lies in a block, at a place of its own.
LEMMA PlaceInBlocks ==
  ASSUME NEW N \in Nat \ {0}, NEW B \in Nat \ {0}, NEW s \in 0 .. N * B - 1
  PROVE  /\ s \div B \in 0 .. N - 1
         /\ s % B \in 0 .. B - 1
         /\ s = (s \div B) * B + (s % B)
<1> DEFINE q == s \div B
           r == s % B
<1>1. s \in Nat /\ B \in Int /\ B > 0 /\ N \in Nat /\ N > 0
  BY SMT
<1>2. q \in Int /\ r \in 0 .. B - 1 /\ s = q * B + r
  BY <1>1, Z3
<1> HIDE DEF q, r
<1>3. q >= 0
  <2>1. CASE q <= -1
    <3>1. q * B <= -B
      BY <1>1, <1>2, <2>1, SMT
    <3> QED  BY <3>1, <1>1, <1>2, SMT
  <2> QED  BY <1>2, <2>1, SMT
<1>4. q <= N - 1
  <2>1. CASE q >= N
    <3>1. q * B >= N * B
      BY <1>1, <1>2, <2>1, SMT
    <3> QED  BY <3>1, <1>1, <1>2, SMT
  <2> QED  BY <1>1, <1>2, <2>1, SMT
<1> QED  BY <1>1, <1>2, <1>3, <1>4, SMT DEF q, r

-----------------------------------------------------------------------------
(* The VDI image.                                                          *)

\* What block b holds at i according to a table and the blocks of the file.
VdiAt(map, blocks, b, i) == IF map[b] = Vdi!Unallocated THEN Zero ELSE blocks[map[b]][i]

\* What it holds for the guest while the image is open.
VdiNow(b, i) == IF b = mtlb_sector THEN block_data[i] ELSE VdiAt(mtlb, vdi_data, b, i)

\* Every entry of the table in the file is one of the table in memory.
EntriesKept == \A b \in Vdi!Block : vdi_map[b] # Vdi!Unallocated => mtlb[b] = vdi_map[b]

\* Between the tables: what is not dirty is in the file, and after the first write
\* of close() the file has the whole table.
VdiTables ==
  /\ phase = "open" /\ ~mtlb_dirty => mtlb = vdi_map /\ blocks_allocated = vdi_count
  /\ phase = "closing" => mtlb = vdi_map /\ (~mtlb_dirty => blocks_allocated = vdi_count)

\* Both tables are well formed, until a close is torn.
VdiWhole ==
  /\ phase # "closing" => Vdi!WellFormed(vdi_map, vdi_count)
  /\ phase # "closed" => Vdi!WellFormed(mtlb, blocks_allocated)
  /\ phase = "open" => EntriesKept

\* The block in memory, if it was not written, is what the file holds.
VdiMemory ==
  /\ vdi_dirty => mtlb_sector # Vdi!NoBlock
  /\ phase = "open" /\ mtlb_sector # Vdi!NoBlock /\ ~vdi_dirty =>
       \A i \in Vdi!Slot : block_data[i] = VdiAt(mtlb, vdi_data, mtlb_sector, i)

\* What a sector holds, and what the file has of it, is something it held.
VdiVersions ==
  \A s \in Vdi!Sector : /\ Vdi!Content[s] \in vdi_versions[s]
                        /\ Vdi!Held(vdi_map, vdi_data, s) \in vdi_versions[s]

\* What holds of the VDI image; the parts about places only until a close is torn.
VdiIInv ==
  /\ Vdi!TypeOK
  /\ VdiTables
  /\ VdiMemory
  /\ ~torn => VdiWhole /\ VdiVersions

\* What is assumed of the constants of the VDI image.
LEMMA VdiConstants ==
  /\ VdiBlocks \in Nat \ {0}
  /\ VdiBlockSize \in Nat \ {0}
  /\ Zero \in Value
  /\ VdiPlaces \in Nat
BY ConstantsAssumption DEF Vdi!ConstantsOK

\* A sector lies in a block, at a slot of it.
LEMMA VdiSector ==
  ASSUME NEW s \in Vdi!Sector
  PROVE  Vdi!BlockOf(s) \in Vdi!Block /\ Vdi!SlotOf(s) \in Vdi!Slot
BY VdiConstants, PlaceInBlocks, Zenon DEF Vdi!Sector, Vdi!Block, Vdi!Slot, Vdi!BlockOf, Vdi!SlotOf

\* No two sectors lie in the same slot of the same block.
LEMMA VdiSameSector ==
  ASSUME NEW s \in Vdi!Sector, NEW t \in Vdi!Sector,
         Vdi!BlockOf(s) = Vdi!BlockOf(t), Vdi!SlotOf(s) = Vdi!SlotOf(t)
  PROVE  s = t
<1>1. /\ s = (s \div VdiBlockSize) * VdiBlockSize + (s % VdiBlockSize)
      /\ t = (t \div VdiBlockSize) * VdiBlockSize + (t % VdiBlockSize)
  BY VdiConstants, PlaceInBlocks, Zenon DEF Vdi!Sector
<1> QED  BY <1>1, Zenon DEF Vdi!BlockOf, Vdi!SlotOf

\* The marks for "no place" and "no block" are none of them.
LEMMA VdiBlocksAreNumbers ==
  /\ Vdi!Unallocated \notin Vdi!HostBlock
  /\ Vdi!NoBlock \notin Vdi!Block
  /\ \A b \in Vdi!Block : b \in Nat
  /\ \A p \in Vdi!HostBlock : p \in Nat
BY VdiConstants, SMT DEF Vdi!Unallocated, Vdi!HostBlock, Vdi!NoBlock, Vdi!Block

\* What a table says of a sector, by its block and slot.
LEMMA VdiHeld ==
  ASSUME NEW map, NEW blocks, NEW s
  PROVE  Vdi!Held(map, blocks, s) = VdiAt(map, blocks, Vdi!BlockOf(s), Vdi!SlotOf(s))
BY Zenon DEF Vdi!Held, VdiAt

\* What the guest reads of a sector: through the block in memory while the image is
\* open, and what the tables in the file say otherwise.
LEMMA VdiContent ==
  ASSUME NEW s \in Vdi!Sector
  PROVE  Vdi!Content[s] =
           IF phase = "open" THEN VdiNow(Vdi!BlockOf(s), Vdi!SlotOf(s))
           ELSE IF phase = "closed" THEN Vdi!Held(vdi_map, vdi_data, s)
           ELSE Vdi!Held(mtlb, vdi_data, s)
<1>1. CASE phase = "open"
  BY <1>1, VdiHeld, Zenon DEF Vdi!Content, VdiNow
<1>2. CASE phase # "open"
  BY <1>2, Zenon DEF Vdi!Content
<1> QED  BY <1>1, <1>2

\* It is a value.
LEMMA VdiAtType ==
  ASSUME Vdi!TypeOK, NEW map \in {mtlb, vdi_map}, NEW b \in Vdi!Block, NEW i \in Vdi!Slot
  PROVE  VdiAt(map, vdi_data, b, i) \in Value
<1>1. map[b] \in Vdi!HostBlock \cup {Vdi!Unallocated}
  BY Zenon DEF Vdi!TypeOK
<1>2. \A p \in Vdi!HostBlock : vdi_data[p][i] \in Value
  BY Zenon DEF Vdi!TypeOK
<1> QED  BY <1>1, <1>2, VdiConstants, Zenon DEF VdiAt

\* The guest's disk holds values.
LEMMA VdiContentType ==
  ASSUME Vdi!TypeOK
  PROVE  Vdi!Content \in [Vdi!Sector -> Value]
<1>1. ASSUME NEW s \in Vdi!Sector
      PROVE  Vdi!Content[s] \in Value
  <2>1. Vdi!BlockOf(s) \in Vdi!Block /\ Vdi!SlotOf(s) \in Vdi!Slot
    BY VdiSector
  <2>2. /\ VdiAt(mtlb, vdi_data, Vdi!BlockOf(s), Vdi!SlotOf(s)) \in Value
        /\ VdiAt(vdi_map, vdi_data, Vdi!BlockOf(s), Vdi!SlotOf(s)) \in Value
    BY <2>1, VdiAtType, Zenon
  <2>3. block_data[Vdi!SlotOf(s)] \in Value
    BY <2>1, Zenon DEF Vdi!TypeOK
  <2> QED  BY <2>2, <2>3, VdiContent, VdiHeld, Zenon DEF VdiNow
<1>2. Vdi!Content = [s \in Vdi!Sector |-> Vdi!Content[s]]
  BY Zenon DEF Vdi!Content
<1> QED  BY <1>1, <1>2, Zenon

\* flush(): the tables stay well formed, and the block in memory is in the file.
LEMMA VdiFlushTypes ==
  ASSUME Vdi!TypeOK, VdiMemory, Vdi!NeedsPlace => blocks_allocated < VdiPlaces
  PROVE  /\ vdi_dirty => mtlb_sector \in Vdi!Block /\ Vdi!FlushedMap[mtlb_sector] \in Vdi!HostBlock
         /\ Vdi!FlushedMap \in [Vdi!Block -> Vdi!HostBlock \cup {Vdi!Unallocated}]
         /\ Vdi!FlushedData \in [Vdi!HostBlock -> [Vdi!Slot -> Value]]
<1>1. vdi_dirty => mtlb_sector \in Vdi!Block
  BY Zenon DEF Vdi!TypeOK, VdiMemory
<1>2. Vdi!NeedsPlace => blocks_allocated \in Vdi!HostBlock
  BY VdiConstants, SMT DEF Vdi!TypeOK, Vdi!HostBlock
<1>3. CASE Vdi!NeedsPlace
  <2>1. Vdi!FlushedMap = [mtlb EXCEPT ![mtlb_sector] = blocks_allocated] /\ vdi_dirty
    BY <1>3, Zenon DEF Vdi!FlushedMap, Vdi!NeedsPlace
  <2>2. /\ Vdi!FlushedMap[mtlb_sector] = blocks_allocated
        /\ Vdi!FlushedMap \in [Vdi!Block -> Vdi!HostBlock \cup {Vdi!Unallocated}]
    BY <1>1, <1>2, <1>3, <2>1, Zenon DEF Vdi!TypeOK
  <2>3. Vdi!FlushedData = [vdi_data EXCEPT ![blocks_allocated] = block_data]
    BY <2>1, <2>2, Zenon DEF Vdi!FlushedData
  <2>4. Vdi!FlushedData \in [Vdi!HostBlock -> [Vdi!Slot -> Value]]
    BY <2>3, Zenon DEF Vdi!TypeOK
  <2> QED  BY <1>1, <1>2, <1>3, <2>2, <2>4, Zenon
<1>4. CASE ~Vdi!NeedsPlace
  <2>1. Vdi!FlushedMap = mtlb
    BY <1>4, Zenon DEF Vdi!FlushedMap
  <2>2. vdi_dirty => mtlb[mtlb_sector] \in Vdi!HostBlock
    BY <1>1, <1>4, Zenon DEF Vdi!TypeOK, Vdi!NeedsPlace
  <2>3. Vdi!FlushedData \in [Vdi!HostBlock -> [Vdi!Slot -> Value]]
    <3>1. CASE vdi_dirty
      <4>1. Vdi!FlushedData = [vdi_data EXCEPT ![mtlb[mtlb_sector]] = block_data]
        BY <2>1, <3>1, Zenon DEF Vdi!FlushedData
      <4> QED  BY <4>1, Zenon DEF Vdi!TypeOK
    <3>2. CASE ~vdi_dirty
      BY <3>2, Zenon DEF Vdi!FlushedData, Vdi!TypeOK
    <3> QED  BY <3>1, <3>2
  <2> QED  BY <1>1, <2>1, <2>2, <2>3, Zenon DEF Vdi!TypeOK
<1> QED  BY <1>3, <1>4

\* A place is given to one block only.
LEMMA VdiFlushWellFormed ==
  ASSUME Vdi!TypeOK, VdiMemory, Vdi!WellFormed(mtlb, blocks_allocated),
         Vdi!NeedsPlace => blocks_allocated < VdiPlaces
  PROVE  Vdi!WellFormed(Vdi!FlushedMap,
                        IF Vdi!NeedsPlace THEN blocks_allocated + 1 ELSE blocks_allocated)
<1>1. CASE Vdi!NeedsPlace
  <2> DEFINE m == Vdi!FlushedMap
             n == blocks_allocated
  <2>1. mtlb_sector \in Vdi!Block /\ m = [mtlb EXCEPT ![mtlb_sector] = n]
    BY <1>1, Zenon DEF Vdi!FlushedMap, Vdi!NeedsPlace, VdiMemory, Vdi!TypeOK
  <2>2. m[mtlb_sector] = n /\ \A b \in Vdi!Block \ {mtlb_sector} : m[b] = mtlb[b]
    BY <2>1, Zenon DEF Vdi!TypeOK
  <2>3. n \in Int
    BY SMT DEF Vdi!TypeOK
  <2>4. \A b \in Vdi!Block : mtlb[b] \in Int
    BY VdiConstants, SMT DEF Vdi!TypeOK, Vdi!HostBlock, Vdi!Unallocated
  <2> HIDE DEF m, n
  <2>5. \A b \in Vdi!Block : mtlb[b] # Vdi!Unallocated => mtlb[b] < n
    BY Zenon DEF Vdi!WellFormed, n
  <2>6. ASSUME NEW b \in Vdi!Block, m[b] # Vdi!Unallocated
        PROVE  m[b] < n + 1
    <3>1. CASE b = mtlb_sector
      BY <2>2, <2>3, <3>1, SMT
    <3>2. CASE b # mtlb_sector
      BY <2>2, <2>3, <2>4, <2>5, <2>6, <3>2, SMT
    <3> QED  BY <3>1, <3>2
  <2>7. \A b \in Vdi!Block \ {mtlb_sector} : m[b] # n
    <3>1. n # Vdi!Unallocated
      BY SMT DEF n, Vdi!TypeOK, Vdi!Unallocated
    <3> QED  BY <2>2, <2>3, <2>4, <2>5, <3>1, SMT
  <2>8. ASSUME NEW b \in Vdi!Block, NEW c \in Vdi!Block,
               m[b] = m[c] /\ m[b] # Vdi!Unallocated
        PROVE  b = c
    <3>1. CASE b = mtlb_sector \/ c = mtlb_sector
      BY <2>2, <2>7, <2>8, <3>1, Zenon
    <3>2. CASE b # mtlb_sector /\ c # mtlb_sector
      BY <2>2, <2>8, <3>2, Zenon DEF Vdi!WellFormed
    <3> QED  BY <3>1, <3>2
  <2>9. Vdi!WellFormed(m, n + 1)
    BY <2>6, <2>8, Zenon DEF Vdi!WellFormed
  <2> QED  BY <1>1, <2>9, Zenon DEF m, n
<1>2. CASE ~Vdi!NeedsPlace
  BY <1>2, Zenon DEF Vdi!FlushedMap
<1> QED  BY <1>1, <1>2

\* What the file holds after a flush, and what a crash would find in it.
LEMMA VdiFlushHolds ==
  ASSUME Vdi!TypeOK, VdiMemory, VdiWhole, phase = "open",
         Vdi!NeedsPlace => blocks_allocated < VdiPlaces
  PROVE  /\ \A b \in Vdi!Block, i \in Vdi!Slot :
              VdiAt(Vdi!FlushedMap, Vdi!FlushedData, b, i) = VdiNow(b, i)
         /\ \A b \in Vdi!Block, i \in Vdi!Slot :
              VdiAt(vdi_map, Vdi!FlushedData, b, i) \in {VdiAt(vdi_map, vdi_data, b, i), VdiNow(b, i)}
         /\ \A b \in Vdi!Block :
              vdi_map[b] # Vdi!Unallocated => Vdi!FlushedMap[b] = vdi_map[b]
<1>1. CASE ~vdi_dirty
  <2>1. Vdi!FlushedMap = mtlb /\ Vdi!FlushedData = vdi_data
    BY <1>1, Zenon DEF Vdi!FlushedMap, Vdi!FlushedData, Vdi!NeedsPlace
  <2>2. \A b \in Vdi!Block : b # Vdi!NoBlock
    BY VdiBlocksAreNumbers, Zenon
  <2>3. \A b \in Vdi!Block, i \in Vdi!Slot : VdiAt(mtlb, vdi_data, b, i) = VdiNow(b, i)
    BY <1>1, <2>2, Zenon DEF VdiMemory, VdiNow
  <2> QED  BY <2>1, <2>3, Zenon DEF VdiWhole, EntriesKept
<1>2. CASE vdi_dirty
  <2> DEFINE m == Vdi!FlushedMap
             d == Vdi!FlushedData
             p == Vdi!FlushedMap[mtlb_sector]
  <2>1. mtlb_sector \in Vdi!Block /\ p \in Vdi!HostBlock /\ p # Vdi!Unallocated
    BY <1>2, VdiFlushTypes, VdiBlocksAreNumbers, Zenon
  <2>2. /\ \A b \in Vdi!Block \ {mtlb_sector} : m[b] = mtlb[b]
        /\ mtlb[mtlb_sector] # Vdi!Unallocated => p = mtlb[mtlb_sector]
    BY <1>2, <2>1, Zenon DEF Vdi!FlushedMap, Vdi!NeedsPlace, Vdi!TypeOK
  <2>3. d[p] = block_data /\ \A q \in Vdi!HostBlock \ {p} : d[q] = vdi_data[q]
    BY <1>2, <2>1, Zenon DEF Vdi!FlushedData, Vdi!TypeOK
  <2>4. \A b \in Vdi!Block : m[b] = p => b = mtlb_sector
    <3>1. Vdi!WellFormed(m, IF Vdi!NeedsPlace THEN blocks_allocated + 1 ELSE blocks_allocated)
      BY VdiFlushWellFormed, Zenon DEF VdiWhole
    <3> QED  BY <2>1, <3>1, Zenon DEF Vdi!WellFormed
  <2>5. \A b \in Vdi!Block : vdi_map[b] # Vdi!Unallocated => m[b] = vdi_map[b]
    BY <2>1, <2>2, Zenon DEF VdiWhole, EntriesKept
  <2>6. \A b \in Vdi!Block : mtlb[b] \in Vdi!HostBlock \cup {Vdi!Unallocated}
    BY Zenon DEF Vdi!TypeOK
  <2>7. \A b \in Vdi!Block : vdi_map[b] \in Vdi!HostBlock \cup {Vdi!Unallocated}
    BY Zenon DEF Vdi!TypeOK
  <2>8. m[mtlb_sector] = p
    OBVIOUS
  <2> HIDE DEF m, d, p
  <2>9. ASSUME NEW b \in Vdi!Block, NEW i \in Vdi!Slot
        PROVE  VdiAt(m, d, b, i) = VdiNow(b, i)
    <3>1. CASE b = mtlb_sector
      BY <2>1, <2>3, <2>8, <3>1, Zenon DEF VdiAt, VdiNow
    <3>2. CASE b # mtlb_sector
      <4>1. m[b] = mtlb[b] /\ (mtlb[b] # Vdi!Unallocated => d[mtlb[b]] = vdi_data[mtlb[b]])
        BY <2>2, <2>3, <2>4, <2>6, <3>2, Zenon
      <4> QED  BY <3>2, <4>1, Zenon DEF VdiAt, VdiNow
    <3> QED  BY <3>1, <3>2
  <2>10. ASSUME NEW b \in Vdi!Block, NEW i \in Vdi!Slot
         PROVE  VdiAt(vdi_map, d, b, i) \in {VdiAt(vdi_map, vdi_data, b, i), VdiNow(b, i)}
    <3>1. CASE vdi_map[b] = Vdi!Unallocated
      BY <3>1, Zenon DEF VdiAt
    <3>2. CASE vdi_map[b] # Vdi!Unallocated
      <4>1. vdi_map[b] = m[b]
        BY <2>5, <3>2, Zenon
      <4>2. CASE b = mtlb_sector
        BY <2>3, <2>8, <3>2, <4>1, <4>2, Zenon DEF VdiAt, VdiNow
      <4>3. CASE b # mtlb_sector
        <5>1. d[vdi_map[b]] = vdi_data[vdi_map[b]]
          BY <2>3, <2>4, <2>7, <3>2, <4>1, <4>3, Zenon
        <5> QED  BY <3>2, <5>1, Zenon DEF VdiAt
      <4> QED  BY <4>2, <4>3
    <3> QED  BY <3>1, <3>2
  <2> QED  BY <2>5, <2>9, <2>10, Zenon DEF m, d
<1> QED  BY <1>1, <1>2

\* perform_seek(): what is in memory afterwards, and in the file, is what the guest
\* had before.
LEMMA VdiSeek ==
  ASSUME VdiIInv, phase = "open", NEW c \in Vdi!Block, Vdi!PerformSeek(c)
  PROVE  /\ mtlb' \in [Vdi!Block -> Vdi!HostBlock \cup {Vdi!Unallocated}]
         /\ blocks_allocated' \in 0 .. VdiPlaces
         /\ mtlb_dirty' \in BOOLEAN
         /\ vdi_data' \in [Vdi!HostBlock -> [Vdi!Slot -> Value]]
         /\ Vdi!Loaded(c) \in [Vdi!Slot -> Value]
         /\ ~mtlb_dirty' => mtlb' = vdi_map /\ blocks_allocated' = vdi_count
         /\ c # mtlb_sector \/ ~vdi_dirty =>
              \A i \in Vdi!Slot : Vdi!Loaded(c)[i] = VdiAt(mtlb', vdi_data', c, i)
         /\ ~torn =>
              /\ Vdi!WellFormed(mtlb', blocks_allocated')
              /\ \A b \in Vdi!Block : vdi_map[b] # Vdi!Unallocated => mtlb'[b] = vdi_map[b]
              /\ \A i \in Vdi!Slot : Vdi!Loaded(c)[i] = VdiNow(c, i)
              /\ \A b \in Vdi!Block \ {c}, i \in Vdi!Slot :
                   VdiAt(mtlb', vdi_data', b, i) = VdiNow(b, i)
              /\ \A b \in Vdi!Block, i \in Vdi!Slot :
                   VdiAt(vdi_map, vdi_data', b, i)
                     \in {VdiAt(vdi_map, vdi_data, b, i), VdiNow(b, i)}
<1> USE DEF VdiIInv
<1>0. mtlb_sector = c => mtlb_sector # Vdi!NoBlock
  BY VdiBlocksAreNumbers, Zenon
<1>1. CASE c = mtlb_sector
  <2>1. UNCHANGED <<mtlb, blocks_allocated, mtlb_dirty, vdi_data>>
    BY <1>1, Zenon DEF Vdi!PerformSeek
  <2>2. Vdi!Loaded(c) = block_data
    BY <1>1, Zenon DEF Vdi!Loaded
  <2>3. /\ \A i \in Vdi!Slot : block_data[i] = VdiNow(c, i)
        /\ \A b \in Vdi!Block \ {c}, i \in Vdi!Slot : VdiAt(mtlb, vdi_data, b, i) = VdiNow(b, i)
    BY <1>1, Zenon DEF VdiNow
  <2>4. ~vdi_dirty => \A i \in Vdi!Slot : block_data[i] = VdiAt(mtlb, vdi_data, c, i)
    BY <1>0, <1>1, Zenon DEF VdiMemory
  <2>5. /\ mtlb \in [Vdi!Block -> Vdi!HostBlock \cup {Vdi!Unallocated}]
        /\ blocks_allocated \in 0 .. VdiPlaces
        /\ mtlb_dirty \in BOOLEAN
        /\ vdi_data \in [Vdi!HostBlock -> [Vdi!Slot -> Value]]
        /\ block_data \in [Vdi!Slot -> Value]
    BY Zenon DEF Vdi!TypeOK
  <2>6. ~mtlb_dirty => mtlb = vdi_map /\ blocks_allocated = vdi_count
    BY Zenon DEF VdiTables
  <2>7. ~torn => /\ Vdi!WellFormed(mtlb, blocks_allocated)
                 /\ \A b \in Vdi!Block : vdi_map[b] # Vdi!Unallocated => mtlb[b] = vdi_map[b]
    BY Zenon DEF VdiWhole, EntriesKept
  <2> QED  BY <1>1, <2>1, <2>2, <2>3, <2>4, <2>5, <2>6, <2>7, Zenon
<1>2. CASE c # mtlb_sector
  <2> DEFINE n == IF Vdi!NeedsPlace THEN blocks_allocated + 1 ELSE blocks_allocated
  <2>1. /\ Vdi!NeedsPlace => blocks_allocated < VdiPlaces
        /\ mtlb' = Vdi!FlushedMap
        /\ blocks_allocated' = n
        /\ mtlb_dirty' = (mtlb_dirty \/ Vdi!NeedsPlace)
        /\ vdi_data' = Vdi!FlushedData
    BY <1>2, Zenon DEF Vdi!PerformSeek, Vdi!Flush
  <2>2. /\ Vdi!FlushedMap \in [Vdi!Block -> Vdi!HostBlock \cup {Vdi!Unallocated}]
        /\ Vdi!FlushedData \in [Vdi!HostBlock -> [Vdi!Slot -> Value]]
    BY <2>1, VdiFlushTypes, Zenon
  <2>3. n \in 0 .. VdiPlaces
    BY <2>1, VdiConstants, SMT DEF Vdi!TypeOK
  <2>4. mtlb_dirty' \in BOOLEAN
    BY <2>1, Zenon DEF Vdi!TypeOK, Vdi!NeedsPlace
  <2>5. Vdi!Loaded(c) = [i \in Vdi!Slot |-> VdiAt(Vdi!FlushedMap, Vdi!FlushedData, c, i)]
    BY <1>2, Zenon DEF Vdi!Loaded, VdiAt
  <2>6. \A i \in Vdi!Slot : Vdi!Loaded(c)[i] = VdiAt(Vdi!FlushedMap, Vdi!FlushedData, c, i)
    BY <2>5, Zenon
  <2>7. \A i \in Vdi!Slot : VdiAt(Vdi!FlushedMap, Vdi!FlushedData, c, i) \in Value
    BY <2>2, VdiConstants, Zenon DEF VdiAt
  <2>8. Vdi!Loaded(c) \in [Vdi!Slot -> Value]
    BY <2>5, <2>7, Zenon
  <2>9. ~mtlb_dirty' => mtlb' = vdi_map /\ blocks_allocated' = vdi_count
    BY <2>1, Zenon DEF VdiTables, Vdi!FlushedMap
  <2>10. ASSUME ~torn
         PROVE  /\ Vdi!WellFormed(Vdi!FlushedMap, n)
                /\ \A b \in Vdi!Block, i \in Vdi!Slot :
                     VdiAt(Vdi!FlushedMap, Vdi!FlushedData, b, i) = VdiNow(b, i)
                /\ \A b \in Vdi!Block, i \in Vdi!Slot :
                     VdiAt(vdi_map, Vdi!FlushedData, b, i)
                       \in {VdiAt(vdi_map, vdi_data, b, i), VdiNow(b, i)}
                /\ \A b \in Vdi!Block :
                     vdi_map[b] # Vdi!Unallocated => Vdi!FlushedMap[b] = vdi_map[b]
    <3>1. VdiWhole /\ Vdi!WellFormed(mtlb, blocks_allocated)
      BY <2>10, Zenon DEF VdiWhole
    <3>2. Vdi!WellFormed(Vdi!FlushedMap, n)
      BY <2>1, <3>1, VdiFlushWellFormed, Zenon
    <3> QED  BY <2>1, <3>1, <3>2, VdiFlushHolds, Zenon
  <2> HIDE DEF n
  <2> QED  BY <2>1, <2>2, <2>3, <2>4, <2>6, <2>8, <2>9, <2>10, Zenon
<1> QED  BY <1>1, <1>2

\* The same of the next state.
LEMMA VdiContentNext ==
  /\ Vdi!Content' = [s \in Vdi!Sector |-> Vdi!Content'[s]]
  /\ \A s \in Vdi!Sector :
       Vdi!Content'[s] =
         IF phase' = "open"
         THEN IF Vdi!BlockOf(s) = mtlb_sector' THEN block_data'[Vdi!SlotOf(s)]
              ELSE VdiAt(mtlb', vdi_data', Vdi!BlockOf(s), Vdi!SlotOf(s))
         ELSE IF phase' = "closed"
         THEN VdiAt(vdi_map', vdi_data', Vdi!BlockOf(s), Vdi!SlotOf(s))
         ELSE VdiAt(mtlb', vdi_data', Vdi!BlockOf(s), Vdi!SlotOf(s))
  /\ \A s \in Vdi!Sector : Vdi!Held(vdi_map, vdi_data, s)'
                             = VdiAt(vdi_map', vdi_data', Vdi!BlockOf(s), Vdi!SlotOf(s))
<1>1. Vdi!Content' = [s \in Vdi!Sector |-> Vdi!Content'[s]]
  BY Zenon DEF Vdi!Content
<1>2. ASSUME NEW s \in Vdi!Sector
      PROVE  Vdi!Content'[s] =
               IF phase' = "open"
               THEN IF Vdi!BlockOf(s) = mtlb_sector' THEN block_data'[Vdi!SlotOf(s)]
                    ELSE VdiAt(mtlb', vdi_data', Vdi!BlockOf(s), Vdi!SlotOf(s))
               ELSE IF phase' = "closed"
               THEN VdiAt(vdi_map', vdi_data', Vdi!BlockOf(s), Vdi!SlotOf(s))
               ELSE VdiAt(mtlb', vdi_data', Vdi!BlockOf(s), Vdi!SlotOf(s))
  <2>1. CASE phase' = "open"
    BY <2>1, Zenon DEF Vdi!Content, Vdi!Held, VdiAt
  <2>2. CASE phase' # "open"
    BY <2>2, Zenon DEF Vdi!Content, Vdi!Held, VdiAt
  <2> QED  BY <2>1, <2>2
<1>3. \A s \in Vdi!Sector : Vdi!Held(vdi_map, vdi_data, s)'
                              = VdiAt(vdi_map', vdi_data', Vdi!BlockOf(s), Vdi!SlotOf(s))
  BY Zenon DEF Vdi!Held, VdiAt
<1> QED  BY <1>1, <1>2, <1>3, Zenon

\* The guest reads a sector.
LEMMA VdiReads ==
  ASSUME VdiIInv, NEW s \in Vdi!Sector, Vdi!ReadSector(s)
  PROVE  /\ VdiIInv'
         /\ ~torn => Vdi!Disk!Read(s)
<1> DEFINE c == Vdi!BlockOf(s)
<1> USE DEF VdiIInv
<1>1. /\ phase = "open" /\ phase' = "open" /\ mtlb_sector' = c
      /\ block_data' = Vdi!Loaded(c)
      /\ vdi_dirty' = (vdi_dirty /\ c = mtlb_sector)
      /\ vdi_reply' = Vdi!Loaded(c)[Vdi!SlotOf(s)]
      /\ UNCHANGED <<vdi_map, vdi_count, torn, vdi_versions>>
  BY Zenon DEF Vdi!ReadSector, Vdi!PerformSeek
<1>2. c \in Vdi!Block /\ Vdi!SlotOf(s) \in Vdi!Slot
  BY VdiSector
<1>3. Vdi!PerformSeek(c)
  BY Zenon DEF Vdi!ReadSector
<1> HIDE DEF c
<1>4. /\ mtlb' \in [Vdi!Block -> Vdi!HostBlock \cup {Vdi!Unallocated}]
      /\ blocks_allocated' \in 0 .. VdiPlaces
      /\ mtlb_dirty' \in BOOLEAN
      /\ vdi_data' \in [Vdi!HostBlock -> [Vdi!Slot -> Value]]
      /\ Vdi!Loaded(c) \in [Vdi!Slot -> Value]
      /\ ~mtlb_dirty' => mtlb' = vdi_map /\ blocks_allocated' = vdi_count
      /\ c # mtlb_sector \/ ~vdi_dirty =>
           \A i \in Vdi!Slot : Vdi!Loaded(c)[i] = VdiAt(mtlb', vdi_data', c, i)
      /\ ~torn =>
           /\ Vdi!WellFormed(mtlb', blocks_allocated')
           /\ \A b \in Vdi!Block : vdi_map[b] # Vdi!Unallocated => mtlb'[b] = vdi_map[b]
           /\ \A i \in Vdi!Slot : Vdi!Loaded(c)[i] = VdiNow(c, i)
           /\ \A b \in Vdi!Block \ {c}, i \in Vdi!Slot :
                VdiAt(mtlb', vdi_data', b, i) = VdiNow(b, i)
           /\ \A b \in Vdi!Block, i \in Vdi!Slot :
                VdiAt(vdi_map, vdi_data', b, i)
                  \in {VdiAt(vdi_map, vdi_data, b, i), VdiNow(b, i)}
  BY <1>1, <1>2, <1>3, VdiSeek, Zenon
<1>5. Vdi!TypeOK'
  <2>1. vdi_dirty' \in BOOLEAN
    BY <1>1, Zenon
  <2>2. vdi_reply' \in Value
    BY <1>1, <1>2, <1>4, Zenon
  <2>3. /\ vdi_map' \in [Vdi!Block -> Vdi!HostBlock \cup {Vdi!Unallocated}]
        /\ vdi_count' \in 0 .. VdiPlaces
        /\ vdi_versions' \in [Vdi!Sector -> SUBSET Value]
        /\ torn' \in BOOLEAN
        /\ phase' \in {"closed", "open", "closing"}
        /\ mtlb_sector' \in Vdi!Block \cup {Vdi!NoBlock}
        /\ block_data' \in [Vdi!Slot -> Value]
    BY <1>1, <1>2, <1>4, Zenon DEF Vdi!TypeOK
  <2> QED  BY <1>4, <2>1, <2>2, <2>3, Zenon DEF Vdi!TypeOK
<1>6. VdiTables'
  BY <1>1, <1>4, Zenon DEF VdiTables
<1>7. VdiMemory'
  <2>1. c # Vdi!NoBlock
    BY <1>2, VdiBlocksAreNumbers, Zenon
  <2>2. ~vdi_dirty' => \A i \in Vdi!Slot : block_data'[i] = VdiAt(mtlb', vdi_data', c, i)
    BY <1>1, <1>4, Zenon
  <2>3. VdiAt(mtlb, vdi_data, mtlb_sector, 0)' = VdiAt(mtlb', vdi_data', mtlb_sector', 0)
    BY Zenon DEF VdiAt
  <2> QED  BY <1>1, <2>1, <2>2, Zenon DEF VdiMemory, VdiAt
<1>8. ASSUME ~torn
      PROVE  VdiWhole' /\ VdiVersions' /\ Vdi!Disk!Read(s)
  <2>1. VdiWhole'
    BY <1>1, <1>4, <1>8, Zenon DEF VdiWhole, EntriesKept, Vdi!WellFormed
  <2>2. ASSUME NEW t \in Vdi!Sector
        PROVE  /\ Vdi!Content'[t] = Vdi!Content[t]
               /\ Vdi!Held(vdi_map, vdi_data, t)'
                    \in {Vdi!Held(vdi_map, vdi_data, t), Vdi!Content[t]}
    <3> DEFINE b == Vdi!BlockOf(t)
               i == Vdi!SlotOf(t)
    <3>1. b \in Vdi!Block /\ i \in Vdi!Slot
      BY VdiSector
    <3>2. Vdi!Content[t] = VdiNow(b, i)
      BY <1>1, VdiContent, Zenon
    <3>3. Vdi!Content'[t] = IF b = c THEN Vdi!Loaded(c)[i] ELSE VdiAt(mtlb', vdi_data', b, i)
      BY <1>1, VdiContentNext, Zenon
    <3>4. /\ Vdi!Held(vdi_map, vdi_data, t)' = VdiAt(vdi_map, vdi_data', b, i)
          /\ Vdi!Held(vdi_map, vdi_data, t) = VdiAt(vdi_map, vdi_data, b, i)
      BY <1>1, VdiContentNext, VdiHeld, Zenon
    <3> HIDE DEF b, i
    <3> QED  BY <1>4, <1>8, <3>1, <3>2, <3>3, <3>4, Zenon
  <2>3. Vdi!Content' = Vdi!Content
    <3>1. Vdi!Content = [t \in Vdi!Sector |-> Vdi!Content[t]]
      BY Zenon DEF Vdi!Content
    <3>2. Vdi!Content' = [t \in Vdi!Sector |-> Vdi!Content'[t]]
      BY VdiContentNext, Zenon
    <3> QED  BY <2>2, <3>1, <3>2, Zenon
  <2>4. VdiVersions'
    <3>1. ASSUME NEW t \in Vdi!Sector
          PROVE  /\ Vdi!Content'[t] \in vdi_versions'[t]
                 /\ Vdi!Held(vdi_map, vdi_data, t)' \in vdi_versions'[t]
      <4>1. /\ Vdi!Content[t] \in vdi_versions[t]
            /\ Vdi!Held(vdi_map, vdi_data, t) \in vdi_versions[t]
        BY <1>8, Zenon DEF VdiVersions
      <4> QED  BY <1>1, <2>2, <4>1, Zenon
    <3> QED  BY <3>1, Zenon DEF VdiVersions
  <2>5. vdi_reply' = Vdi!Content[s]
    BY <1>1, <1>2, <1>4, <1>8, VdiContent, Zenon DEF c
  <2> QED  BY <1>1, <2>1, <2>3, <2>4, <2>5, Zenon DEF Vdi!Disk!Read
<1> QED  BY <1>1, <1>5, <1>6, <1>7, <1>8, Zenon

\* The guest writes a sector.
LEMMA VdiWrites ==
  ASSUME VdiIInv, NEW s \in Vdi!Sector, NEW v \in Value, Vdi!WriteSector(s, v)
  PROVE  /\ VdiIInv'
         /\ ~torn => Vdi!Disk!Write(s, v)
<1> DEFINE c == Vdi!BlockOf(s)
<1> USE DEF VdiIInv
<1>1. /\ phase = "open" /\ phase' = "open" /\ mtlb_sector' = c
      /\ block_data' = [Vdi!Loaded(c) EXCEPT ![Vdi!SlotOf(s)] = v]
      /\ vdi_dirty' = TRUE
      /\ vdi_versions' = [vdi_versions EXCEPT ![s] = @ \cup {v}]
      /\ UNCHANGED <<vdi_map, vdi_count, torn, vdi_reply>>
  BY Zenon DEF Vdi!WriteSector, Vdi!PerformSeek
<1>2. c \in Vdi!Block /\ Vdi!SlotOf(s) \in Vdi!Slot
  BY VdiSector
<1>3. Vdi!PerformSeek(c)
  BY Zenon DEF Vdi!WriteSector
<1> HIDE DEF c
<1>4. /\ mtlb' \in [Vdi!Block -> Vdi!HostBlock \cup {Vdi!Unallocated}]
      /\ blocks_allocated' \in 0 .. VdiPlaces
      /\ mtlb_dirty' \in BOOLEAN
      /\ vdi_data' \in [Vdi!HostBlock -> [Vdi!Slot -> Value]]
      /\ Vdi!Loaded(c) \in [Vdi!Slot -> Value]
      /\ ~mtlb_dirty' => mtlb' = vdi_map /\ blocks_allocated' = vdi_count
      /\ c # mtlb_sector \/ ~vdi_dirty =>
           \A i \in Vdi!Slot : Vdi!Loaded(c)[i] = VdiAt(mtlb', vdi_data', c, i)
      /\ ~torn =>
           /\ Vdi!WellFormed(mtlb', blocks_allocated')
           /\ \A b \in Vdi!Block : vdi_map[b] # Vdi!Unallocated => mtlb'[b] = vdi_map[b]
           /\ \A i \in Vdi!Slot : Vdi!Loaded(c)[i] = VdiNow(c, i)
           /\ \A b \in Vdi!Block \ {c}, i \in Vdi!Slot :
                VdiAt(mtlb', vdi_data', b, i) = VdiNow(b, i)
           /\ \A b \in Vdi!Block, i \in Vdi!Slot :
                VdiAt(vdi_map, vdi_data', b, i)
                  \in {VdiAt(vdi_map, vdi_data, b, i), VdiNow(b, i)}
  BY <1>1, <1>2, <1>3, VdiSeek, Zenon
<1>5. Vdi!TypeOK'
  <2>1. vdi_dirty' \in BOOLEAN
    BY <1>1, Zenon
  <2>2. vdi_versions' \in [Vdi!Sector -> SUBSET Value]
    BY <1>1, Zenon DEF Vdi!TypeOK
  <2>3. /\ vdi_map' \in [Vdi!Block -> Vdi!HostBlock \cup {Vdi!Unallocated}]
        /\ vdi_count' \in 0 .. VdiPlaces
        /\ vdi_reply' \in Value
        /\ torn' \in BOOLEAN
        /\ phase' \in {"closed", "open", "closing"}
        /\ mtlb_sector' \in Vdi!Block \cup {Vdi!NoBlock}
    BY <1>1, <1>2, Zenon DEF Vdi!TypeOK
  <2>4. block_data' \in [Vdi!Slot -> Value]
    BY <1>1, <1>2, <1>4, Zenon
  <2> QED  BY <1>4, <2>1, <2>2, <2>3, <2>4, Zenon DEF Vdi!TypeOK
<1>6. VdiTables'
  BY <1>1, <1>4, Zenon DEF VdiTables
<1>7. VdiMemory'
  <2>1. c # Vdi!NoBlock
    BY <1>2, VdiBlocksAreNumbers, Zenon
  <2> QED  BY <1>1, <2>1, Zenon DEF VdiMemory
<1>8. ASSUME ~torn
      PROVE  VdiWhole' /\ VdiVersions' /\ Vdi!Disk!Write(s, v)
  <2>1. VdiWhole'
    BY <1>1, <1>4, <1>8, Zenon DEF VdiWhole, EntriesKept, Vdi!WellFormed
  <2>2. ASSUME NEW t \in Vdi!Sector
        PROVE  /\ Vdi!Content'[t] = IF t = s THEN v ELSE Vdi!Content[t]
               /\ Vdi!Held(vdi_map, vdi_data, t)'
                    \in {Vdi!Held(vdi_map, vdi_data, t), Vdi!Content[t]}
    <3> DEFINE b == Vdi!BlockOf(t)
               i == Vdi!SlotOf(t)
               j == Vdi!SlotOf(s)
    <3>1. b \in Vdi!Block /\ i \in Vdi!Slot /\ j \in Vdi!Slot
      BY VdiSector
    <3>2. Vdi!Content[t] = VdiNow(b, i)
      BY <1>1, VdiContent, Zenon
    <3>3. Vdi!Content'[t] = IF b = c THEN block_data'[i] ELSE VdiAt(mtlb', vdi_data', b, i)
      BY <1>1, VdiContentNext, Zenon
    <3>4. /\ Vdi!Held(vdi_map, vdi_data, t)' = VdiAt(vdi_map, vdi_data', b, i)
          /\ Vdi!Held(vdi_map, vdi_data, t) = VdiAt(vdi_map, vdi_data, b, i)
      BY <1>1, VdiContentNext, VdiHeld, Zenon
    <3>5. t = s <=> b = c /\ i = j
      BY VdiSameSector, Zenon DEF c
    <3>6. block_data' = [Vdi!Loaded(c) EXCEPT ![j] = v]
      BY <1>1
    <3> HIDE DEF b, i, j
    <3>7. block_data'[i] = IF i = j THEN v ELSE Vdi!Loaded(c)[i]
      BY <1>4, <3>1, <3>6, Zenon
    <3>8. Vdi!Content'[t] = IF t = s THEN v ELSE Vdi!Content[t]
      BY <1>4, <1>8, <3>1, <3>2, <3>3, <3>5, <3>7, Zenon
    <3> QED  BY <1>4, <1>8, <3>1, <3>2, <3>4, <3>8, Zenon
  <2>3. Vdi!Content' = [Vdi!Content EXCEPT ![s] = v]
    <3>1. Vdi!Content = [t \in Vdi!Sector |-> Vdi!Content[t]]
      BY Zenon DEF Vdi!Content
    <3>2. Vdi!Content' = [t \in Vdi!Sector |-> Vdi!Content'[t]]
      BY VdiContentNext, Zenon
    <3>3. Vdi!Content \in [Vdi!Sector -> Value]
      BY VdiContentType, Zenon
    <3> HIDE DEF Vdi!Content
    <3> QED  BY <2>2, <3>1, <3>2, <3>3, Zenon
  <2>4. VdiVersions'
    <3>1. ASSUME NEW t \in Vdi!Sector
          PROVE  /\ Vdi!Content'[t] \in vdi_versions'[t]
                 /\ Vdi!Held(vdi_map, vdi_data, t)' \in vdi_versions'[t]
      <4>1. /\ Vdi!Content[t] \in vdi_versions[t]
            /\ Vdi!Held(vdi_map, vdi_data, t) \in vdi_versions[t]
        BY <1>8, Zenon DEF VdiVersions
      <4>2. vdi_versions'[t] = IF t = s THEN vdi_versions[t] \cup {v} ELSE vdi_versions[t]
        BY <1>1, Zenon DEF Vdi!TypeOK
      <4> QED  BY <2>2, <4>1, <4>2, Zenon
    <3> QED  BY <3>1, Zenon DEF VdiVersions
  <2> QED  BY <1>1, <2>1, <2>3, <2>4, Zenon DEF Vdi!Disk!Write
<1> QED  BY <1>1, <1>5, <1>6, <1>7, <1>8, Zenon

\* The sectors hold what they held: it is enough to compare one by one.
LEMMA VdiSameContent ==
  ASSUME \A t \in Vdi!Sector : Vdi!Content'[t] = Vdi!Content[t]
  PROVE  Vdi!Content' = Vdi!Content
<1>1. Vdi!Content = [t \in Vdi!Sector |-> Vdi!Content[t]]
  BY Zenon DEF Vdi!Content
<1>2. Vdi!Content' = [t \in Vdi!Sector |-> Vdi!Content'[t]]
  BY VdiContentNext, Zenon
<1> QED  BY <1>1, <1>2, Zenon

\* The image is opened: nothing is in memory yet.
LEMMA VdiOpens ==
  ASSUME VdiIInv, Vdi!Open
  PROVE  /\ VdiIInv'
         /\ ~torn => UNCHANGED <<Vdi!Content, vdi_versions, vdi_reply>>
<1> USE DEF VdiIInv
<1>1. /\ phase = "closed" /\ phase' = "open"
      /\ mtlb' = vdi_map /\ blocks_allocated' = vdi_count /\ mtlb_dirty' = FALSE
      /\ mtlb_sector' = Vdi!NoBlock /\ vdi_dirty' = FALSE
      /\ UNCHANGED <<vdi_map, vdi_count, vdi_data, block_data, vdi_reply, vdi_versions, torn>>
  BY Zenon DEF Vdi!Open, Vdi!file
<1>2. Vdi!TypeOK'
  BY <1>1, Zenon DEF Vdi!TypeOK
<1>3. VdiTables' /\ VdiMemory'
  BY <1>1, Zenon DEF VdiTables, VdiMemory
<1>4. ASSUME NEW t \in Vdi!Sector
      PROVE  /\ Vdi!Content'[t] = Vdi!Content[t]
             /\ Vdi!Held(vdi_map, vdi_data, t)' = Vdi!Held(vdi_map, vdi_data, t)
  <2>1. Vdi!BlockOf(t) # Vdi!NoBlock
    BY VdiSector, VdiBlocksAreNumbers, Zenon
  <2>2. Vdi!Content[t] = VdiAt(vdi_map, vdi_data, Vdi!BlockOf(t), Vdi!SlotOf(t))
    BY <1>1, VdiContent, VdiHeld, Zenon
  <2>3. Vdi!Content'[t] = VdiAt(mtlb', vdi_data', Vdi!BlockOf(t), Vdi!SlotOf(t))
    BY <1>1, <2>1, VdiContentNext, Zenon
  <2>4. Vdi!Held(vdi_map, vdi_data, t)' = Vdi!Held(vdi_map, vdi_data, t)
    BY <1>1, VdiContentNext, VdiHeld, Zenon
  <2> QED  BY <1>1, <2>2, <2>3, <2>4, Zenon
<1>5. ASSUME ~torn
      PROVE  VdiWhole' /\ VdiVersions'
  <2>1. VdiWhole'
    BY <1>1, <1>5, Zenon DEF VdiWhole, EntriesKept, Vdi!WellFormed
  <2>2. VdiVersions'
    BY <1>1, <1>4, <1>5, Zenon DEF VdiVersions
  <2> QED  BY <2>1, <2>2
<1>6. Vdi!Content' = Vdi!Content
  BY <1>4, VdiSameContent, Zenon
<1> QED  BY <1>1, <1>2, <1>3, <1>5, <1>6, Zenon

\* close(), the first write: the block in memory and the table are in the file.
LEMMA VdiClosesTable ==
  ASSUME VdiIInv, Vdi!CloseTable
  PROVE  /\ VdiIInv'
         /\ ~torn => UNCHANGED <<Vdi!Content, vdi_versions, vdi_reply>>
<1> USE DEF VdiIInv
<1> DEFINE n == IF Vdi!NeedsPlace THEN blocks_allocated + 1 ELSE blocks_allocated
<1>1. /\ phase = "open" /\ phase' = "closing"
      /\ Vdi!NeedsPlace => blocks_allocated < VdiPlaces
      /\ mtlb' = Vdi!FlushedMap
      /\ blocks_allocated' = n
      /\ mtlb_dirty' = (mtlb_dirty \/ Vdi!NeedsPlace)
      /\ vdi_data' = Vdi!FlushedData
      /\ vdi_dirty' = FALSE
      /\ vdi_map' = IF mtlb_dirty' THEN mtlb' ELSE vdi_map
      /\ UNCHANGED <<vdi_count, mtlb_sector, block_data, vdi_reply, vdi_versions, torn>>
  BY Zenon DEF Vdi!CloseTable, Vdi!Flush
<1>2. /\ Vdi!FlushedMap \in [Vdi!Block -> Vdi!HostBlock \cup {Vdi!Unallocated}]
      /\ Vdi!FlushedData \in [Vdi!HostBlock -> [Vdi!Slot -> Value]]
  BY <1>1, VdiFlushTypes, Zenon
<1>3. n \in 0 .. VdiPlaces
  BY <1>1, VdiConstants, SMT DEF Vdi!TypeOK
<1>4. mtlb_dirty' \in BOOLEAN
  BY <1>1, Zenon DEF Vdi!TypeOK, Vdi!NeedsPlace
<1>5. ~mtlb_dirty' => mtlb' = vdi_map /\ blocks_allocated' = vdi_count
  BY <1>1, Zenon DEF VdiTables, Vdi!FlushedMap
<1>6. vdi_map' = mtlb'
  BY <1>1, <1>5, Zenon
<1> HIDE DEF n
<1>7. Vdi!TypeOK'
  <2>1. /\ mtlb' \in [Vdi!Block -> Vdi!HostBlock \cup {Vdi!Unallocated}]
        /\ vdi_map' \in [Vdi!Block -> Vdi!HostBlock \cup {Vdi!Unallocated}]
        /\ vdi_data' \in [Vdi!HostBlock -> [Vdi!Slot -> Value]]
        /\ blocks_allocated' \in 0 .. VdiPlaces
        /\ vdi_dirty' \in BOOLEAN
    BY <1>1, <1>2, <1>3, <1>6, Zenon
  <2>2. /\ vdi_count' \in 0 .. VdiPlaces
        /\ phase' \in {"closed", "open", "closing"}
        /\ mtlb_sector' \in Vdi!Block \cup {Vdi!NoBlock}
        /\ block_data' \in [Vdi!Slot -> Value]
        /\ vdi_reply' \in Value
        /\ vdi_versions' \in [Vdi!Sector -> SUBSET Value]
        /\ torn' \in BOOLEAN
    BY <1>1, Zenon DEF Vdi!TypeOK
  <2> QED  BY <1>4, <2>1, <2>2, Zenon DEF Vdi!TypeOK
<1>8. VdiTables' /\ VdiMemory'
  BY <1>1, <1>5, <1>6, Zenon DEF VdiTables, VdiMemory
<1>9. ASSUME ~torn
      PROVE  VdiWhole' /\ VdiVersions' /\ Vdi!Content' = Vdi!Content
  <2>1. VdiWhole
    BY <1>9
  <2>2. Vdi!WellFormed(mtlb, blocks_allocated)
    BY <1>1, <2>1, Zenon DEF VdiWhole
  <2>3. Vdi!WellFormed(Vdi!FlushedMap, n)
    BY <1>1, <2>2, VdiFlushWellFormed, Zenon DEF n
  <2>4. VdiWhole'
    BY <1>1, <2>3, Zenon DEF VdiWhole, Vdi!WellFormed
  <2>5. \A b \in Vdi!Block, i \in Vdi!Slot :
          VdiAt(Vdi!FlushedMap, Vdi!FlushedData, b, i) = VdiNow(b, i)
    BY <1>1, <2>1, VdiFlushHolds, Zenon
  <2>6. ASSUME NEW t \in Vdi!Sector
        PROVE  /\ Vdi!Content'[t] = Vdi!Content[t]
               /\ Vdi!Held(vdi_map, vdi_data, t)' = Vdi!Content[t]
    <3> DEFINE b == Vdi!BlockOf(t)
               i == Vdi!SlotOf(t)
    <3>1. b \in Vdi!Block /\ i \in Vdi!Slot
      BY VdiSector
    <3>2. Vdi!Content[t] = VdiNow(b, i)
      BY <1>1, VdiContent, Zenon
    <3>3. Vdi!Content'[t] = VdiAt(mtlb', vdi_data', b, i)
      BY <1>1, VdiContentNext, Zenon
    <3>4. Vdi!Held(vdi_map, vdi_data, t)' = VdiAt(vdi_map', vdi_data', b, i)
      BY VdiContentNext, Zenon
    <3> HIDE DEF b, i
    <3> QED  BY <1>1, <1>6, <2>5, <3>1, <3>2, <3>3, <3>4, Zenon
  <2>7. VdiVersions'
    BY <1>1, <1>9, <2>6, Zenon DEF VdiVersions
  <2>8. Vdi!Content' = Vdi!Content
    BY <2>6, VdiSameContent, Zenon
  <2> QED  BY <2>4, <2>7, <2>8
<1> QED  BY <1>1, <1>7, <1>8, <1>9, Zenon

\* Once the image is closed, the versions are what it holds.
LEMMA VdiClosedVersions ==
  ASSUME phase' = "closed", vdi_versions' = Vdi!Only(Vdi!Content')
  PROVE  VdiVersions'
<1>1. ASSUME NEW t \in Vdi!Sector
      PROVE  /\ Vdi!Content'[t] \in vdi_versions'[t]
             /\ Vdi!Held(vdi_map, vdi_data, t)' \in vdi_versions'[t]
  <2>1. vdi_versions'[t] = {Vdi!Content'[t]}
    BY Zenon DEF Vdi!Only
  <2>2. Vdi!Content'[t] = Vdi!Held(vdi_map, vdi_data, t)'
    BY VdiContentNext, Zenon
  <2> QED  BY <2>1, <2>2, Zenon
<1> QED  BY <1>1, Zenon DEF VdiVersions

\* ... and are as well typed as it.
LEMMA VdiOnlyType ==
  ASSUME NEW d, d \in [Vdi!Sector -> Value]
  PROVE  Vdi!Only(d) \in [Vdi!Sector -> SUBSET Value]
BY Zenon DEF Vdi!Only

\* The contents of the next state, from the file alone.
LEMMA VdiFileType ==
  ASSUME vdi_map' \in [Vdi!Block -> Vdi!HostBlock \cup {Vdi!Unallocated}],
         vdi_data' \in [Vdi!HostBlock -> [Vdi!Slot -> Value]],
         phase' = "closed"
  PROVE  Vdi!Content' \in [Vdi!Sector -> Value]
<1>1. ASSUME NEW t \in Vdi!Sector
      PROVE  Vdi!Content'[t] \in Value
  <2> DEFINE b == Vdi!BlockOf(t)
             i == Vdi!SlotOf(t)
  <2>1. b \in Vdi!Block /\ i \in Vdi!Slot
    BY VdiSector
  <2>2. Vdi!Content'[t] = VdiAt(vdi_map', vdi_data', b, i)
    BY VdiContentNext, Zenon
  <2> HIDE DEF b, i
  <2>3. vdi_map'[b] # Vdi!Unallocated => vdi_data'[vdi_map'[b]] \in [Vdi!Slot -> Value]
    BY <2>1, Zenon
  <2>4. vdi_map'[b] # Vdi!Unallocated => vdi_data'[vdi_map'[b]][i] \in Value
    BY <2>1, <2>3, Zenon
  <2> QED  BY <2>2, <2>4, VdiConstants, Zenon DEF VdiAt
<1> QED  BY <1>1, VdiContentNext, Zenon

\* close(), the second write: the number of blocks in use belongs to the table.
LEMMA VdiClosesHeader ==
  ASSUME VdiIInv, Vdi!CloseHeader
  PROVE  /\ VdiIInv'
         /\ ~torn => Vdi!Disk!Close
<1> USE DEF VdiIInv
<1>1. /\ phase = "closing" /\ phase' = "closed"
      /\ vdi_count' = IF mtlb_dirty THEN blocks_allocated ELSE vdi_count
      /\ vdi_versions' = Vdi!Only(Vdi!Content')
      /\ UNCHANGED <<vdi_map, vdi_data, mtlb, blocks_allocated, mtlb_dirty>>
      /\ UNCHANGED <<mtlb_sector, block_data, vdi_dirty, vdi_reply, torn>>
  BY Zenon DEF Vdi!CloseHeader, Vdi!table, Vdi!cache
<1>2. vdi_map = mtlb /\ vdi_count' = blocks_allocated
  BY <1>1, Zenon DEF VdiTables
<1>3. Vdi!Content' \in [Vdi!Sector -> Value]
  BY <1>1, VdiFileType, Zenon DEF Vdi!TypeOK
<1>4. Vdi!TypeOK'
  <2>1. vdi_versions' \in [Vdi!Sector -> SUBSET Value]
    BY <1>1, <1>3, VdiOnlyType, Zenon
  <2>2. /\ vdi_map' \in [Vdi!Block -> Vdi!HostBlock \cup {Vdi!Unallocated}]
        /\ vdi_count' \in 0 .. VdiPlaces
        /\ vdi_data' \in [Vdi!HostBlock -> [Vdi!Slot -> Value]]
        /\ phase' \in {"closed", "open", "closing"}
        /\ mtlb' \in [Vdi!Block -> Vdi!HostBlock \cup {Vdi!Unallocated}]
        /\ blocks_allocated' \in 0 .. VdiPlaces
        /\ mtlb_dirty' \in BOOLEAN
    BY <1>1, <1>2, Zenon DEF Vdi!TypeOK
  <2>3. /\ mtlb_sector' \in Vdi!Block \cup {Vdi!NoBlock}
        /\ block_data' \in [Vdi!Slot -> Value]
        /\ vdi_dirty' \in BOOLEAN
        /\ vdi_reply' \in Value
        /\ torn' \in BOOLEAN
    BY <1>1, Zenon DEF Vdi!TypeOK
  <2> QED  BY <2>1, <2>2, <2>3, Zenon DEF Vdi!TypeOK
<1>5. VdiTables' /\ VdiMemory'
  BY <1>1, Zenon DEF VdiTables, VdiMemory
<1>6. VdiVersions'
  BY <1>1, VdiClosedVersions, Zenon
<1>7. ~torn => VdiWhole'
  BY <1>1, <1>2, Zenon DEF VdiWhole, Vdi!WellFormed
<1>8. Vdi!Content' = Vdi!Content
  <2>1. ASSUME NEW t \in Vdi!Sector
        PROVE  Vdi!Content'[t] = Vdi!Content[t]
    <3>1. Vdi!Content[t] = VdiAt(mtlb, vdi_data, Vdi!BlockOf(t), Vdi!SlotOf(t))
      BY <1>1, VdiContent, VdiHeld, Zenon
    <3>2. Vdi!Content'[t] = VdiAt(vdi_map', vdi_data', Vdi!BlockOf(t), Vdi!SlotOf(t))
      BY <1>1, VdiContentNext, Zenon
    <3> QED  BY <1>1, <1>2, <3>1, <3>2, Zenon
  <2> QED  BY <2>1, VdiSameContent, Zenon
<1>9. Vdi!Disk!Close
  <2>1. vdi_versions' = Vdi!Disk!Only(Vdi!Content)
    BY <1>1, <1>8, Zenon DEF Vdi!Only, Vdi!Disk!Only
  <2> QED  BY <1>1, <1>8, <2>1, Zenon DEF Vdi!Disk!Close
<1> QED  BY <1>1, <1>4, <1>5, <1>6, <1>7, <1>9, Zenon

\* The program ends: what the file has of a sector is something it held.
LEMMA VdiCrashes ==
  ASSUME VdiIInv, Vdi!Crash
  PROVE  /\ VdiIInv'
         /\ ~torn => Vdi!Disk!Crash
<1> USE DEF VdiIInv
<1>1. /\ phase # "closed" /\ phase' = "closed"
      /\ torn' = torn \/ (phase = "closing" /\ torn' = TRUE)
      /\ vdi_versions' = Vdi!Only(Vdi!Content')
      /\ UNCHANGED <<vdi_map, vdi_count, vdi_data, mtlb, blocks_allocated, mtlb_dirty>>
      /\ UNCHANGED <<mtlb_sector, block_data, vdi_dirty, vdi_reply>>
  BY Zenon DEF Vdi!Crash, Vdi!table, Vdi!cache, Vdi!file
<1>3. Vdi!Content' \in [Vdi!Sector -> Value]
  BY <1>1, VdiFileType, Zenon DEF Vdi!TypeOK
<1>4. Vdi!TypeOK'
  <2>1. vdi_versions' \in [Vdi!Sector -> SUBSET Value]
    BY <1>1, <1>3, VdiOnlyType, Zenon
  <2>2. /\ vdi_map' \in [Vdi!Block -> Vdi!HostBlock \cup {Vdi!Unallocated}]
        /\ vdi_count' \in 0 .. VdiPlaces
        /\ vdi_data' \in [Vdi!HostBlock -> [Vdi!Slot -> Value]]
        /\ phase' \in {"closed", "open", "closing"}
        /\ mtlb' \in [Vdi!Block -> Vdi!HostBlock \cup {Vdi!Unallocated}]
        /\ blocks_allocated' \in 0 .. VdiPlaces
        /\ mtlb_dirty' \in BOOLEAN
    BY <1>1, Zenon DEF Vdi!TypeOK
  <2>3. /\ mtlb_sector' \in Vdi!Block \cup {Vdi!NoBlock}
        /\ block_data' \in [Vdi!Slot -> Value]
        /\ vdi_dirty' \in BOOLEAN
        /\ vdi_reply' \in Value
        /\ torn' \in BOOLEAN
    BY <1>1, Zenon DEF Vdi!TypeOK
  <2> QED  BY <2>1, <2>2, <2>3, Zenon DEF Vdi!TypeOK
<1>5. VdiTables' /\ VdiMemory'
  BY <1>1, Zenon DEF VdiTables, VdiMemory
<1>6. VdiVersions'
  BY <1>1, VdiClosedVersions, Zenon
<1>7. ~torn' => VdiWhole'
  <2>1. ASSUME ~torn'
        PROVE  VdiWhole'
    <3>0. phase = "open" /\ torn' = torn
      BY <2>1, Zenon DEF Vdi!Crash
    <3>1. phase = "open" /\ ~torn
      BY <2>1, <3>0
    <3> QED  BY <1>1, <3>1, Zenon DEF VdiWhole, Vdi!WellFormed
  <2> QED  BY <2>1
<1>8. ASSUME ~torn
      PROVE  Vdi!Disk!Crash
  <2>1. ASSUME NEW t \in Vdi!Sector
        PROVE  Vdi!Content'[t] \in vdi_versions[t]
    <3>1. Vdi!Content'[t] = Vdi!Held(vdi_map, vdi_data, t)
      BY <1>1, VdiContentNext, VdiHeld, Zenon
    <3> QED  BY <1>8, <3>1, Zenon DEF VdiVersions
  <2>2. vdi_versions' = Vdi!Disk!Only(Vdi!Content')
    BY <1>1, Zenon DEF Vdi!Only, Vdi!Disk!Only
  <2> QED  BY <1>1, <1>3, <2>1, <2>2, Zenon DEF Vdi!Disk!Crash
<1> QED  BY <1>4, <1>5, <1>6, <1>7, <1>8, Zenon

\* Any image that is found keeps the invariant, and is a disk.
LEMMA VdiStarts ==
  ASSUME Vdi!Init
  PROVE  VdiIInv /\ Vdi!Disk!Init
<1>1. /\ vdi_map \in [Vdi!Block -> Vdi!HostBlock \cup {Vdi!Unallocated}]
      /\ vdi_count \in 0 .. VdiPlaces
      /\ Vdi!WellFormed(vdi_map, vdi_count)
      /\ vdi_data \in [Vdi!HostBlock -> [Vdi!Slot -> Value]]
      /\ phase = "closed"
      /\ mtlb = vdi_map /\ blocks_allocated = vdi_count /\ mtlb_dirty = FALSE
      /\ mtlb_sector = Vdi!NoBlock /\ block_data = [i \in Vdi!Slot |-> Zero] /\ vdi_dirty = FALSE
      /\ vdi_reply = Zero
      /\ vdi_versions = Vdi!Only(Vdi!Content)
      /\ torn = FALSE
  <2>1. vdi_count \in 0 .. VdiPlaces
    BY Zenon DEF Vdi!Init
  <2> QED  BY <2>1, Zenon DEF Vdi!Init
<1>2. block_data \in [Vdi!Slot -> Value]
  BY <1>1, VdiConstants, Zenon
<1>3. Vdi!Content \in [Vdi!Sector -> Value]
  <2>1. ASSUME NEW t \in Vdi!Sector
        PROVE  Vdi!Content[t] \in Value
    <3> DEFINE b == Vdi!BlockOf(t)
               i == Vdi!SlotOf(t)
    <3>1. b \in Vdi!Block /\ i \in Vdi!Slot
      BY VdiSector
    <3>2. Vdi!Content[t] = VdiAt(vdi_map, vdi_data, b, i)
      BY <1>1, VdiContent, VdiHeld, Zenon
    <3> HIDE DEF b, i
    <3>3. vdi_map[b] # Vdi!Unallocated => vdi_data[vdi_map[b]] \in [Vdi!Slot -> Value]
      BY <1>1, <3>1, Zenon
    <3>4. vdi_map[b] # Vdi!Unallocated => vdi_data[vdi_map[b]][i] \in Value
      BY <3>1, <3>3, Zenon
    <3> QED  BY <3>2, <3>4, VdiConstants, Zenon DEF VdiAt
  <2>2. Vdi!Content = [t \in Vdi!Sector |-> Vdi!Content[t]]
    BY Zenon DEF Vdi!Content
  <2> QED  BY <2>1, <2>2, Zenon
<1>4. Vdi!TypeOK
  <2>1. vdi_versions \in [Vdi!Sector -> SUBSET Value]
    BY <1>1, <1>3, VdiOnlyType, Zenon
  <2> QED  BY <1>1, <1>2, <2>1, VdiConstants, Zenon DEF Vdi!TypeOK
<1>5. VdiVersions
  <2>1. ASSUME NEW t \in Vdi!Sector
        PROVE  /\ Vdi!Content[t] \in vdi_versions[t]
               /\ Vdi!Held(vdi_map, vdi_data, t) \in vdi_versions[t]
    <3>1. vdi_versions[t] = {Vdi!Content[t]}
      BY <1>1, Zenon DEF Vdi!Only
    <3>2. Vdi!Content[t] = Vdi!Held(vdi_map, vdi_data, t)
      BY <1>1, VdiContent, Zenon
    <3> QED  BY <3>1, <3>2, Zenon
  <2> QED  BY <2>1, Zenon DEF VdiVersions
<1>6. VdiTables /\ VdiMemory /\ VdiWhole
  BY <1>1, Zenon DEF VdiTables, VdiMemory, VdiWhole
<1>7. Vdi!Disk!Init
  <2>1. vdi_versions = Vdi!Disk!Only(Vdi!Content)
    BY <1>1, Zenon DEF Vdi!Only, Vdi!Disk!Only
  <2> QED  BY <1>1, <1>3, <2>1, VdiConstants, Zenon DEF Vdi!Disk!Init
<1> QED  BY <1>4, <1>5, <1>6, <1>7, Zenon DEF VdiIInv

\* Every step keeps the invariant, and is one of the disk until a close is torn.
LEMMA VdiSteps ==
  ASSUME VdiIInv, Vdi!Next
  PROVE  /\ VdiIInv'
         /\ ~torn => [Vdi!Disk!Next]_(Vdi!Disk!vars)
<1>1. CASE Vdi!Open
  BY <1>1, VdiOpens, Zenon DEF Vdi!Disk!vars
<1>2. ASSUME NEW s \in Vdi!Sector, Vdi!ReadSector(s)
      PROVE  VdiIInv' /\ (~torn => [Vdi!Disk!Next]_(Vdi!Disk!vars))
  BY <1>2, VdiReads, Zenon DEF Vdi!Disk!Next
<1>3. ASSUME NEW s \in Vdi!Sector, NEW v \in Value, Vdi!WriteSector(s, v)
      PROVE  VdiIInv' /\ (~torn => [Vdi!Disk!Next]_(Vdi!Disk!vars))
  BY <1>3, VdiWrites, Zenon DEF Vdi!Disk!Next
<1>4. CASE Vdi!CloseTable
  BY <1>4, VdiClosesTable, Zenon DEF Vdi!Disk!vars
<1>5. CASE Vdi!CloseHeader
  BY <1>5, VdiClosesHeader, Zenon DEF Vdi!Disk!Next
<1>6. CASE Vdi!Crash
  BY <1>6, VdiCrashes, Zenon DEF Vdi!Disk!Next
<1> QED  BY <1>1, <1>2, <1>3, <1>4, <1>5, <1>6, Zenon DEF Vdi!Next

-----------------------------------------------------------------------------
(* The VHD image.                                                          *)

\* What block b holds at i according to a table and the places of the file.
VhdAt(map, places, b, i) == IF map[b] = Vhd!Unallocated THEN Zero ELSE places[map[b]][i]

\* The block that is being written.
VhdTarget == Vhd!BlockOf(target.sector)

\* The table in memory is the one in the file, but for the entry that an
\* allocation has still to write.
VhdTables ==
  /\ Vhd!Injective(bat)
  /\ ~vhd_open => step = "idle"
  /\ vhd_open /\ step \in {"idle", "sector"} => pagetable = bat
  /\ step \in {"footer", "bat"} =>
       /\ free > 0
       /\ bat[VhdTarget] = Vhd!Unallocated
       /\ pagetable = [bat EXCEPT ![VhdTarget] = free - 1]
  /\ step = "sector" => bat[VhdTarget] # Vhd!Unallocated

\* Where the last place in use ends, and the footer.
VhdEnds ==
  /\ vhd_open /\ step \in {"idle", "sector"} => Vhd!EndsAt(bat, free)
  /\ step \in {"footer", "bat"} => Vhd!EndsAt(bat, free - 1)
  /\ step = "bat" => footer_at = free
  /\ Vhd!FooterEndsFile

\* The places behind all those in use hold zeros: a new block reads as before.
VhdFresh ==
  \A p \in Vhd!Place :
    (\A b \in Vhd!Block : bat[b] < p) => \A i \in Vhd!Slot : vhd_data[p][i] = Zero

\* The place being written to is marked.
VhdMarked ==
  /\ last_bitmap # Vhd!Nowhere => bitmap[last_bitmap] = TRUE
  /\ step # "idle" => bitmap[pagetable[VhdTarget]] = TRUE

\* A sector reads as something it held since the last close.
VhdVersions == \A s \in Vhd!Sector : Vhd!Content[s] \in vhd_versions[s]

\* What holds of the VHD image.
VhdIInv ==
  /\ Vhd!TypeOK
  /\ VhdTables
  /\ VhdEnds
  /\ VhdFresh
  /\ VhdMarked
  /\ VhdVersions

\* What is assumed of the constants of the VHD image.
LEMMA VhdConstants ==
  /\ VhdBlocks \in Nat \ {0}
  /\ VhdBlockSize \in Nat \ {0}
  /\ Zero \in Value
  /\ VhdPlaces \in Nat
BY ConstantsAssumption DEF Vhd!ConstantsOK

\* A sector lies in a block, at a slot of it.
LEMMA VhdSector ==
  ASSUME NEW s \in Vhd!Sector
  PROVE  Vhd!BlockOf(s) \in Vhd!Block /\ Vhd!SlotOf(s) \in Vhd!Slot
BY VhdConstants, PlaceInBlocks, Zenon DEF Vhd!Sector, Vhd!Block, Vhd!Slot, Vhd!BlockOf, Vhd!SlotOf

\* No two sectors lie in the same slot of the same block.
LEMMA VhdSameSector ==
  ASSUME NEW s \in Vhd!Sector, NEW t \in Vhd!Sector,
         Vhd!BlockOf(s) = Vhd!BlockOf(t), Vhd!SlotOf(s) = Vhd!SlotOf(t)
  PROVE  s = t
<1>1. /\ s = (s \div VhdBlockSize) * VhdBlockSize + (s % VhdBlockSize)
      /\ t = (t \div VhdBlockSize) * VhdBlockSize + (t % VhdBlockSize)
  BY VhdConstants, PlaceInBlocks, Zenon DEF Vhd!Sector
<1> QED  BY <1>1, Zenon DEF Vhd!BlockOf, Vhd!SlotOf

\* The disk has a sector.
LEMMA VhdFirstSector == 0 \in Vhd!Sector
<1>1. VhdBlocks * VhdBlockSize >= 1
  BY VhdConstants, SMT
<1>2. VhdBlocks * VhdBlockSize \in Int
  BY VhdConstants, SMT
<1> QED  BY <1>1, <1>2, SMT DEF Vhd!Sector

\* The marks for "no place" are none.
LEMMA VhdPlacesAreNumbers ==
  /\ Vhd!Unallocated \notin Vhd!Place
  /\ Vhd!Nowhere \notin Vhd!Place
  /\ \A p \in Vhd!Place : p \in Nat /\ p < VhdPlaces
BY VhdConstants, SMT DEF Vhd!Unallocated, Vhd!Place, Vhd!Nowhere

\* What is being written, and where.
LEMMA VhdTargetType ==
  ASSUME Vhd!TypeOK
  PROVE  target.sector \in Vhd!Sector /\ target.value \in Value /\ VhdTarget \in Vhd!Block
<1>1. target.sector \in Vhd!Sector /\ target.value \in Value
  BY Zenon DEF Vhd!TypeOK
<1> QED  BY <1>1, VhdSector, Zenon DEF VhdTarget

\* The contents, now and in the next state.
LEMMA VhdContent ==
  /\ Vhd!Content = [s \in Vhd!Sector |-> Vhd!Content[s]]
  /\ \A s \in Vhd!Sector :
       Vhd!Content[s] = VhdAt(bat, vhd_data, Vhd!BlockOf(s), Vhd!SlotOf(s))
BY Zenon DEF Vhd!Content, VhdAt

\* ... in the next state.
LEMMA VhdContentNext ==
  /\ Vhd!Content' = [s \in Vhd!Sector |-> Vhd!Content'[s]]
  /\ \A s \in Vhd!Sector :
       Vhd!Content'[s] = VhdAt(bat', vhd_data', Vhd!BlockOf(s), Vhd!SlotOf(s))
BY Zenon DEF Vhd!Content, VhdAt

\* They are values.
LEMMA VhdContentType ==
  ASSUME bat \in [Vhd!Block -> Vhd!Place \cup {Vhd!Unallocated}],
         vhd_data \in [Vhd!Place -> [Vhd!Slot -> Value]]
  PROVE  Vhd!Content \in [Vhd!Sector -> Value]
<1>1. ASSUME NEW s \in Vhd!Sector
      PROVE  Vhd!Content[s] \in Value
  <2> DEFINE b == Vhd!BlockOf(s)
             i == Vhd!SlotOf(s)
  <2>1. b \in Vhd!Block /\ i \in Vhd!Slot
    BY VhdSector
  <2>2. Vhd!Content[s] = VhdAt(bat, vhd_data, b, i)
    BY VhdContent, Zenon
  <2> HIDE DEF b, i
  <2>3. bat[b] # Vhd!Unallocated => vhd_data[bat[b]] \in [Vhd!Slot -> Value]
    BY <2>1, Zenon
  <2>4. bat[b] # Vhd!Unallocated => vhd_data[bat[b]][i] \in Value
    BY <2>1, <2>3, Zenon
  <2> QED  BY <2>2, <2>4, VhdConstants, Zenon DEF VhdAt
<1> QED  BY <1>1, VhdContent, Zenon

\* Nothing changes in the file that the guest could see.
LEMMA VhdSameContent ==
  ASSUME UNCHANGED <<bat, vhd_data>>
  PROVE  Vhd!Content' = Vhd!Content
BY Zenon DEF Vhd!Content

\* The image is opened: the end of the last place in use is found again.
LEMMA VhdOpens ==
  ASSUME VhdIInv, Vhd!Open
  PROVE  VhdIInv' /\ UNCHANGED <<Vhd!Content, vhd_versions, vhd_reply>>
<1> USE DEF VhdIInv
<1>1. /\ ~vhd_open /\ vhd_open' = TRUE
      /\ pagetable' = bat
      /\ free' \in 0 .. VhdPlaces /\ Vhd!EndsAt(bat, free')
      /\ last_bitmap' = Vhd!Nowhere
      /\ UNCHANGED <<bat, bitmap, vhd_data, footer_at, step, target, vhd_reply, vhd_versions,
                     interrupted>>
  BY Zenon DEF Vhd!Open, Vhd!file
<1>2. step = "idle"
  BY <1>1, Zenon DEF VhdTables
<1>3. Vhd!TypeOK'
  BY <1>1, Zenon DEF Vhd!TypeOK
<1>4. VhdTables' /\ VhdEnds' /\ VhdFresh' /\ VhdMarked'
  BY <1>1, <1>2, Zenon DEF VhdTables, VhdEnds, VhdFresh, VhdMarked, VhdTarget,
     Vhd!Injective, Vhd!EndsAt, Vhd!FooterEndsFile
<1>5. Vhd!Content' = Vhd!Content
  BY <1>1, VhdSameContent, Zenon
<1>6. VhdVersions'
  BY <1>1, <1>5, Zenon DEF VhdVersions
<1> QED  BY <1>1, <1>3, <1>4, <1>5, <1>6, Zenon

\* The guest reads a sector: the table in memory is the one in the file.
LEMMA VhdReads ==
  ASSUME VhdIInv, NEW s \in Vhd!Sector, Vhd!ReadSector(s)
  PROVE  VhdIInv' /\ Vhd!Disk!Read(s)
<1> USE DEF VhdIInv
<1>1. /\ vhd_open /\ step = "idle"
      /\ vhd_reply' = VhdAt(pagetable, vhd_data, Vhd!BlockOf(s), Vhd!SlotOf(s))
      /\ UNCHANGED <<bat, bitmap, vhd_data, footer_at, vhd_open, pagetable, free, last_bitmap,
                     step, target, vhd_versions, interrupted>>
  BY Zenon DEF Vhd!ReadSector, Vhd!Idle, Vhd!file, Vhd!driver, VhdAt
<1>2. pagetable = bat
  BY <1>1, Zenon DEF VhdTables
<1>3. vhd_reply' = Vhd!Content[s]
  BY <1>1, <1>2, VhdContent, Zenon
<1>4. Vhd!Content[s] \in Value
  BY VhdContentType, Zenon DEF Vhd!TypeOK
<1>5. Vhd!TypeOK'
  BY <1>1, <1>3, <1>4, Zenon DEF Vhd!TypeOK
<1>6. VhdTables' /\ VhdEnds' /\ VhdFresh' /\ VhdMarked'
  BY <1>1, Zenon DEF VhdTables, VhdEnds, VhdFresh, VhdMarked, VhdTarget,
     Vhd!Injective, Vhd!EndsAt, Vhd!FooterEndsFile
<1>7. Vhd!Content' = Vhd!Content
  BY <1>1, VhdSameContent, Zenon
<1>8. VhdVersions'
  BY <1>1, <1>7, Zenon DEF VhdVersions
<1> QED  BY <1>1, <1>3, <1>5, <1>6, <1>7, <1>8, Zenon DEF Vhd!Disk!Read

\* The guest writes a sector of a block that has a place: the place is marked.
LEMMA VhdWritesInPlace ==
  ASSUME VhdIInv, NEW s \in Vhd!Sector, NEW v \in Value, Vhd!WriteInPlace(s, v)
  PROVE  VhdIInv' /\ UNCHANGED <<Vhd!Content, vhd_versions, vhd_reply>>
<1> USE DEF VhdIInv
<1> DEFINE p == pagetable[Vhd!BlockOf(s)]
<1>1. /\ vhd_open /\ step = "idle"
      /\ p # Vhd!Unallocated
      /\ bitmap' = Vhd!Marked(p)
      /\ last_bitmap' = p
      /\ step' = "sector"
      /\ target' = [sector |-> s, value |-> v]
      /\ UNCHANGED <<bat, vhd_data, footer_at, vhd_open, pagetable, free, vhd_reply, vhd_versions,
                     interrupted>>
  BY Zenon DEF Vhd!WriteInPlace, Vhd!Idle
<1>2. pagetable = bat /\ Vhd!BlockOf(s) \in Vhd!Block
  BY <1>1, VhdSector, Zenon DEF VhdTables
<1>3. p \in Vhd!Place
  BY <1>1, <1>2, Zenon DEF Vhd!TypeOK
<1>4. target'.sector = s
  BY <1>1, Zenon
<1>5. VhdTarget' = Vhd!BlockOf(s)
  BY <1>4, Zenon DEF VhdTarget
<1>6. /\ bitmap' \in [Vhd!Place -> BOOLEAN]
      /\ bitmap'[p] = TRUE
  <2>1. CASE last_bitmap = p
    <3>1. bitmap' = bitmap
      BY <1>1, <2>1, Zenon DEF Vhd!Marked
    <3>2. last_bitmap # Vhd!Nowhere
      BY <1>3, <2>1, VhdPlacesAreNumbers, Zenon
    <3> QED  BY <2>1, <3>1, <3>2, Zenon DEF VhdMarked, Vhd!TypeOK
  <2>2. CASE last_bitmap # p
    <3>1. bitmap' = [bitmap EXCEPT ![p] = TRUE]
      BY <1>1, <2>2, Zenon DEF Vhd!Marked
    <3>2. bitmap \in [Vhd!Place -> BOOLEAN]
      BY Zenon DEF Vhd!TypeOK
    <3> HIDE DEF p
    <3> QED  BY <1>3, <3>1, <3>2, Zenon
  <2> QED  BY <2>1, <2>2
<1>7. Vhd!TypeOK'
  <2>1. target' \in [sector : Vhd!Sector, value : Value]
    BY <1>1, Zenon
  <2>2. step' \in {"idle", "footer", "bat", "sector"} /\ last_bitmap' \in Vhd!Place \cup {Vhd!Nowhere}
    BY <1>1, <1>3, Zenon
  <2> QED  BY <1>1, <1>6, <2>1, <2>2, Zenon DEF Vhd!TypeOK
<1>8. VhdMarked'
  <2>1. pagetable'[VhdTarget'] = p
    BY <1>1, <1>5, Zenon
  <2> HIDE DEF p
  <2> QED  BY <1>1, <1>6, <2>1, Zenon DEF VhdMarked
<1>9. VhdTables'
  <2>1. bat'[VhdTarget'] # Vhd!Unallocated
    BY <1>1, <1>2, <1>5, Zenon
  <2> QED  BY <1>1, <1>2, <2>1, Zenon DEF VhdTables, Vhd!Injective
<1>10. VhdEnds' /\ VhdFresh'
  BY <1>1, Zenon DEF VhdEnds, VhdFresh, Vhd!EndsAt, Vhd!FooterEndsFile
<1>11. Vhd!Content' = Vhd!Content
  BY <1>1, VhdSameContent, Zenon
<1>12. VhdVersions'
  BY <1>1, <1>11, Zenon DEF VhdVersions
<1> QED  BY <1>1, <1>7, <1>8, <1>9, <1>10, <1>11, <1>12, Zenon

\* The guest writes a sector of a block that has none: the block gets the place
\* at the end, in memory.
LEMMA VhdWritesNewBlock ==
  ASSUME VhdIInv, NEW s \in Vhd!Sector, NEW v \in Value, Vhd!WriteNewBlock(s, v)
  PROVE  VhdIInv' /\ UNCHANGED <<Vhd!Content, vhd_versions, vhd_reply>>
<1> USE DEF VhdIInv
<1> DEFINE b == Vhd!BlockOf(s)
<1>1. /\ vhd_open /\ step = "idle"
      /\ pagetable[b] = Vhd!Unallocated
      /\ free < VhdPlaces
      /\ pagetable' = [pagetable EXCEPT ![b] = free]
      /\ bitmap' = [bitmap EXCEPT ![free] = TRUE]
      /\ footer_at' = IF footer_at = free THEN Vhd!Nowhere ELSE footer_at
      /\ free' = free + 1
      /\ step' = "footer"
      /\ target' = [sector |-> s, value |-> v]
      /\ UNCHANGED <<bat, vhd_data, vhd_open, last_bitmap, vhd_reply, vhd_versions, interrupted>>
  BY Zenon DEF Vhd!WriteNewBlock, Vhd!Idle, Vhd!EndOf
<1>2. pagetable = bat /\ b \in Vhd!Block
  BY <1>1, VhdSector, Zenon DEF VhdTables
<1>3. free \in Nat /\ free \in Vhd!Place /\ free' \in 0 .. VhdPlaces /\ free' - 1 = free /\ free' > 0
  BY <1>1, VhdConstants, SMT DEF Vhd!TypeOK, Vhd!Place
<1>4. target'.sector = s
  BY <1>1, Zenon
<1>5. VhdTarget' = b
  BY <1>4, Zenon DEF VhdTarget
<1> HIDE DEF b
<1>6. /\ bitmap' \in [Vhd!Place -> BOOLEAN]
      /\ bitmap'[free] = TRUE
      /\ \A p \in Vhd!Place : bitmap[p] = TRUE => bitmap'[p] = TRUE
  <2>1. bitmap \in [Vhd!Place -> BOOLEAN]
    BY Zenon DEF Vhd!TypeOK
  <2> QED  BY <1>1, <1>3, <2>1, Zenon
<1>7. /\ pagetable' \in [Vhd!Block -> Vhd!Place \cup {Vhd!Unallocated}]
      /\ pagetable'[b] = free
  BY <1>1, <1>2, <1>3, Zenon DEF Vhd!TypeOK
<1>8. Vhd!TypeOK'
  <2>1. target' \in [sector : Vhd!Sector, value : Value]
    BY <1>1, Zenon
  <2>2. step' \in {"idle", "footer", "bat", "sector"}
    BY <1>1, Zenon
  <2>3. footer_at' \in 0 .. VhdPlaces \cup {Vhd!Nowhere}
    BY <1>1, Zenon DEF Vhd!TypeOK
  <2> QED  BY <1>1, <1>3, <1>6, <1>7, <2>1, <2>2, <2>3, Zenon DEF Vhd!TypeOK
<1>9. VhdTables'
  BY <1>1, <1>2, <1>3, <1>5, Zenon DEF VhdTables, Vhd!Injective
<1>10. VhdEnds'
  <2>1. Vhd!EndsAt(bat, free)
    BY <1>1, Zenon DEF VhdEnds
  <2>2. Vhd!EndsAt(bat', free' - 1)
    BY <1>1, <1>3, <2>1, Zenon
  <2> QED  BY <1>1, <2>2, Zenon DEF VhdEnds, Vhd!FooterEndsFile, Vhd!EndsAt
<1>11. VhdFresh'
  BY <1>1, Zenon DEF VhdFresh
<1>12. VhdMarked'
  <2>1. last_bitmap \in Vhd!Place \cup {Vhd!Nowhere}
    BY Zenon DEF Vhd!TypeOK
  <2> QED  BY <1>1, <1>5, <1>6, <1>7, <2>1, Zenon DEF VhdMarked
<1>13. Vhd!Content' = Vhd!Content
  BY <1>1, VhdSameContent, Zenon
<1>14. VhdVersions'
  BY <1>1, <1>13, Zenon DEF VhdVersions
<1> QED  BY <1>1, <1>8, <1>9, <1>10, <1>11, <1>12, <1>13, <1>14, Zenon

\* The footer is written behind the new place.
LEMMA VhdWritesFooter ==
  ASSUME VhdIInv, Vhd!WriteFooter
  PROVE  VhdIInv' /\ UNCHANGED <<Vhd!Content, vhd_versions, vhd_reply>>
<1> USE DEF VhdIInv
<1>1. /\ step = "footer" /\ step' = "bat" /\ footer_at' = free
      /\ UNCHANGED <<bat, bitmap, vhd_data, vhd_open, pagetable, free, last_bitmap, target,
                     vhd_reply, vhd_versions, interrupted>>
  BY Zenon DEF Vhd!WriteFooter, Vhd!driver
<1>2. Vhd!TypeOK'
  BY <1>1, Zenon DEF Vhd!TypeOK
<1>3. VhdTables'
  BY <1>1, Zenon DEF VhdTables, VhdTarget, Vhd!Injective
<1>4. VhdEnds'
  BY <1>1, Zenon DEF VhdEnds, Vhd!FooterEndsFile, Vhd!EndsAt
<1>5. VhdFresh' /\ VhdMarked'
  BY <1>1, Zenon DEF VhdFresh, VhdMarked, VhdTarget
<1>6. Vhd!Content' = Vhd!Content
  BY <1>1, VhdSameContent, Zenon
<1>7. VhdVersions'
  BY <1>1, <1>6, Zenon DEF VhdVersions
<1> QED  BY <1>1, <1>2, <1>3, <1>4, <1>5, <1>6, <1>7, Zenon

\* The entry of the table: the block has a place now, and it holds zeros.
LEMMA VhdWritesTableEntry ==
  ASSUME VhdIInv, Vhd!WriteTableEntry
  PROVE  VhdIInv' /\ UNCHANGED <<Vhd!Content, vhd_versions, vhd_reply>>
<1> USE DEF VhdIInv
<1> DEFINE b == VhdTarget
           n == free - 1
<1>1. /\ step = "bat" /\ step' = "sector"
      /\ bat' = [bat EXCEPT ![b] = pagetable[b]]
      /\ interrupted' = FALSE
      /\ UNCHANGED <<bitmap, vhd_data, footer_at, vhd_open, pagetable, free, last_bitmap, target,
                     vhd_reply, vhd_versions>>
  BY Zenon DEF Vhd!WriteTableEntry, Vhd!driver, VhdTarget
<1>2. /\ bat[b] = Vhd!Unallocated
      /\ pagetable = [bat EXCEPT ![b] = n]
      /\ Vhd!EndsAt(bat, n)
      /\ footer_at = free
      /\ free > 0
  BY <1>1, Zenon DEF VhdTables, VhdEnds
<1>3. b \in Vhd!Block
  BY VhdTargetType, Zenon
<1>4. n \in Vhd!Place /\ n \in Int /\ free = n + 1
  BY <1>2, VhdConstants, SMT DEF Vhd!TypeOK, Vhd!Place
<1>5. VhdTarget' = b
  BY <1>1, Zenon DEF VhdTarget
<1> HIDE DEF b, n
<1>6. /\ bat' = pagetable
      /\ bat'[b] = n
      /\ \A c \in Vhd!Block \ {b} : bat'[c] = bat[c]
      /\ bat' \in [Vhd!Block -> Vhd!Place \cup {Vhd!Unallocated}]
  BY <1>1, <1>2, <1>3, <1>4, Zenon DEF Vhd!TypeOK
<1>7. \A c \in Vhd!Block : bat[c] \in Int /\ bat[c] < n
  <2>1. \A c \in Vhd!Block : bat[c] \in Vhd!Place \cup {Vhd!Unallocated}
    BY Zenon DEF Vhd!TypeOK
  <2>2. \A c \in Vhd!Block : bat[c] \in Int
    BY <2>1, SMT DEF Vhd!Place, Vhd!Unallocated
  <2> QED  BY <1>2, <2>2, Zenon DEF Vhd!EndsAt
<1>8. Vhd!TypeOK'
  BY <1>1, <1>6, Zenon DEF Vhd!TypeOK
<1>9. Vhd!Injective(bat')
  <2>1. \A c \in Vhd!Block \ {b} : bat'[c] # n
    BY <1>4, <1>6, <1>7, SMT
  <2>2. \A c, d \in Vhd!Block : bat[c] = bat[d] /\ bat[c] # Vhd!Unallocated => c = d
    BY Zenon DEF VhdTables, Vhd!Injective
  <2>3. ASSUME NEW c \in Vhd!Block, NEW d \in Vhd!Block,
               bat'[c] = bat'[d] /\ bat'[c] # Vhd!Unallocated
        PROVE  c = d
    BY <1>6, <2>1, <2>2, <2>3, Zenon
  <2> QED  BY <2>3, Zenon DEF Vhd!Injective
<1>10. n # Vhd!Unallocated
  BY <1>4, VhdPlacesAreNumbers, Zenon
<1>11. VhdTables'
  BY <1>1, <1>5, <1>6, <1>9, <1>10, Zenon DEF VhdTables, Vhd!Injective
<1>12. Vhd!EndsAt(bat', free)
  <2>1. ASSUME NEW c \in Vhd!Block
        PROVE  bat'[c] < free
    <3>1. CASE c = b
      BY <1>4, <1>6, <3>1, SMT
    <3>2. CASE c # b
      <4>1. bat'[c] = bat[c]
        BY <1>6, <3>2, Zenon
      <4> QED  BY <1>4, <1>7, <4>1, SMT
    <3> QED  BY <3>1, <3>2
  <2>2. bat'[b] = free - 1
    BY <1>4, <1>6, SMT
  <2> QED  BY <1>3, <2>1, <2>2, Zenon DEF Vhd!EndsAt
<1>13. VhdEnds'
  <2>1. Vhd!EndsAt(bat', free') /\ footer_at' = free'
    BY <1>1, <1>2, <1>12, Zenon
  <2> QED  BY <1>1, <2>1, Zenon DEF VhdEnds, Vhd!FooterEndsFile, Vhd!EndsAt
<1>14. VhdFresh'
  <2>1. ASSUME NEW p \in Vhd!Place, \A c \in Vhd!Block : bat'[c] < p
        PROVE  \A i \in Vhd!Slot : vhd_data'[p][i] = Zero
    <3>1. n < p
      BY <1>3, <1>6, <2>1, Zenon
    <3>2. p \in Int
      BY SMT DEF Vhd!Place
    <3>3. \A c \in Vhd!Block : bat[c] < p
      BY <1>4, <1>7, <3>1, <3>2, SMT
    <3> QED  BY <1>1, <3>3, Zenon DEF VhdFresh
  <2> QED  BY <2>1, Zenon DEF VhdFresh
<1>15. VhdMarked'
  BY <1>1, <1>5, Zenon DEF VhdMarked, b
<1>16. ASSUME NEW t \in Vhd!Sector
       PROVE  Vhd!Content'[t] = Vhd!Content[t]
  <2> DEFINE c == Vhd!BlockOf(t)
             i == Vhd!SlotOf(t)
  <2>1. c \in Vhd!Block /\ i \in Vhd!Slot
    BY VhdSector
  <2>2. Vhd!Content[t] = VhdAt(bat, vhd_data, c, i)
    BY VhdContent, Zenon
  <2>3. Vhd!Content'[t] = VhdAt(bat', vhd_data, c, i)
    BY <1>1, VhdContentNext, Zenon
  <2> HIDE DEF c, i
  <2>4. CASE c = b
    <3>1. vhd_data[n][i] = Zero
      BY <1>4, <1>7, <2>1, Zenon DEF VhdFresh
    <3> QED  BY <1>2, <1>6, <1>10, <2>2, <2>3, <2>4, <3>1, Zenon DEF VhdAt
  <2>5. CASE c # b
    BY <1>6, <2>1, <2>2, <2>3, <2>5, Zenon DEF VhdAt
  <2> QED  BY <2>4, <2>5
<1>17. Vhd!Content' = Vhd!Content
  BY <1>16, VhdContent, VhdContentNext, Zenon
<1>18. VhdVersions'
  BY <1>1, <1>17, Zenon DEF VhdVersions
<1> QED  BY <1>1, <1>8, <1>11, <1>13, <1>14, <1>15, <1>17, <1>18, Zenon

\* The sector is written: its place is marked, and no other sector is in it.
LEMMA VhdWritesData ==
  ASSUME VhdIInv, Vhd!WriteData
  PROVE  /\ VhdIInv'
         /\ Vhd!Disk!Write(target.sector, target.value)
         /\ \A p \in Vhd!Place : vhd_data'[p] # vhd_data[p] => bitmap[p]
<1> USE DEF VhdIInv
<1> DEFINE s == target.sector
           v == target.value
           b == Vhd!BlockOf(s)
           i == Vhd!SlotOf(s)
           p == bat[b]
<1>1. /\ step = "sector" /\ step' = "idle"
      /\ vhd_data' = [vhd_data EXCEPT ![pagetable[b]][i] = v]
      /\ vhd_versions' = [vhd_versions EXCEPT ![s] = @ \cup {v}]
      /\ UNCHANGED <<bat, bitmap, footer_at, vhd_open, pagetable, free, last_bitmap, target,
                     vhd_reply, interrupted>>
  BY Zenon DEF Vhd!WriteData, Vhd!driver
<1>2. /\ vhd_open
      /\ pagetable = bat
      /\ p # Vhd!Unallocated
  BY <1>1, Zenon DEF VhdTables, VhdTarget
<1>3. /\ s \in Vhd!Sector /\ v \in Value
      /\ b \in Vhd!Block /\ i \in Vhd!Slot
  BY VhdTargetType, VhdSector, Zenon
<1>4. p \in Vhd!Place
  BY <1>2, <1>3, Zenon DEF Vhd!TypeOK
<1>5. bitmap[p] = TRUE
  BY <1>1, <1>2, Zenon DEF VhdMarked, VhdTarget
<1> HIDE DEF p
<1>6. vhd_data' = [vhd_data EXCEPT ![p][i] = v]
  BY <1>1, <1>2, Zenon DEF p
<1> HIDE DEF s, v, b, i
<1>7. /\ vhd_data' \in [Vhd!Place -> [Vhd!Slot -> Value]]
      /\ vhd_data'[p][i] = v
      /\ \A j \in Vhd!Slot : j # i => vhd_data'[p][j] = vhd_data[p][j]
      /\ \A q \in Vhd!Place : q # p => vhd_data'[q] = vhd_data[q]
  <2>1. vhd_data \in [Vhd!Place -> [Vhd!Slot -> Value]]
    BY Zenon DEF Vhd!TypeOK
  <2>2. vhd_data[p] \in [Vhd!Slot -> Value]
    BY <1>4, <2>1, Zenon
  <2> DEFINE w == [vhd_data[p] EXCEPT ![i] = v]
  <2>3. /\ w \in [Vhd!Slot -> Value] /\ w[i] = v
        /\ \A j \in Vhd!Slot : j # i => w[j] = vhd_data[p][j]
    BY <1>3, <2>2, Zenon
  <2>4. vhd_data' = [vhd_data EXCEPT ![p] = w]
    BY <1>6, Zenon
  <2> HIDE DEF w
  <2> QED  BY <1>4, <2>1, <2>3, <2>4, Zenon
<1>8. /\ vhd_versions' \in [Vhd!Sector -> SUBSET Value]
      /\ vhd_versions'[s] = vhd_versions[s] \cup {v}
      /\ \A t \in Vhd!Sector : t # s => vhd_versions'[t] = vhd_versions[t]
  <2>1. vhd_versions \in [Vhd!Sector -> SUBSET Value]
    BY Zenon DEF Vhd!TypeOK
  <2>2. vhd_versions[s] \cup {v} \in SUBSET Value
    BY <1>3, <2>1, Zenon
  <2> QED  BY <1>1, <1>3, <2>1, <2>2, Zenon
<1>9. ASSUME NEW t \in Vhd!Sector
      PROVE  Vhd!Content'[t] = IF t = s THEN v ELSE Vhd!Content[t]
  <2> DEFINE c == Vhd!BlockOf(t)
             j == Vhd!SlotOf(t)
  <2>1. c \in Vhd!Block /\ j \in Vhd!Slot
    BY VhdSector
  <2>2. Vhd!Content[t] = VhdAt(bat, vhd_data, c, j)
    BY VhdContent, Zenon
  <2>3. Vhd!Content'[t] = VhdAt(bat, vhd_data', c, j)
    BY <1>1, VhdContentNext, Zenon
  <2>4. c = b /\ j = i => t = s
    BY <1>3, VhdSameSector, Zenon DEF b, i
  <2>5. t = s => c = b /\ j = i
    BY Zenon DEF b, i
  <2> HIDE DEF c, j
  <2>6. CASE t = s
    BY <1>2, <1>7, <2>3, <2>5, <2>6, Zenon DEF VhdAt, p
  <2>7. CASE t # s
    <3>1. CASE bat[c] = Vhd!Unallocated
      BY <2>2, <2>3, <2>7, <3>1, Zenon DEF VhdAt
    <3>2. CASE bat[c] # Vhd!Unallocated
      <4>1. bat[c] \in Vhd!Place
        BY <2>1, <3>2, Zenon DEF Vhd!TypeOK
      <4>2. bat[c] = p => c = b
        BY <1>3, <2>1, <3>2, Zenon DEF VhdTables, Vhd!Injective, p
      <4>3. vhd_data'[bat[c]][j] = vhd_data[bat[c]][j]
        BY <1>7, <2>1, <2>4, <2>7, <4>1, <4>2, Zenon
      <4> QED  BY <2>2, <2>3, <2>7, <3>2, <4>3, Zenon DEF VhdAt
    <3> QED  BY <3>1, <3>2
  <2> QED  BY <2>6, <2>7
<1>10. Vhd!Content' = [Vhd!Content EXCEPT ![s] = v]
  BY <1>3, <1>9, VhdContent, VhdContentNext, Zenon
<1>11. Vhd!TypeOK'
  BY <1>1, <1>7, <1>8, Zenon DEF Vhd!TypeOK
<1>12. VhdTables'
  BY <1>1, <1>2, Zenon DEF VhdTables, Vhd!Injective
<1>13. VhdEnds'
  BY <1>1, Zenon DEF VhdEnds, Vhd!FooterEndsFile, Vhd!EndsAt
<1>14. VhdFresh'
  <2>1. ASSUME NEW q \in Vhd!Place, \A c \in Vhd!Block : bat[c] < q
        PROVE  \A j \in Vhd!Slot : vhd_data'[q][j] = Zero
    <3>1. p < q
      BY <1>3, <2>1, Zenon DEF p
    <3>2. p # q
      BY <1>4, <2>1, <3>1, VhdPlacesAreNumbers, SMT
    <3>3. vhd_data'[q] = vhd_data[q]
      BY <1>7, <3>2, Zenon
    <3> QED  BY <2>1, <3>3, Zenon DEF VhdFresh
  <2> QED  BY <1>1, <2>1, Zenon DEF VhdFresh
<1>15. VhdMarked'
  BY <1>1, Zenon DEF VhdMarked
<1>16. VhdVersions'
  BY <1>8, <1>9, Zenon DEF VhdVersions
<1>17. Vhd!Disk!Write(s, v)
  BY <1>1, <1>10, Zenon DEF Vhd!Disk!Write
<1>18. \A q \in Vhd!Place : vhd_data'[q] # vhd_data[q] => bitmap[q]
  BY <1>5, <1>7, Zenon
<1> QED  BY <1>11, <1>12, <1>13, <1>14, <1>15, <1>16, <1>17, <1>18, Zenon DEF s, v

\* Single versions of values are as well typed as the values.
LEMMA VhdOnlyType ==
  ASSUME NEW d, d \in [Vhd!Sector -> Value]
  PROVE  Vhd!Only(d) \in [Vhd!Sector -> SUBSET Value]
BY Zenon DEF Vhd!Only

\* Once the image is not open, the versions are what it holds.
LEMMA VhdOnly ==
  ASSUME UNCHANGED <<bat, vhd_data>>, Vhd!TypeOK, vhd_versions' = Vhd!Only(Vhd!Content')
  PROVE  /\ VhdVersions'
         /\ vhd_versions' \in [Vhd!Sector -> SUBSET Value]
         /\ vhd_versions' = Vhd!Disk!Only(Vhd!Content)
         /\ Vhd!Content' = Vhd!Content
         /\ Vhd!Content \in [Vhd!Sector -> Value]
<1>1. Vhd!Content' = Vhd!Content
  BY VhdSameContent, Zenon
<1>2. Vhd!Content \in [Vhd!Sector -> Value]
  BY VhdContentType, Zenon DEF Vhd!TypeOK
<1>3. vhd_versions' = [t \in Vhd!Sector |-> {Vhd!Content[t]}]
  BY <1>1, Zenon DEF Vhd!Only
<1>4. vhd_versions' \in [Vhd!Sector -> SUBSET Value]
  BY <1>1, <1>2, VhdOnlyType, Zenon
<1>5. VhdVersions'
  BY <1>1, <1>3, Zenon DEF VhdVersions
<1> QED  BY <1>1, <1>2, <1>3, <1>4, <1>5, Zenon DEF Vhd!Disk!Only

\* close() has nothing to write.
LEMMA VhdCloses ==
  ASSUME VhdIInv, Vhd!Close
  PROVE  VhdIInv' /\ Vhd!Disk!Close
<1> USE DEF VhdIInv
<1>1. /\ vhd_open /\ step = "idle"
      /\ vhd_open' = FALSE
      /\ vhd_versions' = Vhd!Only(Vhd!Content)
      /\ UNCHANGED <<bat, bitmap, vhd_data, footer_at, pagetable, free, last_bitmap, step, target,
                     vhd_reply, interrupted>>
  BY Zenon DEF Vhd!Close, Vhd!Idle, Vhd!file, Vhd!driver
<1>2. vhd_versions' = Vhd!Only(Vhd!Content')
  BY <1>1, VhdSameContent, Zenon
<1>3. /\ VhdVersions'
      /\ vhd_versions' \in [Vhd!Sector -> SUBSET Value]
      /\ vhd_versions' = Vhd!Disk!Only(Vhd!Content)
      /\ Vhd!Content' = Vhd!Content
  BY <1>1, <1>2, VhdOnly, Zenon
<1>4. Vhd!TypeOK'
  BY <1>1, <1>3, Zenon DEF Vhd!TypeOK
<1>5. VhdTables' /\ VhdEnds' /\ VhdFresh' /\ VhdMarked'
  BY <1>1, Zenon DEF VhdTables, VhdEnds, VhdFresh, VhdMarked, VhdTarget,
     Vhd!Injective, Vhd!EndsAt, Vhd!FooterEndsFile
<1> QED  BY <1>1, <1>3, <1>4, <1>5, Zenon DEF Vhd!Disk!Close

\* The program ends, possibly within a write.
LEMMA VhdCrashes ==
  ASSUME VhdIInv, Vhd!Crash
  PROVE  VhdIInv' /\ Vhd!Disk!Crash
<1> USE DEF VhdIInv
<1>1. /\ vhd_open
      /\ vhd_open' = FALSE
      /\ step' = "idle"
      /\ vhd_versions' = Vhd!Only(Vhd!Content)
      /\ interrupted' = (interrupted \/ step \in {"footer", "bat"})
      /\ UNCHANGED <<bat, bitmap, vhd_data, footer_at, pagetable, free, last_bitmap, target, vhd_reply>>
  BY Zenon DEF Vhd!Crash, Vhd!file, Vhd!driver
<1>2. vhd_versions' = Vhd!Only(Vhd!Content')
  BY <1>1, VhdSameContent, Zenon
<1>3. /\ VhdVersions'
      /\ vhd_versions' \in [Vhd!Sector -> SUBSET Value]
      /\ vhd_versions' = Vhd!Disk!Only(Vhd!Content)
      /\ Vhd!Content' = Vhd!Content
      /\ Vhd!Content \in [Vhd!Sector -> Value]
  BY <1>1, <1>2, VhdOnly, Zenon
<1>4. Vhd!TypeOK'
  BY <1>1, <1>3, Zenon DEF Vhd!TypeOK
<1>5. VhdTables' /\ VhdFresh' /\ VhdMarked'
  BY <1>1, Zenon DEF VhdTables, VhdFresh, VhdMarked, Vhd!Injective
<1>6. VhdEnds'
  <2>1. ~interrupted' => step \in {"idle", "sector"} /\ ~interrupted
    BY <1>1, Zenon DEF Vhd!TypeOK
  <2>2. ~interrupted' => Vhd!EndsAt(bat, footer_at)
    BY <2>1, Zenon DEF VhdEnds, Vhd!FooterEndsFile
  <2> QED  BY <1>1, <2>2, Zenon DEF VhdEnds, Vhd!EndsAt, Vhd!FooterEndsFile
<1>7. Vhd!Disk!Crash
  <2>1. vhd_versions' = Vhd!Disk!Only(Vhd!Content')
    BY <1>3, Zenon
  <2> QED  BY <1>1, <1>3, <2>1, Zenon DEF Vhd!Disk!Crash, VhdVersions
<1> QED  BY <1>3, <1>4, <1>5, <1>6, <1>7, Zenon

\* Any image that is found keeps the invariant, and is a disk.
LEMMA VhdStarts ==
  ASSUME Vhd!Init
  PROVE  VhdIInv /\ Vhd!Disk!Init
<1>1. /\ bat \in [Vhd!Block -> Vhd!Place \cup {Vhd!Unallocated}]
      /\ Vhd!Injective(bat)
      /\ \E n \in 0 .. VhdPlaces : Vhd!EndsAt(bat, n) /\ free = n
      /\ bitmap \in [Vhd!Place -> BOOLEAN]
      /\ vhd_data \in [Vhd!Place -> [Vhd!Slot -> Value]]
      /\ \A p \in Vhd!Place : p >= free => vhd_data[p] = [i \in Vhd!Slot |-> Zero]
      /\ footer_at = free
      /\ vhd_open = FALSE
      /\ pagetable = bat
      /\ last_bitmap = Vhd!Nowhere
      /\ step = "idle"
      /\ target = [sector |-> 0, value |-> Zero]
      /\ vhd_reply = Zero
      /\ vhd_versions = Vhd!Only(Vhd!Content)
      /\ interrupted = FALSE
  BY Zenon DEF Vhd!Init
<1>2. free \in 0 .. VhdPlaces /\ Vhd!EndsAt(bat, free)
  BY <1>1, Zenon
<1>3. Vhd!Content \in [Vhd!Sector -> Value]
  BY <1>1, VhdContentType, Zenon
<1>4. vhd_versions = [t \in Vhd!Sector |-> {Vhd!Content[t]}]
  BY <1>1, Zenon DEF Vhd!Only
<1>5. Vhd!TypeOK
  <2>1. vhd_versions \in [Vhd!Sector -> SUBSET Value]
    BY <1>3, <1>4, Zenon
  <2>2. target \in [sector : Vhd!Sector, value : Value]
    BY <1>1, VhdFirstSector, VhdConstants, Zenon
  <2> QED  BY <1>1, <1>2, <2>1, <2>2, VhdConstants, Zenon DEF Vhd!TypeOK
<1>6. VhdTables /\ VhdMarked
  BY <1>1, Zenon DEF VhdTables, VhdMarked
<1>7. VhdEnds
  BY <1>1, <1>2, Zenon DEF VhdEnds, Vhd!FooterEndsFile
<1>8. VhdFresh
  <2>1. ASSUME NEW p \in Vhd!Place, \A c \in Vhd!Block : bat[c] < p
        PROVE  \A i \in Vhd!Slot : vhd_data[p][i] = Zero
    <3>1. p \in Nat /\ free \in Nat
      BY <1>2, VhdPlacesAreNumbers, VhdConstants, SMT
    <3>2. p >= free
      <4>1. CASE free > 0
        <5>1. PICK c \in Vhd!Block : bat[c] = free - 1
          BY <1>2, <4>1, Zenon DEF Vhd!EndsAt
        <5>2. bat[c] < p
          BY <2>1, Zenon
        <5>3. free - 1 < p
          BY <5>1, <5>2, Zenon
        <5> QED  BY <3>1, <5>3, SMT
      <4>2. CASE ~(free > 0)
        BY <3>1, <4>2, SMT
      <4> QED  BY <4>1, <4>2
    <3>3. vhd_data[p] = [i \in Vhd!Slot |-> Zero]
      BY <1>1, <3>2, Zenon
    <3> QED  BY <3>3, Zenon
  <2> QED  BY <2>1, Zenon DEF VhdFresh
<1>9. VhdVersions
  BY <1>4, Zenon DEF VhdVersions
<1>10. Vhd!Disk!Init
  <2>1. vhd_versions = Vhd!Disk!Only(Vhd!Content)
    BY <1>1, Zenon DEF Vhd!Only, Vhd!Disk!Only
  <2> QED  BY <1>1, <1>3, <2>1, VhdConstants, Zenon DEF Vhd!Disk!Init
<1> QED  BY <1>5, <1>6, <1>7, <1>8, <1>9, <1>10, Zenon DEF VhdIInv

\* Every step keeps the invariant, is one of the disk, and writes to no place
\* that is not marked.
LEMMA VhdSteps ==
  ASSUME VhdIInv, Vhd!Next
  PROVE  /\ VhdIInv'
         /\ [Vhd!Disk!Next]_(Vhd!Disk!vars)
         /\ \A p \in Vhd!Place : vhd_data'[p] # vhd_data[p] => bitmap[p]
<1>1. CASE Vhd!Open
  <2>1. vhd_data' = vhd_data
    BY <1>1, Zenon DEF Vhd!Open, Vhd!file
  <2> QED  BY <1>1, <2>1, VhdOpens, Zenon DEF Vhd!Disk!vars
<1>2. ASSUME NEW s \in Vhd!Sector, Vhd!ReadSector(s)
      PROVE  /\ VhdIInv' /\ [Vhd!Disk!Next]_(Vhd!Disk!vars)
             /\ \A p \in Vhd!Place : vhd_data'[p] # vhd_data[p] => bitmap[p]
  <2>1. vhd_data' = vhd_data
    BY <1>2, Zenon DEF Vhd!ReadSector, Vhd!file
  <2> QED  BY <1>2, <2>1, VhdReads, Zenon DEF Vhd!Disk!Next
<1>3. ASSUME NEW s \in Vhd!Sector, NEW v \in Value, Vhd!WriteInPlace(s, v)
      PROVE  /\ VhdIInv' /\ [Vhd!Disk!Next]_(Vhd!Disk!vars)
             /\ \A p \in Vhd!Place : vhd_data'[p] # vhd_data[p] => bitmap[p]
  <2>1. vhd_data' = vhd_data
    BY <1>3, Zenon DEF Vhd!WriteInPlace
  <2> QED  BY <1>3, <2>1, VhdWritesInPlace, Zenon DEF Vhd!Disk!vars
<1>4. ASSUME NEW s \in Vhd!Sector, NEW v \in Value, Vhd!WriteNewBlock(s, v)
      PROVE  /\ VhdIInv' /\ [Vhd!Disk!Next]_(Vhd!Disk!vars)
             /\ \A p \in Vhd!Place : vhd_data'[p] # vhd_data[p] => bitmap[p]
  <2>1. vhd_data' = vhd_data
    BY <1>4, Zenon DEF Vhd!WriteNewBlock
  <2> QED  BY <1>4, <2>1, VhdWritesNewBlock, Zenon DEF Vhd!Disk!vars
<1>5. CASE Vhd!WriteFooter
  <2>1. vhd_data' = vhd_data
    BY <1>5, Zenon DEF Vhd!WriteFooter
  <2> QED  BY <1>5, <2>1, VhdWritesFooter, Zenon DEF Vhd!Disk!vars
<1>6. CASE Vhd!WriteTableEntry
  <2>1. vhd_data' = vhd_data
    BY <1>6, Zenon DEF Vhd!WriteTableEntry
  <2> QED  BY <1>6, <2>1, VhdWritesTableEntry, Zenon DEF Vhd!Disk!vars
<1>7. CASE Vhd!WriteData
  <2>1. target.sector \in Vhd!Sector /\ target.value \in Value
    BY VhdTargetType, Zenon DEF VhdIInv
  <2> QED  BY <1>7, <2>1, VhdWritesData, Zenon DEF Vhd!Disk!Next
<1>8. CASE Vhd!Close
  <2>1. vhd_data' = vhd_data
    BY <1>8, Zenon DEF Vhd!Close, Vhd!file
  <2> QED  BY <1>8, <2>1, VhdCloses, Zenon DEF Vhd!Disk!Next
<1>9. CASE Vhd!Crash
  <2>1. vhd_data' = vhd_data
    BY <1>9, Zenon DEF Vhd!Crash, Vhd!file
  <2> QED  BY <1>9, <2>1, VhdCrashes, Zenon DEF Vhd!Disk!Next
<1> QED  BY <1>1, <1>2, <1>3, <1>4, <1>5, <1>6, <1>7, <1>8, <1>9, Zenon DEF Vhd!Next

-----------------------------------------------------------------------------
(* The VMDK image.                                                         *)

\* What the place p of a grain holds at i.
VmdkAt(p, places, i) == IF p = Vmdk!Unallocated THEN Zero ELSE places[p][i]

\* What the file holds of a sector.
VmdkHeld(s) == VmdkAt(Vmdk!PlaceOf(Vmdk!GrainOf(s)), vmdk_data, Vmdk!SlotOf(s))

\* What grain g reads back at i: the one in memory hides the one in the file.
VmdkNow(g, i) ==
  IF vmdk_open /\ g = tlb_grain THEN tlb[i] ELSE VmdkAt(Vmdk!PlaceOf(g), vmdk_data, i)

\* The grain in memory belongs to a table that exists; the table in memory is the
\* one in the file.
VmdkMemory ==
  /\ vmdk_open /\ vmdk_dirty => tlb_grain # Vmdk!NoGrain
  /\ vmdk_open /\ tlb_grain # Vmdk!NoGrain => Vmdk!Exists(Vmdk!TableOf(tlb_grain))
  /\ vmdk_open /\ slb_cache_loaded => slb_cache = Vmdk!TableInUse(current_flb_index)

\* No grain lies behind the end of the file, no two share a place.
VmdkGrains ==
  /\ \A g \in Vmdk!Grain : Vmdk!PlaceOf(g) < end
  /\ \A g, h \in Vmdk!Grain :
       Vmdk!PlaceOf(g) = Vmdk!PlaceOf(h) /\ Vmdk!PlaceOf(g) # Vmdk!Unallocated => g = h

\* The file is positioned at the grain in memory, which is what its place holds
\* unless it was written.
VmdkPosition ==
  vmdk_open /\ tlb_grain # Vmdk!NoGrain =>
    /\ position = Vmdk!PlaceOf(tlb_grain)
    /\ position # Vmdk!Unallocated
    /\ ~vmdk_dirty => tlb = vmdk_data[position]

\* What a sector holds, and what the file has of it, it held since the last close.
VmdkVersions ==
  \A s \in Vmdk!Sector : Vmdk!Content[s] \in vmdk_versions[s] /\ VmdkHeld(s) \in vmdk_versions[s]

\* What holds of the VMDK image; the parts about positions only until a table is
\* missed.
VmdkIInv ==
  /\ Vmdk!TypeOK
  /\ VmdkMemory
  /\ VmdkGrains
  /\ Vmdk!CopyNeverAhead
  /\ ~missed => VmdkPosition /\ VmdkVersions

\* The types of tables and of places.
TablesType == [Vmdk!Table -> [Vmdk!Entry -> Vmdk!Place \cup {Vmdk!Unallocated}]]
PlacesType == [Vmdk!Place -> [Vmdk!Slot -> Value]]

\* What is assumed of the constants.
LEMMA VmdkConstants ==
  /\ VmdkTables \in Nat \ {0}
  /\ VmdkTableSize \in Nat \ {0}
  /\ VmdkGrainSize \in Nat \ {0}
  /\ Zero \in Value
  /\ InDirectory \subseteq Vmdk!Table
  /\ InCopy \subseteq Vmdk!Table
  /\ VmdkPlaces \in Nat
BY ConstantsAssumption DEF Vmdk!ConstantsOK

\* The grain of a sector, and its place in it.
LEMMA VmdkSector ==
  ASSUME NEW s \in Vmdk!Sector
  PROVE  Vmdk!GrainOf(s) \in Vmdk!Grain /\ Vmdk!SlotOf(s) \in Vmdk!Slot
<1> DEFINE n == VmdkTables * VmdkTableSize
<1>1. n \in Nat \ {0}
  <2>1. n \in Int /\ n >= 1
    BY VmdkConstants, SMT
  <2> QED  BY <2>1, SMT
<1>2. s \in 0 .. n * VmdkGrainSize - 1
  BY Zenon DEF Vmdk!Sector
<1> HIDE DEF n
<1>3. s \div VmdkGrainSize \in 0 .. n - 1 /\ s % VmdkGrainSize \in 0 .. VmdkGrainSize - 1
  BY <1>1, <1>2, VmdkConstants, PlaceInBlocks, Zenon
<1> QED  BY <1>3, Zenon DEF n, Vmdk!Grain, Vmdk!Slot, Vmdk!GrainOf, Vmdk!SlotOf

\* No two sectors have both in common.
LEMMA VmdkSameSector ==
  ASSUME NEW s \in Vmdk!Sector, NEW t \in Vmdk!Sector,
         Vmdk!GrainOf(s) = Vmdk!GrainOf(t), Vmdk!SlotOf(s) = Vmdk!SlotOf(t)
  PROVE  s = t
<1> DEFINE n == VmdkTables * VmdkTableSize
<1>1. n \in Nat \ {0}
  <2>1. n \in Int /\ n >= 1
    BY VmdkConstants, SMT
  <2> QED  BY <2>1, SMT
<1>2. s \in 0 .. n * VmdkGrainSize - 1 /\ t \in 0 .. n * VmdkGrainSize - 1
  BY Zenon DEF Vmdk!Sector
<1> HIDE DEF n
<1>3. /\ s = (s \div VmdkGrainSize) * VmdkGrainSize + (s % VmdkGrainSize)
      /\ t = (t \div VmdkGrainSize) * VmdkGrainSize + (t % VmdkGrainSize)
  BY <1>1, <1>2, VmdkConstants, PlaceInBlocks, Zenon
<1> QED  BY <1>3, Zenon DEF Vmdk!GrainOf, Vmdk!SlotOf

\* The table of a grain, and its entry.
LEMMA VmdkGrain ==
  ASSUME NEW g \in Vmdk!Grain
  PROVE  Vmdk!TableOf(g) \in Vmdk!Table /\ Vmdk!EntryOf(g) \in Vmdk!Entry
BY VmdkConstants, PlaceInBlocks, Zenon
   DEF Vmdk!Grain, Vmdk!Table, Vmdk!Entry, Vmdk!TableOf, Vmdk!EntryOf

\* No two grains have both in common.
LEMMA VmdkSameGrain ==
  ASSUME NEW g \in Vmdk!Grain, NEW h \in Vmdk!Grain,
         Vmdk!TableOf(g) = Vmdk!TableOf(h), Vmdk!EntryOf(g) = Vmdk!EntryOf(h)
  PROVE  g = h
<1>1. /\ g = (g \div VmdkTableSize) * VmdkTableSize + (g % VmdkTableSize)
      /\ h = (h \div VmdkTableSize) * VmdkTableSize + (h % VmdkTableSize)
  BY VmdkConstants, PlaceInBlocks, Zenon DEF Vmdk!Grain
<1> QED  BY <1>1, Zenon DEF Vmdk!TableOf, Vmdk!EntryOf

\* A place is a positive number; neither a place nor a grain is the value that
\* stands for none.
LEMMA VmdkNumbers ==
  /\ Vmdk!Unallocated \notin Vmdk!Place
  /\ Vmdk!NoGrain \notin Vmdk!Grain
  /\ \A p \in Vmdk!Place : p \in Nat /\ p > 0 /\ p <= VmdkPlaces
<1>1. VmdkTables * VmdkTableSize \in Int
  BY VmdkConstants, SMT
<1>2. Vmdk!NoGrain \notin Vmdk!Grain
  BY <1>1, SMT DEF Vmdk!NoGrain, Vmdk!Grain
<1>3. /\ Vmdk!Unallocated \notin Vmdk!Place
      /\ \A p \in Vmdk!Place : p \in Nat /\ p > 0 /\ p <= VmdkPlaces
  BY VmdkConstants, SMT DEF Vmdk!Unallocated, Vmdk!Place
<1> QED  BY <1>2, <1>3

\* The table in use has entries, and the place of a grain is one.
LEMMA VmdkPlaceType ==
  ASSUME table \in TablesType, table_copy \in TablesType
  PROVE  /\ \A t \in Vmdk!Table :
              Vmdk!TableInUse(t) \in [Vmdk!Entry -> Vmdk!Place \cup {Vmdk!Unallocated}]
         /\ \A g \in Vmdk!Grain : Vmdk!PlaceOf(g) \in Vmdk!Place \cup {Vmdk!Unallocated}
<1>1. ASSUME NEW t \in Vmdk!Table
      PROVE  Vmdk!TableInUse(t) \in [Vmdk!Entry -> Vmdk!Place \cup {Vmdk!Unallocated}]
  BY Zenon DEF TablesType, Vmdk!TableInUse
<1> QED  BY <1>1, VmdkGrain, Zenon DEF Vmdk!PlaceOf

\* The contents, now and in the next state.
LEMMA VmdkContent ==
  /\ Vmdk!Content = [s \in Vmdk!Sector |-> Vmdk!Content[s]]
  /\ \A s \in Vmdk!Sector :
       Vmdk!Content[s] = VmdkNow(Vmdk!GrainOf(s), Vmdk!SlotOf(s))
BY Zenon DEF Vmdk!Content, VmdkNow, VmdkAt

\* ... in the next state.
LEMMA VmdkContentNext ==
  /\ Vmdk!Content' = [s \in Vmdk!Sector |-> Vmdk!Content'[s]]
  /\ \A s \in Vmdk!Sector :
       Vmdk!Content'[s] = VmdkNow(Vmdk!GrainOf(s), Vmdk!SlotOf(s))'
BY Zenon DEF Vmdk!Content, VmdkNow, VmdkAt

\* They are values.
LEMMA VmdkNowType ==
  ASSUME Vmdk!TypeOK, NEW g \in Vmdk!Grain, NEW i \in Vmdk!Slot
  PROVE  VmdkNow(g, i) \in Value
<1> DEFINE p == Vmdk!PlaceOf(g)
<1>1. p \in Vmdk!Place \cup {Vmdk!Unallocated}
  BY VmdkPlaceType, Zenon DEF TablesType, Vmdk!TypeOK
<1> HIDE DEF p
<1>2. vmdk_data \in [Vmdk!Place -> [Vmdk!Slot -> Value]] /\ tlb \in [Vmdk!Slot -> Value]
  BY Zenon DEF Vmdk!TypeOK
<1>3. p # Vmdk!Unallocated => vmdk_data[p] \in [Vmdk!Slot -> Value]
  BY <1>1, <1>2, Zenon
<1>4. VmdkAt(p, vmdk_data, i) \in Value
  BY <1>3, VmdkConstants, Zenon DEF VmdkAt
<1> QED  BY <1>2, <1>4, Zenon DEF VmdkNow, p

\* The guest's disk holds values.
LEMMA VmdkContentType ==
  ASSUME Vmdk!TypeOK
  PROVE  Vmdk!Content \in [Vmdk!Sector -> Value]
BY VmdkSector, VmdkContent, VmdkNowType, Zenon

\* ... in the next state too, which need not be known to be well typed as a
\* whole.
LEMMA VmdkFileType ==
  ASSUME table' \in TablesType, table_copy' \in TablesType, vmdk_data' \in PlacesType,
         vmdk_open' = FALSE
  PROVE  Vmdk!Content' \in [Vmdk!Sector -> Value]
<1>1. ASSUME NEW s \in Vmdk!Sector
      PROVE  Vmdk!Content'[s] \in Value
  <2> DEFINE p == Vmdk!PlaceOf(Vmdk!GrainOf(s))'
             i == Vmdk!SlotOf(s)
  <2>1. Vmdk!GrainOf(s) \in Vmdk!Grain /\ i \in Vmdk!Slot
    BY VmdkSector
  <2>2. p \in Vmdk!Place \cup {Vmdk!Unallocated}
    BY <2>1, VmdkGrain, Zenon DEF Vmdk!PlaceOf, Vmdk!TableInUse, TablesType
  <2>3. Vmdk!Content'[s] = VmdkAt(p, vmdk_data', i)
    BY VmdkContentNext, Zenon DEF VmdkNow, VmdkAt
  <2> HIDE DEF p, i
  <2>4. p # Vmdk!Unallocated => vmdk_data'[p] \in [Vmdk!Slot -> Value]
    BY <2>2, Zenon DEF PlacesType
  <2> QED  BY <2>1, <2>3, <2>4, VmdkConstants, Zenon DEF VmdkAt
<1> QED  BY <1>1, VmdkContentNext, Zenon

-----------------------------------------------------------------------------
\* flush(): the types of what it leaves.
LEMMA VmdkFlushTypes ==
  ASSUME Vmdk!TypeOK, Vmdk!CanFlush
  PROVE  /\ Vmdk!Flushed \in PlacesType
         /\ Vmdk!OldEnd \in 1 .. VmdkPlaces + 1
         /\ end <= Vmdk!OldEnd
         /\ Vmdk!OldPosition \in 0 .. VmdkPlaces + 1
<1>1. /\ vmdk_data \in PlacesType
      /\ tlb \in [Vmdk!Slot -> Value]
      /\ end \in 1 .. VmdkPlaces + 1
      /\ position \in 0 .. VmdkPlaces + 1
  BY Zenon DEF Vmdk!TypeOK, PlacesType
<1>2. CASE vmdk_dirty
  <2>1. position \in Vmdk!Place
    BY <1>2, Zenon DEF Vmdk!CanFlush
  <2>2. Vmdk!Flushed = [vmdk_data EXCEPT ![position] = tlb]
    BY <1>2, Zenon DEF Vmdk!Flushed
  <2>3. Vmdk!Flushed \in PlacesType
    BY <1>1, <2>1, <2>2, Zenon DEF PlacesType
  <2>4. /\ Vmdk!OldPosition = position + 1
        /\ Vmdk!OldEnd = IF position = end THEN end + 1 ELSE end
    BY <1>2, Zenon DEF Vmdk!OldPosition, Vmdk!OldEnd
  <2>5. position \in 1 .. VmdkPlaces
    BY <2>1, Zenon DEF Vmdk!Place
  <2>6. /\ Vmdk!OldEnd \in 1 .. VmdkPlaces + 1 /\ end <= Vmdk!OldEnd
        /\ Vmdk!OldPosition \in 0 .. VmdkPlaces + 1
    BY <1>1, <2>4, <2>5, VmdkConstants, SMT
  <2> QED  BY <2>3, <2>6
<1>3. CASE ~vmdk_dirty
  <2>1. Vmdk!Flushed = vmdk_data /\ Vmdk!OldPosition = position /\ Vmdk!OldEnd = end
    BY <1>3, Zenon DEF Vmdk!Flushed, Vmdk!OldPosition, Vmdk!OldEnd
  <2>2. end <= Vmdk!OldEnd
    BY <1>1, <2>1, VmdkConstants, SMT
  <2> QED  BY <1>1, <2>1, <2>2, Zenon
<1> QED  BY <1>2, <1>3

\* ... and until a table is missed, the file then holds what the grains do.
LEMMA VmdkFlushHolds ==
  ASSUME VmdkIInv, vmdk_open, ~missed, Vmdk!CanFlush, NEW g \in Vmdk!Grain, NEW i \in Vmdk!Slot
  PROVE  VmdkAt(Vmdk!PlaceOf(g), Vmdk!Flushed, i) = VmdkNow(g, i)
<1> DEFINE p == Vmdk!PlaceOf(g)
<1>0. p \in Vmdk!Place \cup {Vmdk!Unallocated}
  BY VmdkPlaceType, Zenon DEF VmdkIInv, TablesType, Vmdk!TypeOK
<1>1. VmdkNow(g, i) = IF g = tlb_grain THEN tlb[i] ELSE VmdkAt(p, vmdk_data, i)
  BY Zenon DEF VmdkNow
<1>2. tlb_grain # Vmdk!NoGrain =>
        /\ position = Vmdk!PlaceOf(tlb_grain)
        /\ position # Vmdk!Unallocated
        /\ ~vmdk_dirty => tlb = vmdk_data[position]
  BY Zenon DEF VmdkIInv, VmdkPosition
<1>3. tlb_grain \in Vmdk!Grain \cup {Vmdk!NoGrain} /\ vmdk_data \in PlacesType
  BY Zenon DEF VmdkIInv, Vmdk!TypeOK, PlacesType
<1>4. g # Vmdk!NoGrain
  BY VmdkNumbers, Zenon
<1>5. g = tlb_grain => p = position
  BY <1>2, <1>4, Zenon
<1>6. g # tlb_grain /\ tlb_grain # Vmdk!NoGrain /\ p # Vmdk!Unallocated => p # position
  BY <1>2, <1>3, Zenon DEF VmdkIInv, VmdkGrains
<1> HIDE DEF p
<1>7. CASE vmdk_dirty
  <2>1. Vmdk!Flushed = [vmdk_data EXCEPT ![position] = tlb] /\ position \in Vmdk!Place
    BY <1>7, Zenon DEF Vmdk!Flushed, Vmdk!CanFlush
  <2>2. /\ Vmdk!Flushed[position] = tlb
        /\ \A q \in Vmdk!Place : q # position => Vmdk!Flushed[q] = vmdk_data[q]
    BY <1>3, <2>1, Zenon DEF PlacesType
  <2>3. tlb_grain # Vmdk!NoGrain
    BY <1>7, Zenon DEF VmdkIInv, VmdkMemory
  <2>4. CASE g = tlb_grain
    BY <1>1, <1>2, <1>5, <2>2, <2>3, <2>4, Zenon DEF VmdkAt
  <2>5. CASE g # tlb_grain
    <3>1. p # Vmdk!Unallocated => Vmdk!Flushed[p] = vmdk_data[p]
      BY <1>0, <1>6, <2>2, <2>3, <2>5, Zenon
    <3> QED  BY <1>1, <2>5, <3>1, Zenon DEF VmdkAt, p
  <2> QED  BY <2>4, <2>5
<1>8. CASE ~vmdk_dirty
  <2>1. Vmdk!Flushed = vmdk_data
    BY <1>8, Zenon DEF Vmdk!Flushed
  <2>2. CASE g = tlb_grain
    <3>1. p = position /\ position # Vmdk!Unallocated /\ tlb = vmdk_data[position]
      BY <1>2, <1>4, <1>5, <1>8, <2>2, Zenon
    <3> QED  BY <1>1, <2>1, <2>2, <3>1, Zenon DEF VmdkAt, p
  <2>3. CASE g # tlb_grain
    BY <1>1, <2>1, <2>3, Zenon DEF p
  <2> QED  BY <2>2, <2>3
<1> QED  BY <1>7, <1>8

-----------------------------------------------------------------------------
\* What entering a place for a grain does to tables, if they are named.
VmdkEnteredRight(tabs, named, g, p) ==
  /\ Vmdk!Entered(tabs, named, g, p) \in TablesType
  /\ \A t \in Vmdk!Table : t # Vmdk!TableOf(g) =>
       Vmdk!Entered(tabs, named, g, p)[t] = tabs[t]
  /\ Vmdk!TableOf(g) \in named =>
       Vmdk!Entered(tabs, named, g, p)[Vmdk!TableOf(g)]
         = [tabs[Vmdk!TableOf(g)] EXCEPT ![Vmdk!EntryOf(g)] = p]
  /\ Vmdk!TableOf(g) \notin named => Vmdk!Entered(tabs, named, g, p) = tabs

\* It enters it there, and nowhere else.
LEMMA VmdkEntered ==
  ASSUME NEW tabs \in TablesType, NEW named, NEW g \in Vmdk!Grain, NEW p \in Vmdk!Place
  PROVE  VmdkEnteredRight(tabs, named, g, p)
<1> DEFINE t == Vmdk!TableOf(g)
           e == Vmdk!EntryOf(g)
           w == [tabs[t] EXCEPT ![e] = p]
<1>1. t \in Vmdk!Table /\ e \in Vmdk!Entry
  BY VmdkGrain
<1>2. CASE t \in named
  <2>1. Vmdk!Entered(tabs, named, g, p) = [tabs EXCEPT ![t] = w]
    BY <1>2, Zenon DEF Vmdk!Entered
  <2>2. tabs[t] \in [Vmdk!Entry -> Vmdk!Place \cup {Vmdk!Unallocated}]
    BY <1>1, Zenon DEF TablesType
  <2>3. w \in [Vmdk!Entry -> Vmdk!Place \cup {Vmdk!Unallocated}]
    BY <1>1, <2>2, Zenon
  <2> HIDE DEF w
  <2>4. /\ Vmdk!Entered(tabs, named, g, p) \in TablesType
        /\ \A u \in Vmdk!Table : u # t => Vmdk!Entered(tabs, named, g, p)[u] = tabs[u]
        /\ Vmdk!Entered(tabs, named, g, p)[t] = w
    BY <1>1, <2>1, <2>3, Zenon DEF TablesType
  <2> QED  BY <1>2, <2>4, Zenon DEF w, VmdkEnteredRight
<1>3. CASE t \notin named
  <2>1. Vmdk!Entered(tabs, named, g, p) = tabs
    BY <1>3, Zenon DEF Vmdk!Entered
  <2> QED  BY <1>3, <2>1, Zenon DEF VmdkEnteredRight
<1> QED  BY <1>2, <1>3

\* Some of the two entries for a grain that had none are made, the copy never
\* first: no other grain moves.
LEMMA VmdkEnters ==
  ASSUME table \in TablesType, table_copy \in TablesType, Vmdk!CopyNeverAhead,
         NEW g \in Vmdk!Grain, NEW p \in Vmdk!Place,
         Vmdk!Exists(Vmdk!TableOf(g)), Vmdk!PlaceOf(g) = Vmdk!Unallocated,
         table' \in {table, Vmdk!Entered(table, InDirectory, g, p)},
         table_copy' \in {table_copy, Vmdk!Entered(table_copy, InCopy, g, p)},
         table_copy' # table_copy => table' = Vmdk!Entered(table, InDirectory, g, p)
  PROVE  /\ table' \in TablesType /\ table_copy' \in TablesType
         /\ Vmdk!CopyNeverAhead'
         /\ \A h \in Vmdk!Grain : h # g => Vmdk!PlaceOf(h)' = Vmdk!PlaceOf(h)
         /\ Vmdk!PlaceOf(g)' \in {Vmdk!Unallocated, p}
<1> DEFINE t == Vmdk!TableOf(g)
           e == Vmdk!EntryOf(g)
           one == Vmdk!Entered(table, InDirectory, g, p)
           two == Vmdk!Entered(table_copy, InCopy, g, p)
<1>1. t \in Vmdk!Table /\ e \in Vmdk!Entry
  BY VmdkGrain
<1>2. /\ one \in TablesType
      /\ \A u \in Vmdk!Table : u # t => one[u] = table[u]
      /\ t \in InDirectory => one[t] = [table[t] EXCEPT ![e] = p]
      /\ t \notin InDirectory => one = table
  <2>1. VmdkEnteredRight(table, InDirectory, g, p)
    BY VmdkEntered, Zenon
  <2> QED  BY <2>1, Zenon DEF VmdkEnteredRight
<1>3. /\ two \in TablesType
      /\ \A u \in Vmdk!Table : u # t => two[u] = table_copy[u]
      /\ t \in InCopy => two[t] = [table_copy[t] EXCEPT ![e] = p]
      /\ t \notin InCopy => two = table_copy
  <2>1. VmdkEnteredRight(table_copy, InCopy, g, p)
    BY VmdkEntered, Zenon
  <2> QED  BY <2>1, Zenon DEF VmdkEnteredRight
<1>4. Vmdk!TableInUse(t)[e] = Vmdk!Unallocated
  BY Zenon DEF Vmdk!PlaceOf
<1>5. table' \in {table, one} /\ table_copy' \in {table_copy, two} /\ (table_copy' # table_copy => table' = one)
  BY Zenon
<1> HIDE DEF one, two
<1>6. table' \in TablesType /\ table_copy' \in TablesType
  BY <1>2, <1>3, <1>5, Zenon
<1>7. /\ table[t] \in [Vmdk!Entry -> Vmdk!Place \cup {Vmdk!Unallocated}]
      /\ table_copy[t] \in [Vmdk!Entry -> Vmdk!Place \cup {Vmdk!Unallocated}]
  BY <1>1, Zenon DEF TablesType
<1>8. /\ t \in InDirectory => one[t][e] = p /\ \A f \in Vmdk!Entry : f # e => one[t][f] = table[t][f]
      /\ t \in InCopy => two[t][e] = p /\ \A f \in Vmdk!Entry : f # e => two[t][f] = table_copy[t][f]
  BY <1>1, <1>2, <1>3, <1>7, Zenon
<1>9. ASSUME NEW u \in Vmdk!Table, NEW f \in Vmdk!Entry, u # t \/ f # e
      PROVE  /\ table'[u][f] = table[u][f] /\ table_copy'[u][f] = table_copy[u][f]
  <2>1. one[u][f] = table[u][f]
    BY <1>2, <1>8, <1>9, Zenon
  <2>2. two[u][f] = table_copy[u][f]
    BY <1>3, <1>8, <1>9, Zenon
  <2> QED  BY <1>5, <2>1, <2>2, Zenon
<1>10. ASSUME NEW h \in Vmdk!Grain, h # g
       PROVE  Vmdk!PlaceOf(h)' = Vmdk!PlaceOf(h)
  <2> DEFINE u == Vmdk!TableOf(h)
             f == Vmdk!EntryOf(h)
  <2>1. u \in Vmdk!Table /\ f \in Vmdk!Entry
    BY VmdkGrain
  <2>2. u # t \/ f # e
    BY <1>10, VmdkSameGrain, Zenon
  <2>3. /\ Vmdk!PlaceOf(h) = IF u \in InDirectory THEN table[u][f] ELSE table_copy[u][f]
        /\ Vmdk!PlaceOf(h)' = IF u \in InDirectory THEN table'[u][f] ELSE table_copy'[u][f]
    BY Zenon DEF Vmdk!PlaceOf, Vmdk!TableInUse
  <2>4. table'[u][f] = table[u][f] /\ table_copy'[u][f] = table_copy[u][f]
    BY <1>9, <2>1, <2>2, Zenon
  <2> HIDE DEF u, f
  <2>5. CASE u \in InDirectory
    BY <2>3, <2>4, <2>5, Zenon
  <2>6. CASE u \notin InDirectory
    BY <2>3, <2>4, <2>6, Zenon
  <2> QED  BY <2>5, <2>6
<1>11. Vmdk!PlaceOf(g)' \in {Vmdk!Unallocated, p}
  <2>1. Vmdk!PlaceOf(g)' = IF t \in InDirectory THEN table'[t][e] ELSE table_copy'[t][e]
    BY Zenon DEF Vmdk!PlaceOf, Vmdk!TableInUse
  <2>2. CASE t \in InDirectory
    <3>1. table[t][e] = Vmdk!Unallocated
      BY <1>4, <2>2, Zenon DEF Vmdk!TableInUse
    <3> QED  BY <1>5, <1>8, <2>1, <2>2, <3>1, Zenon
  <2>3. CASE t \notin InDirectory
    <3>1. t \in InCopy
      BY <2>3, Zenon DEF Vmdk!Exists
    <3>2. table_copy[t][e] = Vmdk!Unallocated
      BY <1>4, <2>3, Zenon DEF Vmdk!TableInUse
    <3> QED  BY <1>5, <1>8, <2>1, <2>3, <3>1, <3>2, Zenon
  <2> QED  BY <2>2, <2>3
<1>12. ASSUME NEW u \in InDirectory \cap InCopy, NEW f \in Vmdk!Entry
       PROVE  table_copy'[u][f] \in {Vmdk!Unallocated, table'[u][f]}
  <2>1. u \in Vmdk!Table
    BY VmdkConstants, Zenon
  <2>2. table_copy[u][f] \in {Vmdk!Unallocated, table[u][f]}
    BY Zenon DEF Vmdk!CopyNeverAhead
  <2>3. CASE u # t \/ f # e
    BY <1>9, <2>1, <2>2, <2>3, Zenon
  <2>4. CASE u = t /\ f = e
    <3>1. table[t][e] = Vmdk!Unallocated
      BY <1>4, <2>4, Zenon DEF Vmdk!TableInUse
    <3>2. table_copy[t][e] = Vmdk!Unallocated
      BY <2>2, <2>4, <3>1, Zenon
    <3>3. CASE table_copy' = table_copy
      BY <2>4, <3>2, <3>3, Zenon
    <3>4. CASE table_copy' # table_copy
      BY <1>5, <1>8, <2>4, <3>4, Zenon
    <3> QED  BY <3>3, <3>4
  <2> QED  BY <2>3, <2>4
<1>13. Vmdk!CopyNeverAhead'
  BY <1>12, Zenon DEF Vmdk!CopyNeverAhead
<1> QED  BY <1>6, <1>10, <1>11, <1>13, Zenon

\* With both entries made, the grain is at the new place, and the table in use is
\* the old one with it.
LEMMA VmdkEntersBoth ==
  ASSUME table \in TablesType, table_copy \in TablesType,
         NEW g \in Vmdk!Grain, NEW p \in Vmdk!Place,
         Vmdk!Exists(Vmdk!TableOf(g)),
         table' = Vmdk!Entered(table, InDirectory, g, p),
         table_copy' = Vmdk!Entered(table_copy, InCopy, g, p)
  PROVE  /\ Vmdk!PlaceOf(g)' = p
         /\ Vmdk!TableInUse(Vmdk!TableOf(g))'
              = [Vmdk!TableInUse(Vmdk!TableOf(g)) EXCEPT ![Vmdk!EntryOf(g)] = p]
<1> DEFINE t == Vmdk!TableOf(g)
           e == Vmdk!EntryOf(g)
<1>1. t \in Vmdk!Table /\ e \in Vmdk!Entry
  BY VmdkGrain
<1>2. /\ t \in InDirectory => table'[t] = [table[t] EXCEPT ![e] = p]
      /\ t \in InCopy => table_copy'[t] = [table_copy[t] EXCEPT ![e] = p]
  <2>1. VmdkEnteredRight(table, InDirectory, g, p) /\ VmdkEnteredRight(table_copy, InCopy, g, p)
    BY VmdkEntered, Zenon
  <2> QED  BY <2>1, Zenon DEF VmdkEnteredRight
<1>3. /\ Vmdk!TableInUse(t) = IF t \in InDirectory THEN table[t] ELSE table_copy[t]
      /\ Vmdk!TableInUse(t)' = IF t \in InDirectory THEN table'[t] ELSE table_copy'[t]
      /\ Vmdk!PlaceOf(g)' = Vmdk!TableInUse(t)'[e]
  BY Zenon DEF Vmdk!TableInUse, Vmdk!PlaceOf
<1>4. t \in InDirectory \/ t \in InCopy
  BY Zenon DEF Vmdk!Exists
<1>5. Vmdk!TableInUse(t) \in [Vmdk!Entry -> Vmdk!Place \cup {Vmdk!Unallocated}]
  BY <1>1, VmdkPlaceType, Zenon
<1> HIDE DEF t, e
<1>6. Vmdk!TableInUse(t)' = [Vmdk!TableInUse(t) EXCEPT ![e] = p]
  BY <1>2, <1>3, <1>4, Zenon
<1>7. [Vmdk!TableInUse(t) EXCEPT ![e] = p][e] = p
  BY <1>1, <1>5, Zenon
<1> QED  BY <1>3, <1>6, <1>7, Zenon DEF t, e

-----------------------------------------------------------------------------
\* perform_seek() to grain g succeeded: the types, and the tables.
VmdkSought(g) ==
  /\ table' \in TablesType /\ table_copy' \in TablesType /\ vmdk_data' \in PlacesType
  /\ end' \in 1 .. VmdkPlaces + 1 /\ position' \in 0 .. VmdkPlaces + 1
  /\ slb_cache' \in [Vmdk!Entry -> Vmdk!Place \cup {Vmdk!Unallocated}]
  /\ current_flb_index' \in Vmdk!Table
  /\ slb_cache_loaded' \in BOOLEAN
  /\ tlb_grain' = g
  /\ Vmdk!Exists(Vmdk!TableOf(g))
  /\ slb_cache_loaded' => slb_cache' = Vmdk!TableInUse(current_flb_index)'
  /\ VmdkGrains'
  /\ Vmdk!CopyNeverAhead'
  /\ Vmdk!Loaded(g) \in [Vmdk!Slot -> Value]

\* ... and what the file and the grain hold after it, if no table was ever missed.
VmdkFound(g) ==
  /\ position' = Vmdk!PlaceOf(g)'
  /\ position' # Vmdk!Unallocated
  /\ \A i \in Vmdk!Slot : Vmdk!Loaded(g)[i] = VmdkNow(g, i)
  /\ g # tlb_grain => Vmdk!Loaded(g) = vmdk_data'[position']
  /\ g = tlb_grain /\ ~vmdk_dirty => Vmdk!Loaded(g) = vmdk_data'[position']
  /\ \A h \in Vmdk!Grain, i \in Vmdk!Slot : h # g =>
       VmdkAt(Vmdk!PlaceOf(h)', vmdk_data', i) = VmdkNow(h, i)
  /\ \A i \in Vmdk!Slot :
       VmdkAt(Vmdk!PlaceOf(g)', vmdk_data', i)
         \in {VmdkAt(Vmdk!PlaceOf(g), vmdk_data, i), VmdkNow(g, i)}

\* The table in memory, once it is the right one, is the one in the file.
LEMMA VmdkCachedTable ==
  ASSUME VmdkIInv, vmdk_open, NEW t \in Vmdk!Table
  PROVE  Vmdk!SlbFor(t) = Vmdk!TableInUse(t)
<1>1. slb_cache_loaded => slb_cache = Vmdk!TableInUse(current_flb_index)
  BY Zenon DEF VmdkIInv, VmdkMemory
<1> QED  BY <1>1, Zenon DEF Vmdk!SlbFor, Vmdk!Cached

\* A grain that is in memory already.
LEMMA VmdkHits ==
  ASSUME VmdkIInv, vmdk_open, NEW g \in Vmdk!Grain, Vmdk!SeekHit(g)
  PROVE  VmdkSought(g) /\ (~missed => VmdkFound(g))
<1>1. /\ g = tlb_grain
      /\ UNCHANGED <<table, table_copy, vmdk_data, end, position, tlb_grain>>
      /\ UNCHANGED <<slb_cache, current_flb_index, slb_cache_loaded>>
  BY Zenon DEF Vmdk!SeekHit, Vmdk!tables, Vmdk!slb
<1>2. Vmdk!Loaded(g) = tlb
  BY <1>1, Zenon DEF Vmdk!Loaded
<1>3. tlb_grain # Vmdk!NoGrain
  BY <1>1, VmdkNumbers, Zenon
<1>4. Vmdk!Exists(Vmdk!TableOf(g))
  BY <1>1, <1>3, Zenon DEF VmdkIInv, VmdkMemory
<1>5. \A h \in Vmdk!Grain : Vmdk!PlaceOf(h)' = Vmdk!PlaceOf(h)
  BY <1>1, Zenon DEF Vmdk!PlaceOf, Vmdk!TableInUse
<1>6. slb_cache_loaded' => slb_cache' = Vmdk!TableInUse(current_flb_index)'
  BY <1>1, Zenon DEF VmdkIInv, VmdkMemory, Vmdk!TableInUse
<1>7. VmdkGrains' /\ Vmdk!CopyNeverAhead'
  <2>1. VmdkGrains'
    BY <1>1, <1>5, Zenon DEF VmdkIInv, VmdkGrains
  <2>2. Vmdk!CopyNeverAhead'
    BY <1>1, Zenon DEF VmdkIInv, Vmdk!CopyNeverAhead
  <2> QED  BY <2>1, <2>2
<1>8. VmdkSought(g)
  BY <1>1, <1>2, <1>4, <1>6, <1>7, Zenon DEF VmdkSought, VmdkIInv, Vmdk!TypeOK, TablesType, PlacesType
<1>9. ASSUME ~missed
      PROVE  VmdkFound(g)
  <2>1. /\ position = Vmdk!PlaceOf(g) /\ position # Vmdk!Unallocated
        /\ ~vmdk_dirty => tlb = vmdk_data[position]
    BY <1>1, <1>3, <1>9, Zenon DEF VmdkIInv, VmdkPosition
  <2>2. \A i \in Vmdk!Slot : Vmdk!Loaded(g)[i] = VmdkNow(g, i)
    BY <1>1, <1>2, Zenon DEF VmdkNow
  <2>3. \A h \in Vmdk!Grain, i \in Vmdk!Slot : h # g =>
          VmdkAt(Vmdk!PlaceOf(h)', vmdk_data', i) = VmdkNow(h, i)
    BY <1>1, <1>5, Zenon DEF VmdkNow
  <2>4. /\ position' = Vmdk!PlaceOf(g)' /\ position' # Vmdk!Unallocated
        /\ g = tlb_grain /\ ~vmdk_dirty => Vmdk!Loaded(g) = vmdk_data'[position']
    BY <1>1, <1>2, <1>5, <2>1, Zenon
  <2>5. \A i \in Vmdk!Slot :
          VmdkAt(Vmdk!PlaceOf(g)', vmdk_data', i) = VmdkAt(Vmdk!PlaceOf(g), vmdk_data, i)
    BY <1>1, <1>5, Zenon
  <2> QED  BY <1>1, <2>2, <2>3, <2>4, <2>5, Zenon DEF VmdkFound
<1> QED  BY <1>8, <1>9

\* Another one, which has a place.
LEMMA VmdkLoads ==
  ASSUME VmdkIInv, vmdk_open, NEW g \in Vmdk!Grain, Vmdk!SeekLoads(g)
  PROVE  VmdkSought(g) /\ (~missed => VmdkFound(g))
<1> DEFINE t == Vmdk!TableOf(g)
           p == Vmdk!PlaceOf(g)
<1>1. t \in Vmdk!Table /\ Vmdk!EntryOf(g) \in Vmdk!Entry
  BY VmdkGrain
<1>2. Vmdk!SlbFor(t) = Vmdk!TableInUse(t) /\ Vmdk!SlbFor(t)[Vmdk!EntryOf(g)] = p
  BY <1>1, VmdkCachedTable, Zenon DEF Vmdk!PlaceOf
<1>3. /\ g # tlb_grain /\ Vmdk!CanFlush /\ Vmdk!Exists(t)
      /\ p # Vmdk!Unallocated
      /\ vmdk_data' = Vmdk!Flushed
      /\ end' = Vmdk!OldEnd
      /\ slb_cache' = Vmdk!TableInUse(t) /\ current_flb_index' = t /\ slb_cache_loaded' = TRUE
      /\ tlb_grain' = g
      /\ position' = p
      /\ UNCHANGED <<table, table_copy>>
  BY <1>2, Zenon DEF Vmdk!SeekLoads, Vmdk!RewoundTo, Vmdk!tables
<1>4. Vmdk!Loaded(g) = Vmdk!Flushed[p]
  BY <1>2, <1>3, Zenon DEF Vmdk!Loaded
<1>5. /\ Vmdk!Flushed \in PlacesType
      /\ Vmdk!OldEnd \in 1 .. VmdkPlaces + 1
      /\ end <= Vmdk!OldEnd
  BY <1>3, VmdkFlushTypes, Zenon DEF VmdkIInv
<1>6. /\ table \in TablesType /\ table_copy \in TablesType
      /\ \A h \in Vmdk!Grain : Vmdk!PlaceOf(h) \in Vmdk!Place \cup {Vmdk!Unallocated}
  BY VmdkPlaceType, Zenon DEF VmdkIInv, Vmdk!TypeOK, TablesType
<1>7. p \in Vmdk!Place
  BY <1>3, <1>6, Zenon
<1>8. \A h \in Vmdk!Grain : Vmdk!PlaceOf(h)' = Vmdk!PlaceOf(h)
  BY <1>3, Zenon DEF Vmdk!PlaceOf, Vmdk!TableInUse
<1>9. VmdkGrains'
  <2>1. ASSUME NEW h \in Vmdk!Grain
        PROVE  Vmdk!PlaceOf(h) < Vmdk!OldEnd
    <3>1. Vmdk!PlaceOf(h) < end
      BY Zenon DEF VmdkIInv, VmdkGrains
    <3>2. Vmdk!PlaceOf(h) \in Int
      BY <1>6, VmdkNumbers, SMT DEF Vmdk!Unallocated
    <3>3. end \in 1 .. VmdkPlaces + 1
      BY Zenon DEF VmdkIInv, Vmdk!TypeOK
    <3> QED  BY <1>5, <3>1, <3>2, <3>3, VmdkConstants, SMT
  <2> QED  BY <1>3, <1>8, <2>1, Zenon DEF VmdkIInv, VmdkGrains
<1>10. Vmdk!CopyNeverAhead'
  BY <1>3, Zenon DEF VmdkIInv, Vmdk!CopyNeverAhead
<1>11. slb_cache' = Vmdk!TableInUse(current_flb_index)'
  BY <1>3, Zenon DEF Vmdk!TableInUse
<1>12. slb_cache' \in [Vmdk!Entry -> Vmdk!Place \cup {Vmdk!Unallocated}]
  BY <1>1, <1>3, <1>6, VmdkPlaceType, Zenon
<1>13. p \in 0 .. VmdkPlaces + 1
  BY <1>7, VmdkConstants, SMT DEF Vmdk!Place
<1>14. Vmdk!Loaded(g) \in [Vmdk!Slot -> Value]
  BY <1>4, <1>5, <1>7, Zenon DEF PlacesType
<1>15. VmdkSought(g)
  BY <1>1, <1>3, <1>5, <1>6, <1>9, <1>10, <1>11, <1>12, <1>13, <1>14, Zenon DEF VmdkSought
<1>16. ASSUME ~missed
       PROVE  VmdkFound(g)
  <2>1. ASSUME NEW h \in Vmdk!Grain, NEW i \in Vmdk!Slot
        PROVE  VmdkAt(Vmdk!PlaceOf(h)', vmdk_data', i) = VmdkNow(h, i)
    <3>1. VmdkAt(Vmdk!PlaceOf(h), Vmdk!Flushed, i) = VmdkNow(h, i)
      BY <1>3, <1>16, VmdkFlushHolds, Zenon
    <3> QED  BY <1>3, <1>8, <3>1, Zenon
  <2>2. ASSUME NEW i \in Vmdk!Slot
        PROVE  Vmdk!Loaded(g)[i] = VmdkNow(g, i)
    <3>1. VmdkAt(p, Vmdk!Flushed, i) = VmdkNow(g, i)
      BY <1>3, <1>16, VmdkFlushHolds, Zenon
    <3> QED  BY <1>3, <1>4, <3>1, Zenon DEF VmdkAt
  <2>3. position' = Vmdk!PlaceOf(g)' /\ position' # Vmdk!Unallocated
    BY <1>3, <1>8, Zenon
  <2>4. Vmdk!Loaded(g) = vmdk_data'[position']
    BY <1>3, <1>4, Zenon
  <2> QED  BY <2>1, <2>2, <2>3, <2>4, Zenon DEF VmdkFound
<1> QED  BY <1>15, <1>16

\* ... one that has none: it gets the place at the end, filled with zeros.
LEMMA VmdkAllocates ==
  ASSUME VmdkIInv, vmdk_open, NEW g \in Vmdk!Grain, Vmdk!SeekAllocates(g)
  PROVE  VmdkSought(g) /\ (~missed => VmdkFound(g))
<1> DEFINE t == Vmdk!TableOf(g)
           p == Vmdk!OldEnd
<1>1. t \in Vmdk!Table /\ Vmdk!EntryOf(g) \in Vmdk!Entry
  BY VmdkGrain
<1>2. Vmdk!SlbFor(t) = Vmdk!TableInUse(t) /\ Vmdk!SlbFor(t)[Vmdk!EntryOf(g)] = Vmdk!PlaceOf(g)
  BY <1>1, VmdkCachedTable, Zenon DEF Vmdk!PlaceOf
<1>3. /\ g # tlb_grain /\ Vmdk!CanFlush /\ Vmdk!Exists(t)
      /\ Vmdk!PlaceOf(g) = Vmdk!Unallocated
      /\ p \in Vmdk!Place
      /\ vmdk_data' = [Vmdk!Flushed EXCEPT ![p] = Vmdk!ZeroGrain]
      /\ end' = p + 1
      /\ table' = Vmdk!Entered(table, InDirectory, g, p)
      /\ table_copy' = Vmdk!Entered(table_copy, InCopy, g, p)
      /\ slb_cache' = [Vmdk!TableInUse(t) EXCEPT ![Vmdk!EntryOf(g)] = p]
      /\ current_flb_index' = t /\ slb_cache_loaded' = TRUE
      /\ tlb_grain' = g
      /\ position' = p
  BY <1>2, Zenon DEF Vmdk!SeekAllocates
<1>4. Vmdk!Loaded(g) = Vmdk!ZeroGrain
  BY <1>2, <1>3, Zenon DEF Vmdk!Loaded
<1>5. /\ Vmdk!Flushed \in PlacesType
      /\ end <= p
  BY <1>3, VmdkFlushTypes, Zenon DEF VmdkIInv
<1> HIDE DEF p
<1>6. /\ table \in TablesType /\ table_copy \in TablesType
      /\ \A h \in Vmdk!Grain : Vmdk!PlaceOf(h) \in Vmdk!Place \cup {Vmdk!Unallocated}
  BY VmdkPlaceType, Zenon DEF VmdkIInv, Vmdk!TypeOK, TablesType
<1>7. /\ table' \in TablesType /\ table_copy' \in TablesType
      /\ Vmdk!CopyNeverAhead'
      /\ \A h \in Vmdk!Grain : h # g => Vmdk!PlaceOf(h)' = Vmdk!PlaceOf(h)
  <2>1. Vmdk!CopyNeverAhead
    BY Zenon DEF VmdkIInv
  <2> QED  BY <1>3, <1>6, <2>1, VmdkEnters, Zenon
<1>8. /\ Vmdk!PlaceOf(g)' = p
      /\ Vmdk!TableInUse(t)' = [Vmdk!TableInUse(t) EXCEPT ![Vmdk!EntryOf(g)] = p]
  BY <1>3, <1>6, VmdkEntersBoth, Zenon
<1>9. /\ p \in Nat /\ p > 0 /\ p <= VmdkPlaces
      /\ p + 1 \in 1 .. VmdkPlaces + 1 /\ p \in 0 .. VmdkPlaces + 1
  <2>1. p \in Nat /\ p > 0 /\ p <= VmdkPlaces
    BY <1>3, VmdkNumbers, Zenon
  <2> QED  BY <2>1, VmdkConstants, SMT
<1>10. ASSUME NEW h \in Vmdk!Grain
       PROVE  Vmdk!PlaceOf(h) < p /\ Vmdk!PlaceOf(h) < p + 1 /\ Vmdk!PlaceOf(h) # p
  <2>1. Vmdk!PlaceOf(h) < end
    BY Zenon DEF VmdkIInv, VmdkGrains
  <2>2. Vmdk!PlaceOf(h) \in Int
    BY <1>6, VmdkNumbers, SMT DEF Vmdk!Unallocated
  <2>3. end \in 1 .. VmdkPlaces + 1
    BY Zenon DEF VmdkIInv, Vmdk!TypeOK
  <2> QED  BY <1>5, <1>9, <2>1, <2>2, <2>3, VmdkConstants, SMT
<1>11. p < p + 1
  BY <1>9, SMT
<1>12. VmdkGrains'
  <2>1. \A h \in Vmdk!Grain : Vmdk!PlaceOf(h)' < end'
    BY <1>3, <1>7, <1>8, <1>10, <1>11, Zenon
  <2>2. ASSUME NEW h \in Vmdk!Grain, NEW k \in Vmdk!Grain,
               Vmdk!PlaceOf(h)' = Vmdk!PlaceOf(k)', Vmdk!PlaceOf(h)' # Vmdk!Unallocated
        PROVE  h = k
    <3>1. h = g <=> k = g
      BY <1>7, <1>8, <1>10, <2>2, Zenon
    <3>2. CASE h = g
      BY <3>1, <3>2
    <3>3. CASE h # g
      BY <1>7, <2>2, <3>1, <3>3, Zenon DEF VmdkIInv, VmdkGrains
    <3> QED  BY <3>2, <3>3
  <2> QED  BY <2>1, <2>2, Zenon DEF VmdkGrains
<1>13. slb_cache' = Vmdk!TableInUse(current_flb_index)'
  <2>1. Vmdk!TableInUse(current_flb_index)' = Vmdk!TableInUse(t)'
    BY <1>3, Zenon DEF Vmdk!TableInUse
  <2> QED  BY <1>3, <1>8, <2>1, Zenon
<1>14. slb_cache' \in [Vmdk!Entry -> Vmdk!Place \cup {Vmdk!Unallocated}]
  <2>1. Vmdk!TableInUse(t) \in [Vmdk!Entry -> Vmdk!Place \cup {Vmdk!Unallocated}]
    BY <1>1, <1>6, VmdkPlaceType, Zenon
  <2> QED  BY <1>1, <1>3, <2>1, Zenon
<1>15. /\ Vmdk!ZeroGrain \in [Vmdk!Slot -> Value]
       /\ \A i \in Vmdk!Slot : Vmdk!ZeroGrain[i] = Zero
  BY VmdkConstants, Zenon DEF Vmdk!ZeroGrain
<1>16. /\ vmdk_data' \in PlacesType
       /\ vmdk_data'[p] = Vmdk!ZeroGrain
       /\ \A q \in Vmdk!Place : q # p => vmdk_data'[q] = Vmdk!Flushed[q]
  BY <1>3, <1>5, <1>15, Zenon DEF PlacesType
<1>17. VmdkSought(g)
  BY <1>1, <1>3, <1>4, <1>7, <1>9, <1>12, <1>13, <1>14, <1>15, <1>16, Zenon DEF VmdkSought
<1>18. ASSUME ~missed
       PROVE  VmdkFound(g)
  <2>1. ASSUME NEW h \in Vmdk!Grain, NEW i \in Vmdk!Slot, h # g
        PROVE  VmdkAt(Vmdk!PlaceOf(h)', vmdk_data', i) = VmdkNow(h, i)
    <3>1. VmdkAt(Vmdk!PlaceOf(h), Vmdk!Flushed, i) = VmdkNow(h, i)
      BY <1>3, <1>18, VmdkFlushHolds, Zenon
    <3>2. Vmdk!PlaceOf(h)' = Vmdk!PlaceOf(h)
      BY <1>7, <2>1, Zenon
    <3>3. Vmdk!PlaceOf(h) # Vmdk!Unallocated => vmdk_data'[Vmdk!PlaceOf(h)] = Vmdk!Flushed[Vmdk!PlaceOf(h)]
      BY <1>6, <1>10, <1>16, Zenon
    <3> QED  BY <3>1, <3>2, <3>3, Zenon DEF VmdkAt
  <2>2. ASSUME NEW i \in Vmdk!Slot
        PROVE  VmdkNow(g, i) = Zero
    BY <1>3, Zenon DEF VmdkNow, VmdkAt
  <2>3. p # Vmdk!Unallocated
    BY <1>3, VmdkNumbers, Zenon
  <2>4. position' = Vmdk!PlaceOf(g)' /\ position' # Vmdk!Unallocated
    BY <1>3, <1>8, <2>3, Zenon
  <2>5. Vmdk!Loaded(g) = vmdk_data'[position']
    BY <1>3, <1>4, <1>16, Zenon
  <2>6. \A i \in Vmdk!Slot : Vmdk!Loaded(g)[i] = VmdkNow(g, i)
    BY <1>4, <1>15, <2>2, Zenon
  <2>7. \A i \in Vmdk!Slot : VmdkAt(Vmdk!PlaceOf(g)', vmdk_data', i) = VmdkNow(g, i)
    BY <1>8, <1>15, <1>16, <2>2, <2>3, Zenon DEF VmdkAt
  <2> QED  BY <2>1, <2>4, <2>5, <2>6, <2>7, Zenon DEF VmdkFound
<1> QED  BY <1>17, <1>18

\* So does every seek that succeeds.
LEMMA VmdkSeeks ==
  ASSUME VmdkIInv, vmdk_open, NEW g \in Vmdk!Grain, Vmdk!Seek(g)
  PROVE  VmdkSought(g) /\ (~missed => VmdkFound(g))
BY VmdkHits, VmdkLoads, VmdkAllocates, Zenon DEF Vmdk!Seek

-----------------------------------------------------------------------------
\* The guest reads a sector.
LEMMA VmdkReads ==
  ASSUME VmdkIInv, NEW s \in Vmdk!Sector, Vmdk!ReadSector(s)
  PROVE  VmdkIInv' /\ (~missed => Vmdk!Disk!Read(s))
<1> DEFINE g == Vmdk!GrainOf(s)
           k == Vmdk!SlotOf(s)
<1>1. /\ vmdk_open
      /\ Vmdk!Seek(g)
      /\ tlb' = Vmdk!Loaded(g)
      /\ vmdk_dirty' = (vmdk_dirty /\ g = tlb_grain)
      /\ vmdk_reply' = Vmdk!Loaded(g)[k]
      /\ UNCHANGED <<vmdk_open, vmdk_versions, missed>>
  BY Zenon DEF Vmdk!ReadSector
<1>2. g \in Vmdk!Grain /\ k \in Vmdk!Slot
  BY VmdkSector
<1>3. VmdkSought(g) /\ (~missed => VmdkFound(g))
  BY <1>1, <1>2, VmdkSeeks, Zenon
<1> HIDE DEF g, k
<1>4. g # Vmdk!NoGrain
  BY <1>2, VmdkNumbers, Zenon
<1>5. Vmdk!TypeOK'
  <2>1. vmdk_dirty' \in BOOLEAN /\ vmdk_open' \in BOOLEAN
    BY <1>1, Zenon DEF VmdkIInv, Vmdk!TypeOK
  <2>2. tlb' \in [Vmdk!Slot -> Value] /\ vmdk_reply' \in Value
    BY <1>1, <1>2, <1>3, Zenon DEF VmdkSought
  <2>3. vmdk_versions' \in [Vmdk!Sector -> SUBSET Value] /\ missed' \in BOOLEAN
    BY <1>1, Zenon DEF VmdkIInv, Vmdk!TypeOK
  <2> QED  BY <1>2, <1>3, <2>1, <2>2, <2>3, Zenon DEF VmdkSought, Vmdk!TypeOK, TablesType, PlacesType
<1>6. VmdkMemory' /\ VmdkGrains' /\ Vmdk!CopyNeverAhead'
  <2>1. VmdkMemory'
    BY <1>3, <1>4, Zenon DEF VmdkSought, VmdkMemory, Vmdk!Exists
  <2> QED  BY <1>3, <2>1, Zenon DEF VmdkSought
<1>7. ASSUME ~missed
      PROVE  VmdkPosition' /\ VmdkVersions' /\ Vmdk!Disk!Read(s)
  <2>1. VmdkFound(g) /\ tlb_grain' = g
    BY <1>3, <1>7, Zenon DEF VmdkSought
  <2>2. VmdkPosition'
    <3>1. ~vmdk_dirty' => tlb' = vmdk_data'[position']
      BY <1>1, <2>1, Zenon DEF VmdkFound
    <3> QED  BY <2>1, <3>1, Zenon DEF VmdkPosition, VmdkFound
  <2>3. ASSUME NEW h \in Vmdk!Grain, NEW i \in Vmdk!Slot
        PROVE  VmdkNow(h, i)' = VmdkNow(h, i)
    <3>1. VmdkNow(h, i)' = IF h = g THEN tlb'[i] ELSE VmdkAt(Vmdk!PlaceOf(h)', vmdk_data', i)
      BY <1>1, <2>1, Zenon DEF VmdkNow, VmdkAt
    <3>2. CASE h = g
      BY <1>1, <2>1, <3>1, <3>2, Zenon DEF VmdkFound
    <3>3. CASE h # g
      BY <2>1, <3>1, <3>3, Zenon DEF VmdkFound
    <3> QED  BY <3>2, <3>3
  <2>4. ASSUME NEW t \in Vmdk!Sector
        PROVE  Vmdk!Content'[t] = Vmdk!Content[t]
    BY <2>3, VmdkSector, VmdkContent, VmdkContentNext, Zenon
  <2>5. Vmdk!Content' = Vmdk!Content
    BY <2>4, VmdkContent, VmdkContentNext, Zenon
  <2>6. ASSUME NEW t \in Vmdk!Sector
        PROVE  VmdkHeld(t)' \in vmdk_versions[t]
    <3> DEFINE h == Vmdk!GrainOf(t)
               i == Vmdk!SlotOf(t)
    <3>1. h \in Vmdk!Grain /\ i \in Vmdk!Slot
      BY VmdkSector
    <3>2. VmdkNow(h, i) \in vmdk_versions[t] /\ VmdkHeld(t) \in vmdk_versions[t]
      BY <1>7, VmdkContent, Zenon DEF VmdkIInv, VmdkVersions
    <3>3. /\ VmdkHeld(t) = VmdkAt(Vmdk!PlaceOf(h), vmdk_data, i)
          /\ VmdkHeld(t)' = VmdkAt(Vmdk!PlaceOf(h)', vmdk_data', i)
      BY Zenon DEF VmdkHeld, VmdkAt
    <3> HIDE DEF h, i
    <3>4. CASE h = g
      BY <2>1, <3>1, <3>2, <3>3, <3>4, Zenon DEF VmdkFound
    <3>5. CASE h # g
      BY <2>1, <3>1, <3>2, <3>3, <3>5, Zenon DEF VmdkFound
    <3> QED  BY <3>4, <3>5
  <2>7. VmdkVersions'
    <3>1. \A t \in Vmdk!Sector : Vmdk!Content[t] \in vmdk_versions[t]
      BY <1>7, Zenon DEF VmdkIInv, VmdkVersions
    <3> QED  BY <1>1, <2>4, <2>6, <3>1, Zenon DEF VmdkVersions
  <2>8. vmdk_reply' = Vmdk!Content[s]
    BY <1>1, <1>2, <2>1, VmdkContent, Zenon DEF VmdkFound, g, k
  <2> QED  BY <1>1, <2>2, <2>5, <2>7, <2>8, Zenon DEF Vmdk!Disk!Read
<1> QED  BY <1>1, <1>5, <1>6, <1>7, Zenon DEF VmdkIInv

\* The guest writes a sector: the grain in memory has it, and no other grain
\* changes.
LEMMA VmdkWrites ==
  ASSUME VmdkIInv, NEW s \in Vmdk!Sector, NEW v \in Value, Vmdk!WriteSector(s, v)
  PROVE  VmdkIInv' /\ (~missed => Vmdk!Disk!Write(s, v))
<1> DEFINE g == Vmdk!GrainOf(s)
           k == Vmdk!SlotOf(s)
<1>1. /\ vmdk_open
      /\ Vmdk!Seek(g)
      /\ tlb' = [Vmdk!Loaded(g) EXCEPT ![k] = v]
      /\ vmdk_dirty' = TRUE
      /\ vmdk_versions' = [vmdk_versions EXCEPT ![s] = @ \cup {v}]
      /\ UNCHANGED <<vmdk_open, vmdk_reply, missed>>
  BY Zenon DEF Vmdk!WriteSector
<1>2. g \in Vmdk!Grain /\ k \in Vmdk!Slot
  BY VmdkSector
<1>3. VmdkSought(g) /\ (~missed => VmdkFound(g))
  BY <1>1, <1>2, VmdkSeeks, Zenon
<1> HIDE DEF g, k
<1>4. g # Vmdk!NoGrain
  BY <1>2, VmdkNumbers, Zenon
<1>5. /\ tlb' \in [Vmdk!Slot -> Value]
      /\ tlb'[k] = v
      /\ \A i \in Vmdk!Slot : i # k => tlb'[i] = Vmdk!Loaded(g)[i]
  <2>1. Vmdk!Loaded(g) \in [Vmdk!Slot -> Value]
    BY <1>3, Zenon DEF VmdkSought
  <2> QED  BY <1>1, <1>2, <2>1, Zenon
<1>6. /\ vmdk_versions' \in [Vmdk!Sector -> SUBSET Value]
      /\ vmdk_versions'[s] = vmdk_versions[s] \cup {v}
      /\ \A t \in Vmdk!Sector : t # s => vmdk_versions'[t] = vmdk_versions[t]
      /\ \A t \in Vmdk!Sector : vmdk_versions[t] \subseteq vmdk_versions'[t]
  <2>1. vmdk_versions \in [Vmdk!Sector -> SUBSET Value]
    BY Zenon DEF VmdkIInv, Vmdk!TypeOK
  <2>2. vmdk_versions[s] \cup {v} \in SUBSET Value
    BY <2>1, Zenon
  <2> QED  BY <1>1, <2>1, <2>2, Zenon
<1>7. Vmdk!TypeOK'
  <2>1. vmdk_dirty' \in BOOLEAN /\ vmdk_open' \in BOOLEAN
    BY <1>1, Zenon DEF VmdkIInv, Vmdk!TypeOK
  <2>2. vmdk_reply' \in Value /\ missed' \in BOOLEAN
    BY <1>1, Zenon DEF VmdkIInv, Vmdk!TypeOK
  <2> QED  BY <1>2, <1>3, <1>5, <1>6, <2>1, <2>2, Zenon DEF VmdkSought, Vmdk!TypeOK, TablesType, PlacesType
<1>8. VmdkMemory' /\ VmdkGrains' /\ Vmdk!CopyNeverAhead'
  <2>1. VmdkMemory'
    BY <1>3, <1>4, Zenon DEF VmdkSought, VmdkMemory, Vmdk!Exists
  <2> QED  BY <1>3, <2>1, Zenon DEF VmdkSought
<1>9. ASSUME ~missed
      PROVE  VmdkPosition' /\ VmdkVersions' /\ Vmdk!Disk!Write(s, v)
  <2>1. VmdkFound(g) /\ tlb_grain' = g
    BY <1>3, <1>9, Zenon DEF VmdkSought
  <2>2. VmdkPosition'
    BY <1>1, <2>1, Zenon DEF VmdkPosition, VmdkFound
  <2>3. ASSUME NEW t \in Vmdk!Sector
        PROVE  Vmdk!Content'[t] = IF t = s THEN v ELSE Vmdk!Content[t]
    <3> DEFINE h == Vmdk!GrainOf(t)
               i == Vmdk!SlotOf(t)
    <3>1. h \in Vmdk!Grain /\ i \in Vmdk!Slot
      BY VmdkSector
    <3>2. Vmdk!Content'[t] = IF h = g THEN tlb'[i] ELSE VmdkAt(Vmdk!PlaceOf(h)', vmdk_data', i)
      BY <1>1, <2>1, VmdkContentNext, Zenon DEF VmdkNow, VmdkAt
    <3>3. Vmdk!Content[t] = VmdkNow(h, i)
      BY VmdkContent, Zenon
    <3>4. h = g /\ i = k => t = s
      BY VmdkSameSector, Zenon DEF g, k
    <3>5. t = s => h = g /\ i = k
      BY Zenon DEF g, k
    <3> HIDE DEF h, i
    <3>6. CASE t = s
      BY <1>5, <3>2, <3>5, <3>6, Zenon
    <3>7. CASE t # s /\ h = g
      BY <1>5, <2>1, <3>1, <3>2, <3>3, <3>4, <3>7, Zenon DEF VmdkFound
    <3>8. CASE t # s /\ h # g
      BY <2>1, <3>1, <3>2, <3>3, <3>8, Zenon DEF VmdkFound
    <3> QED  BY <3>6, <3>7, <3>8
  <2>4. Vmdk!Content' = [Vmdk!Content EXCEPT ![s] = v]
    BY <2>3, VmdkContent, VmdkContentNext, Zenon
  <2>5. ASSUME NEW t \in Vmdk!Sector
        PROVE  VmdkHeld(t)' \in vmdk_versions[t]
    <3> DEFINE h == Vmdk!GrainOf(t)
               i == Vmdk!SlotOf(t)
    <3>1. h \in Vmdk!Grain /\ i \in Vmdk!Slot
      BY VmdkSector
    <3>2. VmdkNow(h, i) \in vmdk_versions[t] /\ VmdkHeld(t) \in vmdk_versions[t]
      BY <1>9, VmdkContent, Zenon DEF VmdkIInv, VmdkVersions
    <3>3. /\ VmdkHeld(t) = VmdkAt(Vmdk!PlaceOf(h), vmdk_data, i)
          /\ VmdkHeld(t)' = VmdkAt(Vmdk!PlaceOf(h)', vmdk_data', i)
      BY Zenon DEF VmdkHeld, VmdkAt
    <3> HIDE DEF h, i
    <3>4. CASE h = g
      BY <2>1, <3>1, <3>2, <3>3, <3>4, Zenon DEF VmdkFound
    <3>5. CASE h # g
      BY <2>1, <3>1, <3>2, <3>3, <3>5, Zenon DEF VmdkFound
    <3> QED  BY <3>4, <3>5
  <2>6. VmdkVersions'
    <3>1. \A t \in Vmdk!Sector : Vmdk!Content[t] \in vmdk_versions[t]
      BY <1>9, Zenon DEF VmdkIInv, VmdkVersions
    <3>2. \A t \in Vmdk!Sector : Vmdk!Content'[t] \in vmdk_versions'[t]
      BY <1>6, <2>3, <3>1, Zenon
    <3> QED  BY <1>6, <2>5, <3>2, Zenon DEF VmdkVersions
  <2> QED  BY <1>1, <2>2, <2>4, <2>6, Zenon DEF Vmdk!Disk!Write
<1> QED  BY <1>1, <1>7, <1>8, <1>9, Zenon DEF VmdkIInv

\* A grain whose table does not exist: nothing the guest could see changes yet.
LEMMA VmdkFails ==
  ASSUME VmdkIInv, NEW g \in Vmdk!Grain, Vmdk!SeekFails(g)
  PROVE  VmdkIInv' /\ (~missed => UNCHANGED Vmdk!Disk!vars)
<1>1. /\ vmdk_open /\ g # tlb_grain /\ Vmdk!CanFlush
      /\ vmdk_data' = Vmdk!Flushed
      /\ end' = Vmdk!OldEnd
      /\ position' = Vmdk!OldPosition
      /\ vmdk_dirty' = FALSE
      /\ slb_cache' = Vmdk!NoEntries /\ current_flb_index' = Vmdk!TableOf(g)
      /\ slb_cache_loaded' = FALSE
      /\ missed' = TRUE
      /\ UNCHANGED <<table, table_copy, vmdk_open, tlb_grain, tlb, vmdk_reply, vmdk_versions>>
  BY Zenon DEF Vmdk!SeekFails, Vmdk!tables
<1>2. /\ Vmdk!Flushed \in PlacesType
      /\ Vmdk!OldEnd \in 1 .. VmdkPlaces + 1
      /\ end <= Vmdk!OldEnd
      /\ Vmdk!OldPosition \in 0 .. VmdkPlaces + 1
  BY <1>1, VmdkFlushTypes, Zenon DEF VmdkIInv
<1>3. \A h \in Vmdk!Grain : /\ Vmdk!PlaceOf(h)' = Vmdk!PlaceOf(h)
                            /\ Vmdk!PlaceOf(h) \in Vmdk!Place \cup {Vmdk!Unallocated}
  <2>1. \A h \in Vmdk!Grain : Vmdk!PlaceOf(h)' = Vmdk!PlaceOf(h)
    BY <1>1, Zenon DEF Vmdk!PlaceOf, Vmdk!TableInUse
  <2> QED  BY <2>1, VmdkPlaceType, Zenon DEF VmdkIInv, Vmdk!TypeOK, TablesType
<1>4. Vmdk!TypeOK'
  <2>1. slb_cache' \in [Vmdk!Entry -> Vmdk!Place \cup {Vmdk!Unallocated}]
    BY <1>1, Zenon DEF Vmdk!NoEntries
  <2>2. current_flb_index' \in Vmdk!Table
    BY <1>1, VmdkGrain, Zenon
  <2>3. vmdk_data' \in [Vmdk!Place -> [Vmdk!Slot -> Value]]
    BY <1>1, <1>2, Zenon DEF PlacesType
  <2> QED  BY <1>1, <1>2, <2>1, <2>2, <2>3, Zenon DEF VmdkIInv, Vmdk!TypeOK
<1>5. VmdkMemory'
  BY <1>1, Zenon DEF VmdkIInv, VmdkMemory, Vmdk!Exists
<1>6. VmdkGrains'
  <2>1. ASSUME NEW h \in Vmdk!Grain
        PROVE  Vmdk!PlaceOf(h) < Vmdk!OldEnd
    <3>1. Vmdk!PlaceOf(h) < end
      BY Zenon DEF VmdkIInv, VmdkGrains
    <3>2. Vmdk!PlaceOf(h) \in Int
      BY <1>3, VmdkNumbers, SMT DEF Vmdk!Unallocated
    <3>3. end \in 1 .. VmdkPlaces + 1
      BY Zenon DEF VmdkIInv, Vmdk!TypeOK
    <3> QED  BY <1>2, <3>1, <3>2, <3>3, VmdkConstants, SMT
  <2> QED  BY <1>1, <1>3, <2>1, Zenon DEF VmdkIInv, VmdkGrains
<1>7. Vmdk!CopyNeverAhead'
  BY <1>1, Zenon DEF VmdkIInv, Vmdk!CopyNeverAhead
<1>8. ASSUME ~missed
      PROVE  Vmdk!Content' = Vmdk!Content
  <2>1. ASSUME NEW t \in Vmdk!Sector
        PROVE  Vmdk!Content'[t] = Vmdk!Content[t]
    <3> DEFINE h == Vmdk!GrainOf(t)
               i == Vmdk!SlotOf(t)
    <3>1. h \in Vmdk!Grain /\ i \in Vmdk!Slot
      BY VmdkSector
    <3>2. Vmdk!Content'[t] = IF h = tlb_grain THEN tlb[i] ELSE VmdkAt(Vmdk!PlaceOf(h)', vmdk_data', i)
      BY <1>1, VmdkContentNext, Zenon DEF VmdkNow, VmdkAt
    <3>3. Vmdk!Content[t] = VmdkNow(h, i)
      BY VmdkContent, Zenon
    <3>4. VmdkAt(Vmdk!PlaceOf(h), Vmdk!Flushed, i) = VmdkNow(h, i)
      BY <1>1, <1>8, <3>1, VmdkFlushHolds, Zenon
    <3> HIDE DEF h, i
    <3>5. CASE h = tlb_grain
      BY <1>1, <3>2, <3>3, <3>5, Zenon DEF VmdkNow
    <3>6. CASE h # tlb_grain
      BY <1>1, <1>3, <3>1, <3>2, <3>3, <3>4, <3>6, Zenon
    <3> QED  BY <3>5, <3>6
  <2> QED  BY <2>1, VmdkContent, VmdkContentNext, Zenon
<1> QED  BY <1>1, <1>4, <1>5, <1>6, <1>7, <1>8, Zenon DEF VmdkIInv, Vmdk!Disk!vars

-----------------------------------------------------------------------------
\* Single versions of values are as well typed as the values.
LEMMA VmdkOnlyType ==
  ASSUME NEW d, d \in [Vmdk!Sector -> Value]
  PROVE  Vmdk!Only(d) \in [Vmdk!Sector -> SUBSET Value]
BY Zenon DEF Vmdk!Only

\* Once the image is not open, the versions are what the file holds.
LEMMA VmdkClosed ==
  ASSUME vmdk_open' = FALSE,
         table' \in TablesType, table_copy' \in TablesType, vmdk_data' \in PlacesType,
         vmdk_versions' = Vmdk!Only(Vmdk!Content')
  PROVE  /\ VmdkVersions' /\ VmdkPosition' /\ VmdkMemory'
         /\ vmdk_versions' \in [Vmdk!Sector -> SUBSET Value]
         /\ vmdk_versions' = Vmdk!Disk!Only(Vmdk!Content')
         /\ Vmdk!Content' \in [Vmdk!Sector -> Value]
         /\ \A t \in Vmdk!Sector : Vmdk!Content'[t] =
              VmdkAt(Vmdk!PlaceOf(Vmdk!GrainOf(t))', vmdk_data', Vmdk!SlotOf(t))
<1>1. Vmdk!Content' \in [Vmdk!Sector -> Value]
  BY VmdkFileType, Zenon
<1>2. vmdk_versions' \in [Vmdk!Sector -> SUBSET Value]
  BY <1>1, VmdkOnlyType, Zenon
<1>3. \A t \in Vmdk!Sector : vmdk_versions'[t] = {Vmdk!Content'[t]}
  BY Zenon DEF Vmdk!Only
<1>4. \A t \in Vmdk!Sector : Vmdk!Content'[t] =
        VmdkAt(Vmdk!PlaceOf(Vmdk!GrainOf(t))', vmdk_data', Vmdk!SlotOf(t))
  BY VmdkContentNext, Zenon DEF VmdkNow, VmdkAt
<1>5. \A t \in Vmdk!Sector : Vmdk!Content'[t] = VmdkHeld(t)'
  BY <1>4, Zenon DEF VmdkHeld, VmdkAt
<1>6. VmdkVersions'
  BY <1>3, <1>5, Zenon DEF VmdkVersions
<1>7. VmdkPosition' /\ VmdkMemory'
  BY Zenon DEF VmdkPosition, VmdkMemory
<1> QED  BY <1>1, <1>2, <1>4, <1>6, <1>7, Zenon DEF Vmdk!Only, Vmdk!Disk!Only

\* The image is opened: no grain and no table is in memory.
LEMMA VmdkOpens ==
  ASSUME VmdkIInv, Vmdk!Open
  PROVE  VmdkIInv' /\ (~missed => UNCHANGED Vmdk!Disk!vars)
<1>1. /\ ~vmdk_open /\ vmdk_open' = TRUE
      /\ position' = Vmdk!Metadata
      /\ tlb_grain' = Vmdk!NoGrain
      /\ vmdk_dirty' = FALSE
      /\ current_flb_index' = 0
      /\ slb_cache_loaded' = FALSE
      /\ UNCHANGED <<table, table_copy, vmdk_data, end, tlb, slb_cache, vmdk_reply, vmdk_versions,
                     missed>>
  BY Zenon DEF Vmdk!Open, Vmdk!tables
<1>2. position' \in 0 .. VmdkPlaces + 1 /\ 0 \in Vmdk!Table
  BY <1>1, VmdkConstants, SMT DEF Vmdk!Metadata, Vmdk!Table
<1>3. Vmdk!TypeOK'
  BY <1>1, <1>2, Zenon DEF VmdkIInv, Vmdk!TypeOK
<1>4. VmdkMemory' /\ VmdkPosition'
  BY <1>1, Zenon DEF VmdkMemory, VmdkPosition
<1>5. \A h \in Vmdk!Grain : Vmdk!PlaceOf(h)' = Vmdk!PlaceOf(h)
  BY <1>1, Zenon DEF Vmdk!PlaceOf, Vmdk!TableInUse
<1>6. VmdkGrains'
  BY <1>1, <1>5, Zenon DEF VmdkIInv, VmdkGrains
<1>7. Vmdk!CopyNeverAhead'
  BY <1>1, Zenon DEF VmdkIInv, Vmdk!CopyNeverAhead
<1>8. ASSUME NEW t \in Vmdk!Sector
      PROVE  Vmdk!Content'[t] = Vmdk!Content[t] /\ VmdkHeld(t)' = VmdkHeld(t)
  <2> DEFINE h == Vmdk!GrainOf(t)
             i == Vmdk!SlotOf(t)
  <2>1. h \in Vmdk!Grain
    BY VmdkSector
  <2>2. h # Vmdk!NoGrain
    BY <2>1, VmdkNumbers, Zenon
  <2>3. Vmdk!Content'[t] = VmdkAt(Vmdk!PlaceOf(h)', vmdk_data', i)
    BY <1>1, <2>2, VmdkContentNext, Zenon DEF VmdkNow, VmdkAt
  <2>4. Vmdk!Content[t] = VmdkAt(Vmdk!PlaceOf(h), vmdk_data, i)
    BY <1>1, VmdkContent, Zenon DEF VmdkNow
  <2>5. /\ VmdkHeld(t) = VmdkAt(Vmdk!PlaceOf(h), vmdk_data, i)
        /\ VmdkHeld(t)' = VmdkAt(Vmdk!PlaceOf(h)', vmdk_data', i)
    BY Zenon DEF VmdkHeld, VmdkAt
  <2> HIDE DEF h, i
  <2> QED  BY <1>1, <1>5, <2>1, <2>3, <2>4, <2>5, Zenon
<1>9. ~missed => VmdkVersions'
  BY <1>1, <1>8, Zenon DEF VmdkIInv, VmdkVersions
<1>10. Vmdk!Content' = Vmdk!Content
  BY <1>8, VmdkContent, VmdkContentNext, Zenon
<1> QED  BY <1>1, <1>3, <1>4, <1>6, <1>7, <1>9, <1>10, Zenon DEF VmdkIInv, Vmdk!Disk!vars

\* close() flushes the grain in memory.
LEMMA VmdkCloses ==
  ASSUME VmdkIInv, Vmdk!Close
  PROVE  VmdkIInv' /\ (~missed => Vmdk!Disk!Close)
<1>1. /\ vmdk_open /\ Vmdk!CanFlush
      /\ vmdk_open' = FALSE
      /\ vmdk_data' = Vmdk!Flushed
      /\ end' = Vmdk!OldEnd
      /\ vmdk_dirty' = FALSE
      /\ vmdk_versions' = Vmdk!Only(Vmdk!Content')
      /\ UNCHANGED <<table, table_copy, position, tlb_grain, tlb, vmdk_reply, missed>>
      /\ UNCHANGED <<slb_cache, current_flb_index, slb_cache_loaded>>
  BY Zenon DEF Vmdk!Close, Vmdk!tables, Vmdk!slb
<1>2. /\ Vmdk!Flushed \in PlacesType
      /\ Vmdk!OldEnd \in 1 .. VmdkPlaces + 1
      /\ end <= Vmdk!OldEnd
  BY <1>1, VmdkFlushTypes, Zenon DEF VmdkIInv
<1>3. table' \in TablesType /\ table_copy' \in TablesType /\ vmdk_data' \in PlacesType
  BY <1>1, <1>2, Zenon DEF VmdkIInv, Vmdk!TypeOK, TablesType
<1>4. /\ VmdkVersions' /\ VmdkPosition' /\ VmdkMemory'
      /\ vmdk_versions' \in [Vmdk!Sector -> SUBSET Value]
      /\ vmdk_versions' = Vmdk!Disk!Only(Vmdk!Content')
      /\ Vmdk!Content' \in [Vmdk!Sector -> Value]
      /\ \A t \in Vmdk!Sector : Vmdk!Content'[t] =
           VmdkAt(Vmdk!PlaceOf(Vmdk!GrainOf(t))', vmdk_data', Vmdk!SlotOf(t))
  BY <1>1, <1>3, VmdkClosed, Zenon
<1>5. Vmdk!TypeOK'
  BY <1>1, <1>2, <1>3, <1>4, Zenon DEF VmdkIInv, Vmdk!TypeOK, PlacesType
<1>6. \A h \in Vmdk!Grain : /\ Vmdk!PlaceOf(h)' = Vmdk!PlaceOf(h)
                            /\ Vmdk!PlaceOf(h) \in Vmdk!Place \cup {Vmdk!Unallocated}
  <2>1. \A h \in Vmdk!Grain : Vmdk!PlaceOf(h)' = Vmdk!PlaceOf(h)
    BY <1>1, Zenon DEF Vmdk!PlaceOf, Vmdk!TableInUse
  <2> QED  BY <2>1, VmdkPlaceType, Zenon DEF VmdkIInv, Vmdk!TypeOK, TablesType
<1>7. VmdkGrains'
  <2>1. ASSUME NEW h \in Vmdk!Grain
        PROVE  Vmdk!PlaceOf(h) < Vmdk!OldEnd
    <3>1. Vmdk!PlaceOf(h) < end
      BY Zenon DEF VmdkIInv, VmdkGrains
    <3>2. Vmdk!PlaceOf(h) \in Int
      BY <1>6, VmdkNumbers, SMT DEF Vmdk!Unallocated
    <3>3. end \in 1 .. VmdkPlaces + 1
      BY Zenon DEF VmdkIInv, Vmdk!TypeOK
    <3> QED  BY <1>2, <3>1, <3>2, <3>3, VmdkConstants, SMT
  <2> QED  BY <1>1, <1>6, <2>1, Zenon DEF VmdkIInv, VmdkGrains
<1>8. Vmdk!CopyNeverAhead'
  BY <1>1, Zenon DEF VmdkIInv, Vmdk!CopyNeverAhead
<1>9. ASSUME ~missed
      PROVE  Vmdk!Content' = Vmdk!Content
  <2>1. ASSUME NEW t \in Vmdk!Sector
        PROVE  Vmdk!Content'[t] = Vmdk!Content[t]
    <3> DEFINE h == Vmdk!GrainOf(t)
               i == Vmdk!SlotOf(t)
    <3>1. h \in Vmdk!Grain /\ i \in Vmdk!Slot
      BY VmdkSector
    <3>2. Vmdk!Content'[t] = VmdkAt(Vmdk!PlaceOf(h)', vmdk_data', i)
      BY <1>4, Zenon
    <3>3. Vmdk!Content[t] = VmdkNow(h, i)
      BY VmdkContent, Zenon
    <3>4. VmdkAt(Vmdk!PlaceOf(h), Vmdk!Flushed, i) = VmdkNow(h, i)
      BY <1>1, <1>9, <3>1, VmdkFlushHolds, Zenon
    <3> HIDE DEF h, i
    <3> QED  BY <1>1, <1>6, <3>1, <3>2, <3>3, <3>4, Zenon
  <2> QED  BY <2>1, VmdkContent, VmdkContentNext, Zenon
<1>10. ASSUME ~missed
       PROVE  Vmdk!Disk!Close
  <2>1. vmdk_versions' = Vmdk!Disk!Only(Vmdk!Content)
    BY <1>4, <1>9, <1>10, Zenon
  <2> QED  BY <1>1, <1>9, <1>10, <2>1, Zenon DEF Vmdk!Disk!Close
<1> QED  BY <1>1, <1>4, <1>5, <1>7, <1>8, <1>10, Zenon DEF VmdkIInv

\* The program ends between two operations.
LEMMA VmdkCrashes ==
  ASSUME VmdkIInv, Vmdk!Crash
  PROVE  VmdkIInv' /\ (~missed => Vmdk!Disk!Crash)
<1>1. /\ vmdk_open /\ vmdk_open' = FALSE
      /\ vmdk_versions' = Vmdk!Only(Vmdk!Content')
      /\ UNCHANGED <<table, table_copy, vmdk_data, end, position, tlb_grain, tlb, vmdk_dirty>>
      /\ UNCHANGED <<slb_cache, current_flb_index, slb_cache_loaded, vmdk_reply, missed>>
  BY Zenon DEF Vmdk!Crash, Vmdk!tables, Vmdk!slb
<1>2. table' \in TablesType /\ table_copy' \in TablesType /\ vmdk_data' \in PlacesType
  BY <1>1, Zenon DEF VmdkIInv, Vmdk!TypeOK, TablesType, PlacesType
<1>3. /\ VmdkVersions' /\ VmdkPosition' /\ VmdkMemory'
      /\ vmdk_versions' \in [Vmdk!Sector -> SUBSET Value]
      /\ vmdk_versions' = Vmdk!Disk!Only(Vmdk!Content')
      /\ Vmdk!Content' \in [Vmdk!Sector -> Value]
      /\ \A t \in Vmdk!Sector : Vmdk!Content'[t] =
           VmdkAt(Vmdk!PlaceOf(Vmdk!GrainOf(t))', vmdk_data', Vmdk!SlotOf(t))
  BY <1>1, <1>2, VmdkClosed, Zenon
<1>4. Vmdk!TypeOK'
  BY <1>1, <1>3, Zenon DEF VmdkIInv, Vmdk!TypeOK
<1>5. \A h \in Vmdk!Grain : Vmdk!PlaceOf(h)' = Vmdk!PlaceOf(h)
  BY <1>1, Zenon DEF Vmdk!PlaceOf, Vmdk!TableInUse
<1>6. VmdkGrains'
  BY <1>1, <1>5, Zenon DEF VmdkIInv, VmdkGrains
<1>7. Vmdk!CopyNeverAhead'
  BY <1>1, Zenon DEF VmdkIInv, Vmdk!CopyNeverAhead
<1>8. ASSUME ~missed
      PROVE  Vmdk!Disk!Crash
  <2>1. ASSUME NEW t \in Vmdk!Sector
        PROVE  Vmdk!Content'[t] \in vmdk_versions[t]
    <3>1. VmdkHeld(t) = Vmdk!Content'[t]
      BY <1>1, <1>3, <1>5, VmdkSector, Zenon DEF VmdkHeld
    <3> QED  BY <1>8, <3>1, Zenon DEF VmdkIInv, VmdkVersions
  <2> QED  BY <1>1, <1>3, <2>1, Zenon DEF Vmdk!Disk!Crash
<1> QED  BY <1>1, <1>3, <1>4, <1>6, <1>7, <1>8, Zenon DEF VmdkIInv

\* ... or while it allocates a place.
LEMMA VmdkCrashesAllocating ==
  ASSUME VmdkIInv, NEW g \in Vmdk!Grain, NEW writes \in 0 .. 2, Vmdk!CrashAllocating(g, writes)
  PROVE  VmdkIInv' /\ (~missed => Vmdk!Disk!Crash)
<1> DEFINE t == Vmdk!TableOf(g)
           p == Vmdk!OldEnd
<1>1. t \in Vmdk!Table
  BY VmdkGrain
<1>2. /\ vmdk_open /\ vmdk_open' = FALSE
      /\ Vmdk!CanFlush /\ Vmdk!Exists(t) /\ g # tlb_grain
      /\ Vmdk!SlbFor(t)[Vmdk!EntryOf(g)] = Vmdk!Unallocated
      /\ p \in Vmdk!Place
      /\ vmdk_data' = [Vmdk!Flushed EXCEPT ![p] = Vmdk!ZeroGrain]
      /\ end' = p + 1
      /\ table' = IF Vmdk!TableEntered(writes) THEN Vmdk!Entered(table, InDirectory, g, p) ELSE table
      /\ table_copy' = IF Vmdk!CopyEntered(writes) THEN Vmdk!Entered(table_copy, InCopy, g, p)
                       ELSE table_copy
      /\ vmdk_versions' = Vmdk!Only(Vmdk!Content')
      /\ UNCHANGED <<position, tlb_grain, tlb, vmdk_dirty, vmdk_reply, missed>>
      /\ UNCHANGED <<slb_cache, current_flb_index, slb_cache_loaded>>
  BY Zenon DEF Vmdk!CrashAllocating, Vmdk!slb
<1>3. Vmdk!CopyEntered(writes) => Vmdk!TableEntered(writes)
  BY SMT DEF Vmdk!CopyEntered, Vmdk!TableEntered
<1>4. Vmdk!PlaceOf(g) = Vmdk!Unallocated
  BY <1>1, <1>2, VmdkCachedTable, Zenon DEF Vmdk!PlaceOf
<1>5. /\ Vmdk!Flushed \in PlacesType
      /\ end <= p
  BY <1>2, VmdkFlushTypes, Zenon DEF VmdkIInv
<1> HIDE DEF p
<1>6. /\ table \in TablesType /\ table_copy \in TablesType
      /\ \A h \in Vmdk!Grain : Vmdk!PlaceOf(h) \in Vmdk!Place \cup {Vmdk!Unallocated}
  BY VmdkPlaceType, Zenon DEF VmdkIInv, Vmdk!TypeOK, TablesType
<1>7. /\ table' \in TablesType /\ table_copy' \in TablesType
      /\ Vmdk!CopyNeverAhead'
      /\ \A h \in Vmdk!Grain : h # g => Vmdk!PlaceOf(h)' = Vmdk!PlaceOf(h)
      /\ Vmdk!PlaceOf(g)' \in {Vmdk!Unallocated, p}
  <2>1. /\ table' \in {table, Vmdk!Entered(table, InDirectory, g, p)}
        /\ table_copy' \in {table_copy, Vmdk!Entered(table_copy, InCopy, g, p)}
        /\ table_copy' # table_copy => table' = Vmdk!Entered(table, InDirectory, g, p)
    BY <1>2, <1>3, Zenon
  <2>2. Vmdk!CopyNeverAhead
    BY Zenon DEF VmdkIInv
  <2> QED  BY <1>2, <1>4, <1>6, <2>1, <2>2, VmdkEnters, Zenon
<1>8. /\ p \in Nat /\ p > 0 /\ p <= VmdkPlaces
      /\ p + 1 \in 1 .. VmdkPlaces + 1
      /\ p < p + 1 /\ Vmdk!Unallocated < p + 1
  <2>1. p \in Nat /\ p > 0 /\ p <= VmdkPlaces
    BY <1>2, VmdkNumbers, Zenon
  <2> QED  BY <2>1, VmdkConstants, SMT DEF Vmdk!Unallocated
<1>9. ASSUME NEW h \in Vmdk!Grain
      PROVE  Vmdk!PlaceOf(h) < p /\ Vmdk!PlaceOf(h) < p + 1 /\ Vmdk!PlaceOf(h) # p
  <2>1. Vmdk!PlaceOf(h) < end
    BY Zenon DEF VmdkIInv, VmdkGrains
  <2>2. Vmdk!PlaceOf(h) \in Int
    BY <1>6, VmdkNumbers, SMT DEF Vmdk!Unallocated
  <2>3. end \in 1 .. VmdkPlaces + 1
    BY Zenon DEF VmdkIInv, Vmdk!TypeOK
  <2> QED  BY <1>5, <1>8, <2>1, <2>2, <2>3, VmdkConstants, SMT
<1>10. VmdkGrains'
  <2>1. \A h \in Vmdk!Grain : Vmdk!PlaceOf(h)' < end'
    BY <1>2, <1>7, <1>8, <1>9, Zenon
  <2>2. ASSUME NEW h \in Vmdk!Grain, NEW k \in Vmdk!Grain,
               Vmdk!PlaceOf(h)' = Vmdk!PlaceOf(k)', Vmdk!PlaceOf(h)' # Vmdk!Unallocated
        PROVE  h = k
    <3>1. h = g <=> k = g
      BY <1>7, <1>9, <2>2, Zenon
    <3>2. CASE h = g
      BY <3>1, <3>2
    <3>3. CASE h # g
      BY <1>7, <2>2, <3>1, <3>3, Zenon DEF VmdkIInv, VmdkGrains
    <3> QED  BY <3>2, <3>3
  <2> QED  BY <2>1, <2>2, Zenon DEF VmdkGrains
<1>11. /\ Vmdk!ZeroGrain \in [Vmdk!Slot -> Value]
       /\ \A i \in Vmdk!Slot : Vmdk!ZeroGrain[i] = Zero
  BY VmdkConstants, Zenon DEF Vmdk!ZeroGrain
<1>12. /\ vmdk_data' \in PlacesType
       /\ vmdk_data'[p] = Vmdk!ZeroGrain
       /\ \A q \in Vmdk!Place : q # p => vmdk_data'[q] = Vmdk!Flushed[q]
  BY <1>2, <1>5, <1>11, Zenon DEF PlacesType
<1>13. /\ VmdkVersions' /\ VmdkPosition' /\ VmdkMemory'
       /\ vmdk_versions' \in [Vmdk!Sector -> SUBSET Value]
       /\ vmdk_versions' = Vmdk!Disk!Only(Vmdk!Content')
       /\ Vmdk!Content' \in [Vmdk!Sector -> Value]
       /\ \A s \in Vmdk!Sector : Vmdk!Content'[s] =
            VmdkAt(Vmdk!PlaceOf(Vmdk!GrainOf(s))', vmdk_data', Vmdk!SlotOf(s))
  BY <1>2, <1>7, <1>12, VmdkClosed, Zenon
<1>14. Vmdk!TypeOK'
  BY <1>2, <1>7, <1>8, <1>12, <1>13, Zenon DEF VmdkIInv, Vmdk!TypeOK, TablesType, PlacesType
<1>15. ASSUME ~missed
       PROVE  Vmdk!Disk!Crash
  <2>1. ASSUME NEW s \in Vmdk!Sector
        PROVE  Vmdk!Content'[s] \in vmdk_versions[s]
    <3> DEFINE h == Vmdk!GrainOf(s)
               i == Vmdk!SlotOf(s)
    <3>1. h \in Vmdk!Grain /\ i \in Vmdk!Slot
      BY VmdkSector
    <3>2. Vmdk!Content'[s] = VmdkAt(Vmdk!PlaceOf(h)', vmdk_data', i)
      BY <1>13, Zenon
    <3>3. VmdkNow(h, i) \in vmdk_versions[s]
      BY <1>15, VmdkContent, Zenon DEF VmdkIInv, VmdkVersions
    <3>4. VmdkAt(Vmdk!PlaceOf(h), Vmdk!Flushed, i) = VmdkNow(h, i)
      BY <1>2, <1>15, <3>1, VmdkFlushHolds, Zenon
    <3> HIDE DEF h, i
    <3>5. CASE h = g
      <4>1. VmdkNow(h, i) = Zero
        BY <1>2, <1>4, <3>5, Zenon DEF VmdkNow, VmdkAt
      <4>2. VmdkAt(Vmdk!PlaceOf(h)', vmdk_data', i) = Zero
        BY <1>7, <1>11, <1>12, <3>1, <3>5, Zenon DEF VmdkAt
      <4> QED  BY <3>2, <3>3, <4>1, <4>2, Zenon
    <3>6. CASE h # g
      <4>1. Vmdk!PlaceOf(h)' = Vmdk!PlaceOf(h)
        BY <1>7, <3>1, <3>6, Zenon
      <4>2. Vmdk!PlaceOf(h) # Vmdk!Unallocated =>
              vmdk_data'[Vmdk!PlaceOf(h)] = Vmdk!Flushed[Vmdk!PlaceOf(h)]
        BY <1>6, <1>9, <1>12, <3>1, Zenon
      <4>3. VmdkAt(Vmdk!PlaceOf(h)', vmdk_data', i) = VmdkAt(Vmdk!PlaceOf(h), Vmdk!Flushed, i)
        BY <4>1, <4>2, Zenon DEF VmdkAt
      <4> QED  BY <3>2, <3>3, <3>4, <4>3, Zenon
    <3> QED  BY <3>5, <3>6
  <2> QED  BY <1>2, <1>13, <2>1, Zenon DEF Vmdk!Disk!Crash
<1> QED  BY <1>2, <1>7, <1>10, <1>13, <1>14, <1>15, Zenon DEF VmdkIInv

\* Any image that is found keeps the invariant, and is a disk.
LEMMA VmdkStarts ==
  ASSUME Vmdk!Init
  PROVE  VmdkIInv /\ Vmdk!Disk!Init
<1>1. /\ end \in 1 .. VmdkPlaces + 1
      /\ table \in [Vmdk!Table -> [Vmdk!Entry -> 0 .. end - 1]]
      /\ table_copy = [t \in Vmdk!Table |-> IF t \in InCopy THEN table[t] ELSE Vmdk!NoEntries]
      /\ \A g, h \in Vmdk!Grain :
           Vmdk!PlaceOf(g) = Vmdk!PlaceOf(h) /\ Vmdk!PlaceOf(g) # Vmdk!Unallocated => g = h
      /\ vmdk_data \in [Vmdk!Place -> [Vmdk!Slot -> Value]]
      /\ position = Vmdk!Metadata
      /\ vmdk_open = FALSE
      /\ tlb_grain = Vmdk!NoGrain /\ tlb = Vmdk!ZeroGrain /\ vmdk_dirty = FALSE
      /\ slb_cache = Vmdk!NoEntries /\ current_flb_index = 0 /\ slb_cache_loaded = FALSE
      /\ vmdk_reply = Zero
      /\ vmdk_versions = Vmdk!Only(Vmdk!Content)
      /\ missed = FALSE
  BY Zenon DEF Vmdk!Init
<1>2. /\ 0 .. end - 1 \subseteq Vmdk!Place \cup {Vmdk!Unallocated}
      /\ \A p \in 0 .. end - 1 : p < end
      /\ 0 \in 0 .. end - 1
      /\ position \in 0 .. VmdkPlaces + 1 /\ 0 \in Vmdk!Table
  BY <1>1, VmdkConstants, SMT DEF Vmdk!Place, Vmdk!Unallocated, Vmdk!Metadata, Vmdk!Table
<1>3. table_copy \in [Vmdk!Table -> [Vmdk!Entry -> 0 .. end - 1]]
  <2>1. Vmdk!NoEntries \in [Vmdk!Entry -> 0 .. end - 1]
    BY <1>2, Zenon DEF Vmdk!NoEntries, Vmdk!Unallocated
  <2>2. ASSUME NEW t \in Vmdk!Table
        PROVE  (IF t \in InCopy THEN table[t] ELSE Vmdk!NoEntries) \in [Vmdk!Entry -> 0 .. end - 1]
    BY <1>1, <2>1, Zenon
  <2> QED  BY <1>1, <2>2, Zenon
<1>4. table \in TablesType /\ table_copy \in TablesType
  <2>1. ASSUME NEW f \in [Vmdk!Table -> [Vmdk!Entry -> 0 .. end - 1]]
        PROVE  f \in TablesType
    BY <1>2, Zenon DEF TablesType
  <2> QED  BY <1>1, <1>3, <2>1, Zenon
<1>5. VmdkGrains
  <2>1. ASSUME NEW g \in Vmdk!Grain
        PROVE  Vmdk!PlaceOf(g) < end
    <3>1. Vmdk!TableOf(g) \in Vmdk!Table /\ Vmdk!EntryOf(g) \in Vmdk!Entry
      BY VmdkGrain
    <3>2. Vmdk!TableInUse(Vmdk!TableOf(g)) \in [Vmdk!Entry -> 0 .. end - 1]
      BY <1>1, <1>3, <3>1, Zenon DEF Vmdk!TableInUse
    <3>3. Vmdk!PlaceOf(g) \in 0 .. end - 1
      BY <3>1, <3>2, Zenon DEF Vmdk!PlaceOf
    <3> QED  BY <1>2, <3>3, Zenon
  <2> QED  BY <1>1, <2>1, Zenon DEF VmdkGrains
<1>6. Vmdk!CopyNeverAhead
  <2>1. \A t \in InCopy : table_copy[t] = table[t]
    BY <1>1, VmdkConstants, Zenon
  <2> QED  BY <2>1, Zenon DEF Vmdk!CopyNeverAhead
<1>7. VmdkMemory /\ VmdkPosition
  BY <1>1, Zenon DEF VmdkMemory, VmdkPosition
<1>8. \A t \in Vmdk!Sector : Vmdk!Content[t] = VmdkHeld(t)
  BY <1>1, VmdkContent, Zenon DEF VmdkNow, VmdkHeld
<1>9. Vmdk!Content \in [Vmdk!Sector -> Value]
  <2>1. ASSUME NEW t \in Vmdk!Sector
        PROVE  VmdkHeld(t) \in Value
    <3> DEFINE p == Vmdk!PlaceOf(Vmdk!GrainOf(t))
    <3>1. p \in Vmdk!Place \cup {Vmdk!Unallocated} /\ Vmdk!SlotOf(t) \in Vmdk!Slot
      BY <1>4, VmdkPlaceType, VmdkSector, Zenon
    <3> HIDE DEF p
    <3>2. p # Vmdk!Unallocated => vmdk_data[p] \in [Vmdk!Slot -> Value]
      BY <1>1, <3>1, Zenon
    <3>3. VmdkAt(p, vmdk_data, Vmdk!SlotOf(t)) \in Value
      BY <3>1, <3>2, VmdkConstants, Zenon DEF VmdkAt
    <3> QED  BY <3>3, Zenon DEF VmdkHeld, p
  <2> QED  BY <1>8, <2>1, VmdkContent, Zenon
<1>10. Vmdk!TypeOK
  <2>1. vmdk_versions \in [Vmdk!Sector -> SUBSET Value]
    BY <1>1, <1>9, VmdkOnlyType, Zenon
  <2>2. tlb \in [Vmdk!Slot -> Value] /\ slb_cache \in [Vmdk!Entry -> Vmdk!Place \cup {Vmdk!Unallocated}]
    BY <1>1, VmdkConstants, Zenon DEF Vmdk!ZeroGrain, Vmdk!NoEntries
  <2>3. vmdk_dirty \in BOOLEAN /\ vmdk_open \in BOOLEAN /\ slb_cache_loaded \in BOOLEAN /\ missed \in BOOLEAN
    BY <1>1, Zenon
  <2>4. current_flb_index \in Vmdk!Table /\ vmdk_reply \in Value
    BY <1>1, <1>2, VmdkConstants, Zenon
  <2> QED  BY <1>1, <1>2, <1>4, <2>1, <2>2, <2>3, <2>4, Zenon DEF Vmdk!TypeOK, TablesType
<1>11. VmdkVersions
  <2>1. \A t \in Vmdk!Sector : vmdk_versions[t] = {Vmdk!Content[t]}
    BY <1>1, Zenon DEF Vmdk!Only
  <2> QED  BY <1>8, <2>1, Zenon DEF VmdkVersions
<1>12. Vmdk!Disk!Init
  <2>1. vmdk_versions = Vmdk!Disk!Only(Vmdk!Content)
    BY <1>1, Zenon DEF Vmdk!Only, Vmdk!Disk!Only
  <2> QED  BY <1>1, <1>9, <2>1, VmdkConstants, Zenon DEF Vmdk!Disk!Init
<1> QED  BY <1>5, <1>6, <1>7, <1>10, <1>11, <1>12, Zenon DEF VmdkIInv

\* Every step keeps the invariant, and is one of the disk until a table is missed.
LEMMA VmdkSteps ==
  ASSUME VmdkIInv, Vmdk!Next
  PROVE  /\ VmdkIInv'
         /\ ~missed => [Vmdk!Disk!Next]_(Vmdk!Disk!vars)
<1>1. CASE Vmdk!Open
  BY <1>1, VmdkOpens, Zenon
<1>2. ASSUME NEW s \in Vmdk!Sector, Vmdk!ReadSector(s)
      PROVE  VmdkIInv' /\ (~missed => [Vmdk!Disk!Next]_(Vmdk!Disk!vars))
  BY <1>2, VmdkReads, Zenon DEF Vmdk!Disk!Next
<1>3. ASSUME NEW s \in Vmdk!Sector, NEW v \in Value, Vmdk!WriteSector(s, v)
      PROVE  VmdkIInv' /\ (~missed => [Vmdk!Disk!Next]_(Vmdk!Disk!vars))
  BY <1>3, VmdkWrites, Zenon DEF Vmdk!Disk!Next
<1>4. ASSUME NEW g \in Vmdk!Grain, Vmdk!SeekFails(g)
      PROVE  VmdkIInv' /\ (~missed => [Vmdk!Disk!Next]_(Vmdk!Disk!vars))
  BY <1>4, VmdkFails, Zenon
<1>5. CASE Vmdk!Close
  BY <1>5, VmdkCloses, Zenon DEF Vmdk!Disk!Next
<1>6. CASE Vmdk!Crash
  BY <1>6, VmdkCrashes, Zenon DEF Vmdk!Disk!Next
<1>7. ASSUME NEW g \in Vmdk!Grain, NEW writes \in 0 .. 2, Vmdk!CrashAllocating(g, writes)
      PROVE  VmdkIInv' /\ (~missed => [Vmdk!Disk!Next]_(Vmdk!Disk!vars))
  BY <1>7, VmdkCrashesAllocating, Zenon DEF Vmdk!Disk!Next
<1> QED  BY <1>1, <1>2, <1>3, <1>4, <1>5, <1>6, <1>7, Zenon DEF Vmdk!Next

-----------------------------------------------------------------------------
(* The files of the host.                                                  *)

\* What is assumed of the constants.
LEMMA FileConstants ==
  Zero \in Value /\ CacheLimit \in Nat /\ MaxLength \in Nat
BY ConstantsAssumption DEF Files!ConstantsOK

\* A function over the first n numbers is a sequence of length n.
LEMMA FunctionIsSequence ==
  ASSUME NEW S, NEW n \in Nat, NEW s \in [1 .. n -> S]
  PROVE  s \in Seq(S) /\ Len(s) = n
<1>1. s \in Seq(S)
  BY SeqDef, Zenon
<1>2. Len(s) \in Nat /\ DOMAIN s = 1 .. Len(s)
  BY <1>1, LenProperties, Zenon
<1>3. DOMAIN s = 1 .. n
  BY Zenon
<1>4. 1 .. Len(s) = 1 .. n
  BY <1>2, <1>3, Zenon
<1> DEFINE m == Len(s)
<1> HIDE DEF m
<1>5. m = n
  <2>1. m \in Nat /\ 1 .. m = 1 .. n
    BY <1>2, <1>4, Zenon DEF m
  <2>2. \A i \in Int : i \in 1 .. m <=> i \in 1 .. n
    BY <2>1, Zenon
  <2>3. m < n => n \in 1 .. n /\ n \notin 1 .. m
    BY <2>1, SMT
  <2>4. n < m => m \in 1 .. m /\ m \notin 1 .. n
    BY <2>1, SMT
  <2> QED  BY <2>1, <2>2, <2>3, <2>4, SMT
<1> QED  BY <1>1, <1>5, Zenon DEF m

\* The bytes of a file are the sequences that are not too long.
LEMMA BytesAreShort ==
  ASSUME NEW s
  PROVE  s \in Files!Bytes <=> s \in Seq(Value) /\ Len(s) \in 0 .. MaxLength
<1>1. ASSUME s \in Files!Bytes
      PROVE  s \in Seq(Value) /\ Len(s) \in 0 .. MaxLength
  <2>1. PICK n \in 0 .. MaxLength : s \in [1 .. n -> Value]
    BY <1>1, Zenon DEF Files!Bytes
  <2>2. n \in Nat
    BY FileConstants, SMT
  <2>3. s \in Seq(Value) /\ Len(s) = n
    BY <2>1, <2>2, FunctionIsSequence, Zenon
  <2> QED  BY <2>3, Zenon
<1>2. ASSUME s \in Seq(Value), Len(s) \in 0 .. MaxLength
      PROVE  s \in Files!Bytes
  <2>1. s \in [1 .. Len(s) -> Value]
    BY <1>2, LenProperties, Zenon
  <2> QED  BY <1>2, <2>1, Zenon DEF Files!Bytes
<1> QED  BY <1>1, <1>2, Zenon

\* None, or few enough, are bytes of a file.
LEMMA NoBytes == <<>> \in Files!Bytes /\ Len(<<>>) = 0
<1>1. <<>> \in Seq(Value) /\ Len(<<>>) = 0
  BY EmptySeq, Zenon
<1>2. 0 \in 0 .. MaxLength
  BY FileConstants, SMT
<1> QED  BY <1>1, <1>2, BytesAreShort, Zenon

\* The length of a file once bytes were written to it.
LengthWritten(s, at, b) == IF at + Len(b) > Len(s) THEN at + Len(b) ELSE Len(s)

\* What is written to a file leaves bytes of that length.
LEMMA OverwrittenBytes ==
  ASSUME NEW s \in Files!Bytes, NEW b \in Files!Bytes, NEW at \in Nat,
         at + Len(b) <= MaxLength
  PROVE  /\ Files!Overwritten(s, at, b) \in Files!Bytes
         /\ Len(Files!Overwritten(s, at, b)) = LengthWritten(s, at, b)
         /\ LengthWritten(s, at, b) \in Nat
<1> DEFINE m == Len(s)
           k == Len(b)
           n == LengthWritten(s, at, b)
           w == Files!Overwritten(s, at, b)
<1>1. /\ m \in Nat /\ m <= MaxLength /\ k \in Nat
      /\ s \in [1 .. m -> Value] /\ b \in [1 .. k -> Value]
  <2>1. s \in Seq(Value) /\ b \in Seq(Value) /\ m \in 0 .. MaxLength /\ k \in 0 .. MaxLength
    BY BytesAreShort, Zenon
  <2>2. s \in [1 .. m -> Value] /\ b \in [1 .. k -> Value]
    BY <2>1, LenProperties, Zenon
  <2> HIDE DEF m, k
  <2> QED  BY <2>1, <2>2, FileConstants, SMT
<1>2. n = IF at + k > m THEN at + k ELSE m
  BY Zenon DEF LengthWritten
<1>3. w = [i \in 1 .. n |-> IF i \in at + 1 .. at + k THEN b[i - at]
                            ELSE IF i <= m THEN s[i] ELSE Zero]
  BY Zenon DEF Files!Overwritten, LengthWritten
<1>4. at + k <= MaxLength
  BY Zenon
<1> HIDE DEF m, k, n, w
<1>5. n \in Nat /\ n <= MaxLength
  BY <1>1, <1>2, <1>4, FileConstants, SMT
<1>6. ASSUME NEW i \in 1 .. n
      PROVE  (IF i \in at + 1 .. at + k THEN b[i - at] ELSE IF i <= m THEN s[i] ELSE Zero) \in Value
  <2>1. i \in at + 1 .. at + k => i - at \in 1 .. k
    BY <1>1, <1>5, SMT
  <2>2. i <= m => i \in 1 .. m
    BY <1>1, <1>5, SMT
  <2> QED  BY <1>1, <2>1, <2>2, FileConstants, Zenon
<1>7. w \in [1 .. n -> Value]
  BY <1>3, <1>6, Zenon
<1>8. w \in Seq(Value) /\ Len(w) = n
  BY <1>5, <1>7, FunctionIsSequence, Zenon
<1>9. n \in 0 .. MaxLength
  BY <1>5, FileConstants, SMT
<1> QED  BY <1>5, <1>8, <1>9, BytesAreShort, Zenon DEF w, n

\* What is written over the whole of a file, from its beginning, is the file.
LEMMA OverwrittenWhole ==
  ASSUME NEW s \in Files!Bytes, NEW b \in Files!Bytes, Len(s) <= Len(b)
  PROVE  Files!Overwritten(s, 0, b) = b
<1> DEFINE m == Len(s)
           k == Len(b)
<1>1. /\ m \in Nat /\ k \in Nat
      /\ b \in [1 .. k -> Value]
  <2>1. s \in Seq(Value) /\ b \in Seq(Value)
    BY BytesAreShort, Zenon
  <2> QED  BY <2>1, LenProperties, Zenon
<1>2. m <= k
  BY Zenon
<1>3. Files!Overwritten(s, 0, b)
        = [i \in 1 .. (IF 0 + k > m THEN 0 + k ELSE m) |->
             IF i \in 0 + 1 .. 0 + k THEN b[i - 0] ELSE IF i <= m THEN s[i] ELSE Zero]
  BY Zenon DEF Files!Overwritten
<1> HIDE DEF m, k
<1>4. (IF 0 + k > m THEN 0 + k ELSE m) = k
  BY <1>1, <1>2, SMT
<1>5. \A i \in 1 .. k : i \in 0 + 1 .. 0 + k /\ i - 0 = i
  BY <1>1, SMT
<1>6. \A i \in 1 .. k :
        (IF i \in 0 + 1 .. 0 + k THEN b[i - 0] ELSE IF i <= m THEN s[i] ELSE Zero) = b[i]
  BY <1>5, Zenon
<1>7. Files!Overwritten(s, 0, b)
        = [i \in 1 .. k |->
             IF i \in 0 + 1 .. 0 + k THEN b[i - 0] ELSE IF i <= m THEN s[i] ELSE Zero]
  BY <1>3, <1>4, Zenon
<1>8. Files!Overwritten(s, 0, b) = [i \in 1 .. k |-> b[i]]
  BY <1>6, <1>7, Zenon
<1>9. b = [i \in 1 .. k |-> b[i]]
  BY <1>1, Zenon
<1> QED  BY <1>8, <1>9, Zenon

\* What is read of a file, at most n bytes, is bytes, and leaves the position in
\* the file.
LEMMA AvailableBytes ==
  ASSUME NEW s \in Files!Bytes, NEW at \in 0 .. MaxLength, NEW n \in Nat
  PROVE  /\ Files!Available(s, at, n) \in Files!Bytes
         /\ at + Len(Files!Available(s, at, n)) \in 0 .. MaxLength
         /\ Len(Files!Available(s, at, n)) \in 0 .. MaxLength
<1> DEFINE m == Len(s)
           k == IF at + n < m THEN at + n ELSE m
           w == Files!Available(s, at, n)
<1>1. s \in Seq(Value) /\ m \in 0 .. MaxLength /\ s \in [1 .. m -> Value]
  BY BytesAreShort, LenProperties, Zenon
<1>2. w = SubSeq(s, at + 1, k)
  BY Zenon DEF Files!Available
<1>3. k \in Int /\ k <= m /\ k <= MaxLength /\ at + 1 \in Int
  <2> HIDE DEF m
  <2> QED  BY <1>1, FileConstants, SMT
<1> HIDE DEF m, k, w
<1>4. \A i \in at + 1 .. k : i \in 1 .. m
  BY <1>1, <1>3, SMT
<1>5. \A i \in at + 1 .. k : s[i] \in Value
  BY <1>1, <1>4, Zenon
<1>6. w \in Seq(Value) /\ Len(w) = IF at + 1 <= k THEN k - (at + 1) + 1 ELSE 0
  <2> DEFINE j == at + 1
  <2>1. j \in Int /\ k \in Int
    BY <1>3
  <2>2. \A i \in j .. k : s[i] \in Value
    BY <1>5
  <2> HIDE DEF j
  <2>3. SubSeq(s, j, k) \in Seq(Value)
    BY <2>1, <2>2, SubSeqProperties
  <2>4. Len(SubSeq(s, j, k)) = IF j <= k THEN k - j + 1 ELSE 0
    BY <2>1, <2>2, SubSeqProperties
  <2> QED  BY <1>2, <2>3, <2>4, Zenon DEF j
<1> DEFINE l == Len(w)
<1>7. l = IF at + 1 <= k THEN k - (at + 1) + 1 ELSE 0
  BY <1>6, Zenon
<1> HIDE DEF l
<1>8. at + l \in 0 .. MaxLength /\ l \in 0 .. MaxLength
  BY <1>1, <1>3, <1>7, FileConstants, SMT
<1> QED  BY <1>6, <1>8, BytesAreShort, Zenon DEF l, w

\* A read that stops where the file ends returns what is available.
LEMMA ReadStopsAtEnd ==
  ASSUME NEW s \in Files!Bytes, NEW at \in 0 .. MaxLength, NEW n \in 1 .. MaxLength
  PROVE  (IF at >= Len(s) THEN <<>>
          ELSE Files!Available(s, at, IF at + n < Len(s) THEN n ELSE Len(s) - at))
           = Files!Available(s, at, n)
<1> DEFINE m == Len(s)
           k == IF at + n < m THEN n ELSE m - at
<1>1. m \in Nat
  <2>1. m \in 0 .. MaxLength
    BY BytesAreShort, Zenon
  <2> HIDE DEF m
  <2> QED  BY <2>1, FileConstants, SMT
<1>2. /\ Files!Available(s, at, n) = SubSeq(s, at + 1, IF at + n < m THEN at + n ELSE m)
      /\ Files!Available(s, at, k) = SubSeq(s, at + 1, IF at + k < m THEN at + k ELSE m)
  BY Zenon DEF Files!Available
<1> SUFFICES (IF at >= m THEN <<>> ELSE Files!Available(s, at, k)) = Files!Available(s, at, n)
  BY Zenon
<1> HIDE DEF m
<1>3. CASE at >= m
  <2>1. (IF at + n < m THEN at + n ELSE m) = m
    BY <1>1, <1>3, FileConstants, SMT
  <2>2. at + 1 \in Int /\ m \in Int /\ m < at + 1
    BY <1>1, <1>3, FileConstants, SMT
  <2>3. SubSeq(s, at + 1, m) = <<>>
    <3> DEFINE j == at + 1
    <3>1. j \in Int /\ m < j
      BY <2>2
    <3> HIDE DEF j
    <3>2. SubSeq(s, j, m) = <<>>
      BY <2>2, <3>1, SubSeqEmpty
    <3> QED  BY <3>2 DEF j
  <2>4. Files!Available(s, at, n) = SubSeq(s, at + 1, m)
    BY <1>2, <2>1, Zenon
  <2> QED  BY <1>3, <2>3, <2>4, Zenon
<1>4. CASE ~(at >= m)
  <2>1. (IF at + k < m THEN at + k ELSE m) = (IF at + n < m THEN at + n ELSE m)
    BY <1>1, <1>4, FileConstants, SMT
  <2> QED  BY <1>2, <1>4, <2>1, Zenon
<1> QED  BY <1>3, <1>4

-----------------------------------------------------------------------------
\* What holds of the file: the handle knows its length, what is not dirty is
\* saved, and what could be left of it is something it held since it was saved.
FileIInv(f) ==
  /\ f \in open /\ handle[f].cached => Len(stream[f]) <= Len(handle[f].data)
  /\ f \in open /\ ~handle[f].cached => handle[f].size = Len(stream[f])
  /\ f \in open /\ ~handle[f].dirty => durable[f] = Files!Held(f) /\ stream[f] = Files!Held(f)
  /\ f \notin open => durable[f] = stream[f]
  /\ {Files!Held(f), stream[f], durable[f]} \subseteq file_versions[f]
  /\ unflushed # {} /\ f \in open \ unflushed => ~handle[f].dirty

\* What holds of the files of the host.
FilesIInv == Files!TypeOK /\ \A f \in {image} : FileIInv(f)

\* There is one file: what is set of it is all that changes.
LEMMA OneFile ==
  ASSUME NEW f \in {image}, NEW S, NEW p \in S,
         NEW before \in [{image} -> S], NEW after \in [{image} -> S],
         after[f] = p
  PROVE  after = [before EXCEPT ![f] = p]
BY Zenon

\* What a handle is made of.
LEMMA HandleType ==
  ASSUME NEW h \in Files!ExternalHandle
  PROVE  /\ h.data \in Files!Bytes /\ h.pos \in 0 .. MaxLength /\ h.size \in 0 .. MaxLength
         /\ h.dirty \in BOOLEAN /\ h.cached \in BOOLEAN
BY Zenon DEF Files!ExternalHandle

\* What the guest's file holds, and its position, now and in the next state.
LEMMA FileContent ==
  /\ Files!Content = [f \in {image} |-> Files!Held(f)]
  /\ Files!Content' = [f \in {image} |-> Files!Held(f)']
BY Zenon DEF Files!Content, Files!Held

\* The file holds bytes.
LEMMA HeldType ==
  ASSUME Files!TypeOK, NEW f \in {image}
  PROVE  Files!Held(f) \in Files!Bytes
<1>1. stream[f] \in Files!Bytes /\ handle[f] \in Files!ExternalHandle
  BY Zenon DEF Files!TypeOK
<1> QED  BY <1>1, HandleType, Zenon DEF Files!Held

\* A handle is replaced.
LEMMA HandleSet ==
  ASSUME Files!TypeOK, NEW f \in {image}, NEW r \in Files!ExternalHandle,
         handle' = [handle EXCEPT ![f] = r]
  PROVE  handle' \in [{image} -> Files!ExternalHandle] /\ handle'[f] = r
BY Zenon DEF Files!TypeOK

\* Its position is.
LEMMA PositionSet ==
  ASSUME NEW h \in Files!ExternalHandle, NEW p \in 0 .. MaxLength
  PROVE  /\ [h EXCEPT !.pos = p] \in Files!ExternalHandle
         /\ [h EXCEPT !.pos = p].pos = p
         /\ [h EXCEPT !.pos = p].data = h.data
         /\ [h EXCEPT !.pos = p].size = h.size
         /\ [h EXCEPT !.pos = p].dirty = h.dirty
         /\ [h EXCEPT !.pos = p].cached = h.cached
BY SMT DEF Files!ExternalHandle

\* Where the file is moved to, when only the position changes.
LEMMA FileMoves ==
  ASSUME FilesIInv, NEW f \in {image}, NEW p \in 0 .. MaxLength,
         unflushed = {}, f \in open,
         handle' = [handle EXCEPT ![f].pos = p],
         UNCHANGED <<stream, durable, open, unflushed, file_versions>>,
         file_reply' \in [count : 0 .. MaxLength, bytes : Files!Bytes]
  PROVE  /\ FilesIInv'
         /\ UNCHANGED Files!Content
         /\ [g \in {image} |-> handle[g].pos]' = [[g \in {image} |-> handle[g].pos] EXCEPT ![f] = p]
<1> DEFINE r == [handle[f] EXCEPT !.pos = p]
<1>1. handle[f] \in Files!ExternalHandle
  BY Zenon DEF FilesIInv, Files!TypeOK
<1>2. /\ r \in Files!ExternalHandle
      /\ r.pos = p /\ r.data = handle[f].data /\ r.size = handle[f].size
      /\ r.dirty = handle[f].dirty /\ r.cached = handle[f].cached
  BY <1>1, PositionSet
<1>3. handle' = [handle EXCEPT ![f] = r]
  BY Zenon
<1> HIDE DEF r
<1>4. handle' \in [{image} -> Files!ExternalHandle] /\ handle'[f] = r
  BY <1>2, <1>3, HandleSet, Zenon DEF FilesIInv
<1>5. Files!Held(f)' = Files!Held(f)
  BY <1>2, <1>4, Zenon DEF Files!Held
<1>6. Files!TypeOK'
  BY <1>4, Zenon DEF FilesIInv, Files!TypeOK
<1>7. FileIInv(f)'
  <2>1. FileIInv(f)
    BY Zenon DEF FilesIInv
  <2> QED  BY <1>2, <1>4, <1>5, <2>1, Zenon DEF FileIInv
<1>8. Files!Content' = Files!Content
  BY <1>5, FileContent, Zenon
<1>9. [g \in {image} |-> handle[g].pos]' = [[g \in {image} |-> handle[g].pos] EXCEPT ![f] = p]
  <2>1. handle'[f].pos = p
    BY <1>2, <1>4, Zenon
  <2> DEFINE before == [g \in {image} |-> handle[g].pos]
             after == [g \in {image} |-> handle'[g].pos]
  <2>2. after[f] = p
    BY <2>1, Zenon
  <2>3. before \in [{image} -> 0 .. MaxLength] /\ after \in [{image} -> 0 .. MaxLength]
    BY <1>4, HandleType, Zenon DEF FilesIInv, Files!TypeOK
  <2>4. [g \in {image} |-> handle[g].pos]' = after
    BY Zenon
  <2> HIDE DEF before, after
  <2>5. after = [before EXCEPT ![f] = p]
    BY <2>2, <2>3, OneFile, Zenon
  <2> QED  BY <2>4, <2>5, Zenon DEF before
<1> QED  BY <1>6, <1>7, <1>8, <1>9, Zenon DEF FilesIInv

-----------------------------------------------------------------------------
\* The handle knows the length of the file.
LEMMA LengthIsKnown ==
  ASSUME FilesIInv, NEW f \in {image}, f \in open
  PROVE  /\ Files!LengthOf(handle[f]) = Len(Files!Held(f))
         /\ Len(Files!Held(f)) \in 0 .. MaxLength
         /\ Files!Held(f) \in Files!Bytes
<1>1. Files!Held(f) \in Files!Bytes
  BY HeldType, Zenon DEF FilesIInv
<1>2. FileIInv(f)
  BY Zenon DEF FilesIInv
<1>3. handle[f].cached => Files!LengthOf(handle[f]) = Len(Files!Held(f))
  BY Zenon DEF Files!LengthOf, Files!Held
<1>4. ~handle[f].cached => Files!LengthOf(handle[f]) = Len(Files!Held(f))
  BY <1>2, Zenon DEF Files!LengthOf, Files!Held, FileIInv
<1> QED  BY <1>1, <1>3, <1>4, BytesAreShort, Zenon

\* wpb_lseek.
LEMMA FileSeeks ==
  ASSUME FilesIInv, NEW f \in {image}, NEW offset \in 0 .. MaxLength, Files!wpb_lseek(f, offset)
  PROVE  FilesIInv' /\ Files!Backed!Seek(f, offset)
<1>1. /\ unflushed = {} /\ f \in open
      /\ handle' = [handle EXCEPT ![f].pos = offset]
      /\ UNCHANGED <<stream, durable, open, unflushed, file_reply, file_versions>>
  BY Zenon DEF Files!wpb_lseek, Files!Idle
<1>2. file_reply' \in [count : 0 .. MaxLength, bytes : Files!Bytes]
  BY <1>1, Zenon DEF FilesIInv, Files!TypeOK
<1>3. offset \in Nat
  BY FileConstants, SMT
<1> QED  BY <1>1, <1>2, <1>3, FileMoves, Zenon DEF Files!Backed!Seek

\* ... from the end.
LEMMA FileSeeksFromEnd ==
  ASSUME FilesIInv, NEW f \in {image}, NEW offset \in -MaxLength .. MaxLength,
         Files!LseekFromEnd(f, offset)
  PROVE  FilesIInv' /\ Files!Backed!SeekFromEnd(f, offset)
<1> DEFINE p == Len(Files!Held(f)) + offset
<1>1. unflushed = {} /\ f \in open
  BY Zenon DEF Files!LseekFromEnd, Files!Idle
<1>2. Files!LengthOf(handle[f]) = Len(Files!Held(f))
  BY <1>1, LengthIsKnown
<1>3. /\ p \in 0 .. MaxLength
      /\ handle' = [handle EXCEPT ![f].pos = p]
      /\ UNCHANGED <<stream, durable, open, unflushed, file_reply, file_versions>>
  BY <1>2, Zenon DEF Files!LseekFromEnd
<1>4. file_reply' \in [count : 0 .. MaxLength, bytes : Files!Bytes]
  BY <1>3, Zenon DEF FilesIInv, Files!TypeOK
<1>5. p = Len(Files!Content[f]) + offset
  BY FileContent, Zenon
<1>6. /\ FilesIInv'
      /\ UNCHANGED Files!Content
      /\ [g \in {image} |-> handle[g].pos]' = [[g \in {image} |-> handle[g].pos] EXCEPT ![f] = p]
  <2> HIDE DEF p
  <2> QED  BY <1>1, <1>3, <1>4, FileMoves, Zenon
<1>7. Len(Files!Content[f]) + offset >= 0
  <2>1. p >= 0
    <3> HIDE DEF p
    <3> QED  BY <1>3, FileConstants, SMT
  <2> QED  BY <1>5, <2>1, Zenon
<1>8. [g \in {image} |-> handle[g].pos]'
        = [[g \in {image} |-> handle[g].pos] EXCEPT ![f] = Len(Files!Content[f]) + offset]
  BY <1>5, <1>6, Zenon
<1> QED  BY <1>3, <1>6, <1>7, <1>8, Zenon DEF Files!Backed!SeekFromEnd

\* wpb_length.
LEMMA FileLength ==
  ASSUME FilesIInv, NEW f \in {image}, Files!wpb_length(f)
  PROVE  FilesIInv' /\ Files!Backed!Length(f)
<1>1. unflushed = {} /\ f \in open
  BY Zenon DEF Files!wpb_length, Files!Idle
<1>2. /\ Files!LengthOf(handle[f]) = Len(Files!Held(f))
      /\ Len(Files!Held(f)) \in 0 .. MaxLength
  BY <1>1, LengthIsKnown
<1>3. /\ file_reply' = [count |-> Len(Files!Held(f)), bytes |-> <<>>]
      /\ UNCHANGED <<stream, durable, open, handle, unflushed, file_versions>>
  BY <1>2, Zenon DEF Files!wpb_length
<1>4. file_reply' \in [count : 0 .. MaxLength, bytes : Files!Bytes]
  BY <1>2, <1>3, NoBytes, Zenon
<1>5. Files!Held(f)' = Files!Held(f)
  BY <1>3, Zenon DEF Files!Held
<1>6. Files!TypeOK'
  BY <1>3, <1>4, Zenon DEF FilesIInv, Files!TypeOK
<1>7. FileIInv(f)'
  BY <1>3, <1>5, Zenon DEF FilesIInv, FileIInv
<1>8. Files!Content' = Files!Content /\ Len(Files!Content[f]) = Len(Files!Held(f))
  BY <1>5, FileContent, Zenon
<1> QED  BY <1>3, <1>6, <1>7, <1>8, Zenon DEF FilesIInv, Files!Backed!Length

\* wpb_read: what is available is read, wherever the file is kept.
LEMMA FileReads ==
  ASSUME FilesIInv, NEW f \in {image}, NEW n \in 1 .. MaxLength, Files!wpb_read(f, n)
  PROVE  FilesIInv' /\ Files!Backed!Read(f, n)
<1> DEFINE at == handle[f].pos
           s == Files!Held(f)
           got == Files!Available(s, at, n)
           p == at + Len(got)
<1>1. unflushed = {} /\ f \in open
  BY Zenon DEF Files!wpb_read, Files!Idle
<1>2. Files!LengthOf(handle[f]) = Len(s) /\ s \in Files!Bytes
  BY <1>1, LengthIsKnown
<1>3. at \in 0 .. MaxLength
  BY HandleType, Zenon DEF FilesIInv, Files!TypeOK
<1>4. (IF at >= Len(s) THEN <<>>
       ELSE Files!Available(s, at, IF at + n < Len(s) THEN n ELSE Len(s) - at)) = got
  BY <1>2, <1>3, ReadStopsAtEnd
<1>5. /\ file_reply' = [count |-> Len(got), bytes |-> got]
      /\ handle' = [handle EXCEPT ![f].pos = p]
      /\ UNCHANGED <<stream, durable, open, unflushed, file_versions>>
  <2>1. (IF at >= Files!LengthOf(handle[f]) THEN <<>>
         ELSE Files!Available(s, at, IF at + n < Files!LengthOf(handle[f]) THEN n
                                     ELSE Files!LengthOf(handle[f]) - at)) = got
    BY <1>2, <1>4, Zenon
  <2> DEFINE g == IF at >= Files!LengthOf(handle[f]) THEN <<>>
                  ELSE Files!Available(s, at, IF at + n < Files!LengthOf(handle[f]) THEN n
                                              ELSE Files!LengthOf(handle[f]) - at)
  <2>2. /\ file_reply' = [count |-> Len(g), bytes |-> g]
        /\ handle' = [handle EXCEPT ![f].pos = @ + Len(g)]
        /\ UNCHANGED <<stream, durable, open, unflushed, file_versions>>
    BY Zenon DEF Files!wpb_read
  <2>3. g = got
    BY <2>1
  <2> HIDE DEF g
  <2> QED  BY <2>2, <2>3, Zenon
<1>6. /\ got \in Files!Bytes /\ p \in 0 .. MaxLength /\ Len(got) \in 0 .. MaxLength
  <2>1. n \in Nat
    BY FileConstants, SMT
  <2> QED  BY <1>2, <1>3, <2>1, AvailableBytes, Zenon
<1>7. file_reply' \in [count : 0 .. MaxLength, bytes : Files!Bytes]
  <2> HIDE DEF got
  <2> QED  BY <1>5, <1>6, Zenon
<1>8. /\ FilesIInv'
      /\ UNCHANGED Files!Content
      /\ [g \in {image} |-> handle[g].pos]' = [[g \in {image} |-> handle[g].pos] EXCEPT ![f] = p]
  <2> HIDE DEF p
  <2> QED  BY <1>1, <1>5, <1>6, <1>7, FileMoves, Zenon
<1>9. /\ Files!Backed!Available(Files!Content[f], [g \in {image} |-> handle[g].pos][f], n) = got
      /\ [g \in {image} |-> handle[g].pos][f] = at
  <2>1. Files!Content[f] = s
    BY FileContent, Zenon
  <2>2. [g \in {image} |-> handle[g].pos][f] = at
    BY Zenon
  <2>3. Files!Backed!Available(s, at, n) = got
    BY Zenon DEF Files!Backed!Available, Files!Available
  <2> HIDE DEF s, at, got
  <2> QED  BY <2>1, <2>2, <2>3, Zenon
<1>10. [g \in {image} |-> handle[g].pos]'
         = [[g \in {image} |-> handle[g].pos] EXCEPT ![f] = @ + Len(got)]
  <2>1. p = [g \in {image} |-> handle[g].pos][f] + Len(got)
    BY <1>9, Zenon
  <2> HIDE DEF p, got
  <2> QED  BY <1>8, <2>1, Zenon
<1> HIDE DEF got
<1> QED  BY <1>5, <1>8, <1>9, <1>10, Zenon DEF Files!Backed!Read

-----------------------------------------------------------------------------
\* The fields of a record that is made, whatever they range over.
LEMMA RecordMade ==
  ASSUME NEW A, NEW B, NEW C, NEW D, NEW E,
         NEW a \in A, NEW b \in B, NEW c \in C, NEW d \in D, NEW e \in E
  PROVE  [data |-> a, pos |-> b, size |-> c, dirty |-> d, cached |-> e]
           \in [data : A, pos : B, size : C, dirty : D, cached : E]
BY SMT

\* What is read of the fields of a record that is made.
LEMMA FieldsMade ==
  ASSUME NEW a, NEW b, NEW c, NEW d, NEW e, NEW h,
         h = [data |-> a, pos |-> b, size |-> c, dirty |-> d, cached |-> e]
  PROVE  h.data = a /\ h.pos = b /\ h.size = c /\ h.dirty = d /\ h.cached = e
BY SMT

\* The fields of a record of which one is replaced.
LEMMA RecordMarked ==
  ASSUME NEW A, NEW B, NEW C, NEW D, NEW E,
         NEW h \in [data : A, pos : B, size : C, dirty : D, cached : E], NEW d \in D
  PROVE  /\ [h EXCEPT !.dirty = d] \in [data : A, pos : B, size : C, dirty : D, cached : E]
         /\ [h EXCEPT !.dirty = d].data = h.data
         /\ [h EXCEPT !.dirty = d].pos = h.pos
         /\ [h EXCEPT !.dirty = d].size = h.size
         /\ [h EXCEPT !.dirty = d].dirty = d
         /\ [h EXCEPT !.dirty = d].cached = h.cached
BY SMT

\* A file that is opened, and read into memory if it is short.
LEMMA OpenedHandle ==
  ASSUME NEW s \in Files!Bytes
  PROVE  /\ Files!Opened(s) \in Files!ExternalHandle
         /\ Files!Opened(s).pos = 0
         /\ Files!Opened(s).size = Len(s)
         /\ Files!Opened(s).dirty = FALSE
         /\ Files!Opened(s).cached = (Len(s) <= CacheLimit)
         /\ Files!Opened(s).cached => Files!Opened(s).data = s
<1> DEFINE d == IF Len(s) <= CacheLimit THEN s ELSE <<>>
           c == Len(s) <= CacheLimit
           m == Len(s)
<1>1. /\ d \in Files!Bytes
      /\ c \in BOOLEAN
      /\ m \in 0 .. MaxLength
      /\ 0 \in 0 .. MaxLength
      /\ <<>> \in Files!Bytes
  <2>1. 0 \in 0 .. MaxLength
    BY FileConstants, SMT
  <2>2. d \in Files!Bytes
    BY NoBytes, Zenon
  <2>3. m \in 0 .. MaxLength
    BY BytesAreShort, Zenon
  <2>4. c \in BOOLEAN
    <3> HIDE DEF m
    <3>1. (m <= CacheLimit) \in BOOLEAN
      BY <2>3, FileConstants, SMT
    <3> QED  BY <3>1 DEF m
  <2> HIDE DEF d, c, m
  <2> QED  BY <2>1, <2>2, <2>3, <2>4, NoBytes, Zenon
<1>2. Files!Opened(s) = [[[Files!NoHandle EXCEPT !.size = m] EXCEPT !.cached = c] EXCEPT !.data = d]
  BY Zenon DEF Files!Opened
<1>3. c => d = s
  BY Zenon
<1> HIDE DEF d, c, m
<1>4. Files!Opened(s) = [data |-> d, pos |-> 0, size |-> m, dirty |-> FALSE, cached |-> c]
  <2>1. \A x, y, z, u, v, w : [[data |-> x, pos |-> y, size |-> z, dirty |-> u, cached |-> v] EXCEPT !.size = w]
                                = [data |-> x, pos |-> y, size |-> w, dirty |-> u, cached |-> v]
    BY SMT
  <2>2. \A x, y, z, u, v, w : [[data |-> x, pos |-> y, size |-> z, dirty |-> u, cached |-> v] EXCEPT !.cached = w]
                                = [data |-> x, pos |-> y, size |-> z, dirty |-> u, cached |-> w]
    BY SMT
  <2>3. \A x, y, z, u, v, w : [[data |-> x, pos |-> y, size |-> z, dirty |-> u, cached |-> v] EXCEPT !.data = w]
                                = [data |-> w, pos |-> y, size |-> z, dirty |-> u, cached |-> v]
    BY SMT
  <2> QED  BY <1>2, <2>1, <2>2, <2>3, Zenon DEF Files!NoHandle
<1>5. /\ Files!Opened(s) \in Files!ExternalHandle
      /\ Files!Opened(s).pos = 0 /\ Files!Opened(s).size = m /\ Files!Opened(s).dirty = FALSE
      /\ Files!Opened(s).cached = c /\ Files!Opened(s).data = d
  <2> DEFINE no == FALSE
             h == Files!Opened(s)
  <2>1. no \in BOOLEAN
    BY Zenon
  <2>2. h = [data |-> d, pos |-> 0, size |-> m, dirty |-> no, cached |-> c]
    BY <1>4
  <2> HIDE DEF no, h
  <2>3. h \in Files!ExternalHandle
    BY <1>1, <2>1, <2>2, RecordMade, Zenon DEF Files!ExternalHandle
  <2>4. h.pos = 0 /\ h.size = m /\ h.data = d /\ h.dirty = no /\ h.cached = c
    BY <2>2, FieldsMade, Zenon
  <2> QED  BY <2>3, <2>4 DEF no, h
<1> QED  BY <1>3, <1>5, Zenon DEF c, m

\* wpb_open: what is read into memory is what the stream holds.
LEMMA FileOpens ==
  ASSUME FilesIInv, NEW f \in {image}, Files!wpb_open(f)
  PROVE  FilesIInv' /\ Files!Backed!Seek(f, 0)
<1> DEFINE r == Files!Opened(stream[f])
<1>1. /\ unflushed = {} /\ f \notin open
      /\ open' = open \cup {f}
      /\ handle' = [handle EXCEPT ![f] = r]
      /\ UNCHANGED <<stream, durable, unflushed, file_reply, file_versions>>
  BY Zenon DEF Files!wpb_open, Files!Idle
<1>2. stream[f] \in Files!Bytes
  BY Zenon DEF FilesIInv, Files!TypeOK
<1>3. /\ r \in Files!ExternalHandle
      /\ r.pos = 0 /\ r.size = Len(stream[f]) /\ r.dirty = FALSE
      /\ r.cached => r.data = stream[f]
  BY <1>2, OpenedHandle, Zenon
<1>4. Len(stream[f]) <= Len(stream[f])
  <2>1. Len(stream[f]) \in 0 .. MaxLength
    BY <1>2, BytesAreShort, Zenon
  <2> DEFINE m == Len(stream[f])
  <2> HIDE DEF m
  <2>2. m \in 0 .. MaxLength => m <= m
    BY FileConstants, SMT
  <2> QED  BY <2>1, <2>2 DEF m
<1> HIDE DEF r
<1>5. handle' \in [{image} -> Files!ExternalHandle] /\ handle'[f] = r
  BY <1>1, <1>3, HandleSet, Zenon DEF FilesIInv
<1>6. FileIInv(f)
  BY Zenon DEF FilesIInv
<1>7. Files!Held(f)' = stream[f] /\ Files!Held(f) = stream[f]
  BY <1>1, <1>3, <1>5, Zenon DEF Files!Held
<1>8. durable[f] = stream[f]
  BY <1>1, <1>6, Zenon DEF FileIInv
<1>9. Files!TypeOK'
  BY <1>1, <1>5, Zenon DEF FilesIInv, Files!TypeOK
<1>10. FileIInv(f)'
  <2>1. /\ handle'[f].cached => Len(stream'[f]) <= Len(handle'[f].data)
        /\ handle'[f].size = Len(stream'[f])
    BY <1>1, <1>3, <1>4, <1>5, Zenon
  <2>2. durable'[f] = Files!Held(f)' /\ stream'[f] = Files!Held(f)'
    BY <1>1, <1>7, <1>8, Zenon
  <2>3. {Files!Held(f)', stream'[f], durable'[f]} \subseteq file_versions'[f]
    BY <1>1, <1>6, <1>7, <1>8, Zenon DEF FileIInv
  <2> QED  BY <1>1, <2>1, <2>2, <2>3, Zenon DEF FileIInv
<1>11. Files!Content' = Files!Content
  BY <1>7, FileContent, Zenon
<1>12. [g \in {image} |-> handle[g].pos]' = [[g \in {image} |-> handle[g].pos] EXCEPT ![f] = 0]
  <2>1. handle'[f].pos = 0 /\ 0 \in 0 .. MaxLength
    BY <1>3, <1>5, HandleType, Zenon
  <2> DEFINE before == [g \in {image} |-> handle[g].pos]
             after == [g \in {image} |-> handle'[g].pos]
  <2>2. after[f] = 0
    BY <2>1, Zenon
  <2>3. before \in [{image} -> 0 .. MaxLength] /\ after \in [{image} -> 0 .. MaxLength]
    BY <1>5, HandleType, Zenon DEF FilesIInv, Files!TypeOK
  <2>4. [g \in {image} |-> handle[g].pos]' = after
    BY Zenon
  <2> HIDE DEF before, after
  <2>5. after = [before EXCEPT ![f] = 0]
    BY <2>1, <2>2, <2>3, OneFile, Zenon
  <2> QED  BY <2>4, <2>5, Zenon DEF before
<1>13. 0 \in Nat
  OBVIOUS
<1> QED  BY <1>1, <1>9, <1>10, <1>11, <1>12, <1>13, Zenon DEF FilesIInv, Files!Backed!Seek

-----------------------------------------------------------------------------
\* A flush leaves in the stream what the file holds.
LEMMA FlushWritesAll ==
  ASSUME FilesIInv, NEW f \in {image}, f \in open
  PROVE  Files!StreamAfter(f) = Files!Held(f)
<1>1. FileIInv(f) /\ stream[f] \in Files!Bytes /\ handle[f].data \in Files!Bytes
  BY HandleType, Zenon DEF FilesIInv, Files!TypeOK
<1>2. CASE handle[f].cached /\ handle[f].dirty
  <2>1. Files!StreamAfter(f) = Files!Overwritten(stream[f], 0, handle[f].data)
    BY <1>2, Zenon DEF Files!StreamAfter, Files!NeedsFlush, Files!FlushPosition
  <2>2. Len(stream[f]) <= Len(handle[f].data)
    BY <1>1, <1>2, Zenon DEF FileIInv
  <2> QED  BY <1>1, <1>2, <2>1, <2>2, OverwrittenWhole, Zenon DEF Files!Held
<1>3. CASE ~(handle[f].cached /\ handle[f].dirty)
  <2>1. Files!StreamAfter(f) = stream[f]
    BY <1>3, Zenon DEF Files!StreamAfter, Files!NeedsFlush
  <2> QED  BY <1>1, <1>3, <2>1, Zenon DEF Files!Held, FileIInv
<1> QED  BY <1>2, <1>3

\* ... and saves it.
LEMMA FlushSaves ==
  ASSUME FilesIInv, NEW f \in {image}, f \in open, Files!Flushed(f)
  PROVE  /\ stream'[f] = Files!Held(f)
         /\ durable'[f] = Files!Held(f)
         /\ file_versions'[f] = {Files!Held(f)}
         /\ stream' \in [{image} -> Files!Bytes]
         /\ durable' \in [{image} -> Files!Bytes]
         /\ file_versions' \in [{image} -> SUBSET Files!Bytes]
         /\ file_versions' = [file_versions EXCEPT ![f] = {Files!Held(f)}]
<1> DEFINE c == Files!Held(f)
           d == IF handle[f].dirty THEN c ELSE durable[f]
<1>1. Files!StreamAfter(f) = c
  BY FlushWritesAll, Zenon
<1>2. c \in Files!Bytes
  BY HeldType, Zenon DEF FilesIInv
<1>3. /\ stream' = [stream EXCEPT ![f] = c]
      /\ durable' = [durable EXCEPT ![f] = d]
      /\ file_versions' = [file_versions EXCEPT ![f] = {c}]
  BY <1>1, Zenon DEF Files!Flushed, Files!NeedsFlush
<1>4. d = c
  BY Zenon DEF FilesIInv, FileIInv
<1> HIDE DEF c, d
<1>5. /\ stream \in [{image} -> Files!Bytes] /\ durable \in [{image} -> Files!Bytes]
      /\ file_versions \in [{image} -> SUBSET Files!Bytes]
  BY Zenon DEF FilesIInv, Files!TypeOK
<1>6. {c} \in SUBSET Files!Bytes
  BY <1>2, Zenon
<1>7. /\ stream'[f] = c /\ stream' \in [{image} -> Files!Bytes]
      /\ durable'[f] = c /\ durable' \in [{image} -> Files!Bytes]
  BY <1>2, <1>3, <1>4, <1>5, Zenon
<1>8. file_versions'[f] = {c} /\ file_versions' \in [{image} -> SUBSET Files!Bytes]
  BY <1>3, <1>5, <1>6, Zenon
<1> QED  BY <1>3, <1>7, <1>8, Zenon DEF c

\* wpb_close.
LEMMA FileCloses ==
  ASSUME FilesIInv, NEW f \in {image}, Files!wpb_close(f)
  PROVE  FilesIInv' /\ Files!Backed!Save(f)
<1> DEFINE c == Files!Held(f)
<1>1. /\ unflushed = {} /\ f \in open /\ Files!Flushed(f)
      /\ open' = open \ {f}
      /\ UNCHANGED <<handle, unflushed, file_reply>>
  BY Zenon DEF Files!wpb_close, Files!Idle
<1>2. /\ stream'[f] = c /\ durable'[f] = c /\ file_versions'[f] = {c}
      /\ stream' \in [{image} -> Files!Bytes]
      /\ durable' \in [{image} -> Files!Bytes]
      /\ file_versions' \in [{image} -> SUBSET Files!Bytes]
      /\ file_versions' = [file_versions EXCEPT ![f] = {c}]
  BY <1>1, FlushSaves, Zenon
<1>3. f \notin open'
  BY <1>1, Zenon
<1>4. Files!Held(f)' = c
  BY <1>2, <1>3, Zenon DEF Files!Held
<1>5. Files!TypeOK'
  BY <1>1, <1>2, Zenon DEF FilesIInv, Files!TypeOK
<1> HIDE DEF c
<1>6. FileIInv(f)'
  BY <1>1, <1>2, <1>3, <1>4, Zenon DEF FileIInv
<1>7. Files!Content' = Files!Content /\ Files!Content[f] = c
  BY <1>4, FileContent, Zenon DEF c
<1> QED  BY <1>1, <1>2, <1>5, <1>6, <1>7, Zenon DEF FilesIInv, Files!Backed!Save

\* A handle is marked clean.
LEMMA DirtySet ==
  ASSUME NEW h \in Files!ExternalHandle
  PROVE  /\ [h EXCEPT !.dirty = FALSE] \in Files!ExternalHandle
         /\ [h EXCEPT !.dirty = FALSE].pos = h.pos
         /\ [h EXCEPT !.dirty = FALSE].data = h.data
         /\ [h EXCEPT !.dirty = FALSE].size = h.size
         /\ [h EXCEPT !.dirty = FALSE].dirty = FALSE
         /\ [h EXCEPT !.dirty = FALSE].cached = h.cached
BY RecordMarked, Zenon DEF Files!ExternalHandle

\* wpb_flush_all flushes the next handle.
LEMMA FileFlushes ==
  ASSUME FilesIInv, NEW f \in {image}, Files!FlushNext(f)
  PROVE  /\ FilesIInv' /\ Files!Backed!Save(f)
         /\ durable'[f] = Files!Held(f)'
<1> DEFINE c == Files!Held(f)
           r == [handle[f] EXCEPT !.dirty = FALSE]
<1>1. /\ f \in unflushed /\ Files!Flushed(f)
      /\ unflushed' = unflushed \ {f}
      /\ handle' = [handle EXCEPT ![f] = r]
      /\ UNCHANGED <<open, file_reply>>
  BY Zenon DEF Files!FlushNext
<1>2. f \in open /\ handle[f] \in Files!ExternalHandle
  BY <1>1, Zenon DEF FilesIInv, Files!TypeOK
<1>3. /\ stream'[f] = c /\ durable'[f] = c /\ file_versions'[f] = {c}
      /\ stream' \in [{image} -> Files!Bytes]
      /\ durable' \in [{image} -> Files!Bytes]
      /\ file_versions' \in [{image} -> SUBSET Files!Bytes]
      /\ file_versions' = [file_versions EXCEPT ![f] = {c}]
  BY <1>1, <1>2, FlushSaves, Zenon
<1>4. /\ r \in Files!ExternalHandle
      /\ r.pos = handle[f].pos /\ r.data = handle[f].data /\ r.size = handle[f].size
      /\ r.dirty = FALSE /\ r.cached = handle[f].cached
  BY <1>2, DirtySet
<1> HIDE DEF r
<1>5. handle' \in [{image} -> Files!ExternalHandle] /\ handle'[f] = r
  BY <1>1, <1>4, HandleSet, Zenon DEF FilesIInv
<1>6. Files!Held(f)' = c
  <2>1. handle[f].cached => Files!Held(f)' = c
    BY <1>1, <1>2, <1>4, <1>5, Zenon DEF Files!Held
  <2>2. ~handle[f].cached => Files!Held(f)' = c
    BY <1>1, <1>2, <1>3, <1>4, <1>5, Zenon DEF Files!Held
  <2> QED  BY <2>1, <2>2
<1>7. Files!TypeOK'
  BY <1>1, <1>3, <1>5, Zenon DEF FilesIInv, Files!TypeOK
<1>8. FileIInv(f)'
  <2>1. FileIInv(f)
    BY Zenon DEF FilesIInv
  <2>2. handle'[f].cached => Len(stream'[f]) <= Len(handle'[f].data)
    <3>1. handle[f].cached => c = handle[f].data
      BY <1>2, Zenon DEF Files!Held
    <3>2. c \in Files!Bytes
      BY HeldType, Zenon DEF FilesIInv
    <3>3. Len(c) <= Len(c)
      <4>1. Len(c) \in 0 .. MaxLength
        BY <3>2, BytesAreShort, Zenon
      <4> DEFINE m == Len(c)
      <4> HIDE DEF m
      <4>2. m \in 0 .. MaxLength => m <= m
        BY FileConstants, SMT
      <4> QED  BY <4>1, <4>2 DEF m
    <3> HIDE DEF c
    <3> QED  BY <1>3, <1>4, <1>5, <3>1, <3>3, Zenon
  <2>3. ~handle'[f].cached => handle'[f].size = Len(stream'[f])
    <3>1. ~handle[f].cached => c = stream[f] /\ handle[f].size = Len(stream[f])
      BY <1>2, <2>1, Zenon DEF Files!Held, FileIInv
    <3> HIDE DEF c
    <3> QED  BY <1>3, <1>4, <1>5, <3>1, Zenon
  <2> HIDE DEF c
  <2> QED  BY <1>1, <1>2, <1>3, <1>4, <1>5, <1>6, <2>2, <2>3, Zenon DEF FileIInv
<1>9. Files!Content' = Files!Content /\ Files!Content[f] = c
  BY <1>6, FileContent, Zenon
<1>10. [g \in {image} |-> handle[g].pos]' = [g \in {image} |-> handle[g].pos]
  BY <1>4, <1>5, Zenon
<1> HIDE DEF c
<1>11. Files!Backed!Save(f)
  BY <1>1, <1>3, <1>9, <1>10, Zenon DEF Files!Backed!Save
<1> QED  BY <1>3, <1>6, <1>7, <1>8, <1>11, Zenon DEF FilesIInv

-----------------------------------------------------------------------------
\* The fields of a record of which the data, or the size, is replaced, with the
\* position and the mark.
LEMMA RecordWritten ==
  ASSUME NEW A, NEW B, NEW C, NEW D, NEW E,
         NEW h \in [data : A, pos : B, size : C, dirty : D, cached : E],
         NEW a \in A, NEW b \in B, NEW d \in D, NEW r,
         r = [[[h EXCEPT !.data = a] EXCEPT !.pos = b] EXCEPT !.dirty = d]
  PROVE  /\ r \in [data : A, pos : B, size : C, dirty : D, cached : E]
         /\ r.data = a /\ r.pos = b /\ r.size = h.size /\ r.dirty = d /\ r.cached = h.cached
<1> DEFINE h1 == [h EXCEPT !.data = a]
           h2 == [h1 EXCEPT !.pos = b]
<1>1. /\ h1 \in [data : A, pos : B, size : C, dirty : D, cached : E]
      /\ h1.data = a /\ h1.size = h.size /\ h1.cached = h.cached
  BY SMT
<1> HIDE DEF h1
<1>2. /\ h2 \in [data : A, pos : B, size : C, dirty : D, cached : E]
      /\ h2.data = a /\ h2.pos = b /\ h2.size = h.size /\ h2.cached = h.cached
  BY <1>1, SMT
<1>3. r = [h2 EXCEPT !.dirty = d]
  BY DEF h1
<1> HIDE DEF h2
<1>4. /\ [h2 EXCEPT !.dirty = d] \in [data : A, pos : B, size : C, dirty : D, cached : E]
      /\ [h2 EXCEPT !.dirty = d].data = h2.data
      /\ [h2 EXCEPT !.dirty = d].pos = h2.pos
      /\ [h2 EXCEPT !.dirty = d].size = h2.size
      /\ [h2 EXCEPT !.dirty = d].dirty = d
      /\ [h2 EXCEPT !.dirty = d].cached = h2.cached
  BY <1>2, RecordMarked
<1> QED  BY <1>2, <1>3, <1>4, Zenon

\* ... the size.
LEMMA RecordExtended ==
  ASSUME NEW A, NEW B, NEW C, NEW D, NEW E,
         NEW h \in [data : A, pos : B, size : C, dirty : D, cached : E],
         NEW b \in B, NEW c \in C, NEW d \in D, NEW r,
         r = [[[h EXCEPT !.pos = b] EXCEPT !.size = c] EXCEPT !.dirty = d]
  PROVE  /\ r \in [data : A, pos : B, size : C, dirty : D, cached : E]
         /\ r.data = h.data /\ r.pos = b /\ r.size = c /\ r.dirty = d /\ r.cached = h.cached
<1> DEFINE h1 == [h EXCEPT !.pos = b]
           h2 == [h1 EXCEPT !.size = c]
<1>1. /\ h1 \in [data : A, pos : B, size : C, dirty : D, cached : E]
      /\ h1.data = h.data /\ h1.pos = b /\ h1.cached = h.cached
  BY SMT
<1> HIDE DEF h1
<1>2. /\ h2 \in [data : A, pos : B, size : C, dirty : D, cached : E]
      /\ h2.data = h.data /\ h2.pos = b /\ h2.size = c /\ h2.cached = h.cached
  BY <1>1, SMT
<1>3. r = [h2 EXCEPT !.dirty = d]
  BY DEF h1
<1> HIDE DEF h2
<1>4. /\ [h2 EXCEPT !.dirty = d] \in [data : A, pos : B, size : C, dirty : D, cached : E]
      /\ [h2 EXCEPT !.dirty = d].data = h2.data
      /\ [h2 EXCEPT !.dirty = d].pos = h2.pos
      /\ [h2 EXCEPT !.dirty = d].size = h2.size
      /\ [h2 EXCEPT !.dirty = d].dirty = d
      /\ [h2 EXCEPT !.dirty = d].cached = h2.cached
  BY <1>2, RecordMarked
<1> QED  BY <1>2, <1>3, <1>4, Zenon

\* wpb_write, to a file kept in memory: what changes of its handle.
LEMMA MemoryIsWritten ==
  ASSUME FilesIInv, NEW f \in {image}, NEW b \in Files!Bytes,
         handle[f].pos + Len(b) \in 0 .. MaxLength,
         Files!Overwritten(handle[f].data, handle[f].pos, b) \in Files!Bytes,
         Files!WriteCached(f, b)
  PROVE  /\ handle' \in [{image} -> Files!ExternalHandle]
         /\ handle'[f].data = Files!Overwritten(handle[f].data, handle[f].pos, b)
         /\ handle'[f].pos = handle[f].pos + Len(b)
         /\ handle'[f].dirty
         /\ handle'[f].cached = handle[f].cached
         /\ handle[f].cached
         /\ stream' = stream
<1> DEFINE w == Files!Overwritten(handle[f].data, handle[f].pos, b)
           p == handle[f].pos + Len(b)
           yes == TRUE
           r == [[[handle[f] EXCEPT !.data = w] EXCEPT !.pos = p] EXCEPT !.dirty = yes]
<1>1. /\ handle[f].cached /\ stream' = stream
      /\ handle' = [handle EXCEPT ![f].data = Files!Overwritten(@, handle[f].pos, b),
                                  ![f].pos = @ + Len(b), ![f].dirty = TRUE]
  BY Zenon DEF Files!WriteCached, Files!Marked
<1>2. handle' = [handle EXCEPT ![f] = r]
  BY <1>1, Zenon
<1>3. handle[f] \in Files!ExternalHandle
  BY Zenon DEF FilesIInv, Files!TypeOK
<1>4. yes \in BOOLEAN /\ yes /\ w \in Files!Bytes /\ p \in 0 .. MaxLength
  BY Zenon
<1> HIDE DEF w, p, yes
<1>5. /\ r \in Files!ExternalHandle
      /\ r.data = w /\ r.pos = p /\ r.dirty = yes /\ r.cached = handle[f].cached
  BY <1>3, <1>4, RecordWritten, Zenon DEF Files!ExternalHandle
<1> HIDE DEF r
<1>6. handle' \in [{image} -> Files!ExternalHandle] /\ handle'[f] = r
  BY <1>2, <1>5, HandleSet, Zenon DEF FilesIInv
<1> QED  BY <1>1, <1>4, <1>5, <1>6, Zenon DEF w, p

\* ... and to a longer one.
LEMMA StreamIsWritten ==
  ASSUME FilesIInv, NEW f \in {image}, NEW b \in Files!Bytes,
         handle[f].pos + Len(b) \in 0 .. MaxLength,
         Files!SizeAfter(handle[f], handle[f].pos + Len(b)) \in 0 .. MaxLength,
         Files!Overwritten(stream[f], handle[f].pos, b) \in Files!Bytes,
         Files!WriteInPlace(f, b)
  PROVE  /\ handle' \in [{image} -> Files!ExternalHandle]
         /\ handle'[f].size = Files!SizeAfter(handle[f], handle[f].pos + Len(b))
         /\ handle'[f].pos = handle[f].pos + Len(b)
         /\ handle'[f].dirty
         /\ handle'[f].cached = handle[f].cached
         /\ ~handle[f].cached
         /\ stream' \in [{image} -> Files!Bytes]
         /\ stream'[f] = Files!Overwritten(stream[f], handle[f].pos, b)
<1> DEFINE w == Files!Overwritten(stream[f], handle[f].pos, b)
           p == handle[f].pos + Len(b)
           n == Files!SizeAfter(handle[f], p)
           yes == TRUE
           r == [[[handle[f] EXCEPT !.pos = p] EXCEPT !.size = n] EXCEPT !.dirty = yes]
<1>1. /\ ~handle[f].cached
      /\ stream' = [stream EXCEPT ![f] = w]
      /\ handle' = [handle EXCEPT ![f].pos = @ + Len(b), ![f].size = n, ![f].dirty = TRUE]
  BY Zenon DEF Files!WriteInPlace, Files!Marked
<1>2. handle' = [handle EXCEPT ![f] = r]
  <2> HIDE DEF n
  <2> QED  BY <1>1, Zenon
<1>3. handle[f] \in Files!ExternalHandle /\ stream \in [{image} -> Files!Bytes]
  BY Zenon DEF FilesIInv, Files!TypeOK
<1>4. yes \in BOOLEAN /\ yes /\ w \in Files!Bytes /\ p \in 0 .. MaxLength /\ n \in 0 .. MaxLength
  BY Zenon
<1> HIDE DEF w, n, p, yes
<1>5. /\ r \in Files!ExternalHandle
      /\ r.size = n /\ r.pos = p /\ r.dirty = yes /\ r.cached = handle[f].cached
  BY <1>3, <1>4, RecordExtended, Zenon DEF Files!ExternalHandle
<1> HIDE DEF r
<1>6. handle' \in [{image} -> Files!ExternalHandle] /\ handle'[f] = r
  BY <1>2, <1>5, HandleSet, Zenon DEF FilesIInv
<1>7. stream'[f] = w /\ stream' \in [{image} -> Files!Bytes]
  BY <1>1, <1>3, <1>4, Zenon
<1> QED  BY <1>1, <1>4, <1>5, <1>6, <1>7, Zenon DEF w, n, p

\* The length that is written is never shorter than what was there.
LEMMA WrittenIsLonger ==
  ASSUME NEW s \in Files!Bytes, NEW t \in Files!Bytes, NEW b \in Files!Bytes, NEW at \in Nat,
         Len(t) <= Len(s)
  PROVE  Len(t) <= LengthWritten(s, at, b)
<1> DEFINE m == Len(s)
           k == Len(b)
           l == Len(t)
<1>1. m \in 0 .. MaxLength /\ k \in 0 .. MaxLength /\ l \in 0 .. MaxLength
  BY BytesAreShort, Zenon
<1>2. LengthWritten(s, at, b) = IF at + k > m THEN at + k ELSE m
  BY Zenon DEF LengthWritten
<1>3. l <= m
  BY Zenon
<1> HIDE DEF m, k, l
<1>4. l <= IF at + k > m THEN at + k ELSE m
  BY <1>1, <1>3, FileConstants, SMT
<1> QED  BY <1>2, <1>4 DEF l

\* wpb_write: the file reads back what was written to it.
LEMMA FileWrites ==
  ASSUME FilesIInv, NEW f \in {image}, NEW b \in Files!Bytes, Files!wpb_write(f, b)
  PROVE  FilesIInv' /\ Files!Backed!Write(f, b)
<1> DEFINE c == Files!Held(f)
           at == handle[f].pos
           w == Files!Overwritten(c, at, b)
           p == at + Len(b)
<1>1. /\ unflushed = {} /\ f \in open
      /\ at + Len(b) <= MaxLength
      /\ file_versions' = [file_versions EXCEPT ![f] = @ \cup {w}]
      /\ Files!WriteCached(f, b) \/ Files!WriteInPlace(f, b)
      /\ UNCHANGED <<durable, open, unflushed, file_reply>>
  BY Zenon DEF Files!wpb_write, Files!Idle
<1>2. /\ c \in Files!Bytes /\ at \in 0 .. MaxLength
      /\ stream[f] \in Files!Bytes
      /\ handle[f].size \in 0 .. MaxLength
  BY HeldType, HandleType, Zenon DEF FilesIInv, Files!TypeOK
<1>3. at \in Nat
  BY <1>2, FileConstants, SMT
<1>4. w \in Files!Bytes /\ Len(w) = LengthWritten(c, at, b)
  BY <1>1, <1>2, <1>3, OverwrittenBytes
<1>5. p \in 0 .. MaxLength
  <2> DEFINE k == Len(b)
  <2>1. k \in 0 .. MaxLength /\ at + k <= MaxLength
    BY <1>1, BytesAreShort, Zenon
  <2> HIDE DEF k
  <2>2. at + k \in 0 .. MaxLength
    BY <1>3, <2>1, FileConstants, SMT
  <2> QED  BY <2>2 DEF k
<1>6. FileIInv(f)
  BY Zenon DEF FilesIInv
<1>7. /\ handle' \in [{image} -> Files!ExternalHandle]
      /\ stream' \in [{image} -> Files!Bytes]
      /\ handle'[f].pos = p /\ handle'[f].dirty
      /\ Files!Held(f)' = w
      /\ handle'[f].cached => Len(stream'[f]) <= Len(handle'[f].data)
      /\ ~handle'[f].cached => handle'[f].size = Len(stream'[f])
      /\ stream'[f] = stream[f] \/ stream'[f] = w
  <2>1. CASE Files!WriteCached(f, b)
    <3>1. handle[f].cached
      BY <2>1, Zenon DEF Files!WriteCached
    <3>2. c = handle[f].data
      BY <1>1, <3>1, Zenon DEF Files!Held
    <3>3. /\ handle' \in [{image} -> Files!ExternalHandle]
          /\ handle'[f].data = w /\ handle'[f].pos = p /\ handle'[f].dirty
          /\ handle'[f].cached
          /\ stream' = stream
      BY <1>4, <1>5, <2>1, <3>1, <3>2, MemoryIsWritten, Zenon
    <3>4. Len(stream[f]) <= Len(c)
      BY <1>1, <1>6, <3>1, <3>2, Zenon DEF FileIInv
    <3>5. Len(stream[f]) <= Len(w)
      <4> HIDE DEF c, at, w
      <4>1. Len(stream[f]) <= LengthWritten(c, at, b)
        BY <1>2, <1>3, <3>4, WrittenIsLonger
      <4> QED  BY <1>4, <4>1, Zenon
    <3>6. stream \in [{image} -> Files!Bytes]
      BY Zenon DEF FilesIInv, Files!TypeOK
    <3> HIDE DEF c, at, w, p
    <3> QED  BY <1>1, <3>3, <3>5, <3>6, Zenon DEF Files!Held
  <2>2. CASE Files!WriteInPlace(f, b)
    <3>1. ~handle[f].cached
      BY <2>2, Zenon DEF Files!WriteInPlace
    <3>2. c = stream[f]
      BY <1>1, <3>1, Zenon DEF Files!Held
    <3>3. handle[f].size = Len(c)
      BY <1>1, <1>6, <3>1, <3>2, Zenon DEF FileIInv
    <3>4. Files!SizeAfter(handle[f], p) = Len(w)
      BY <1>4, <3>3, Zenon DEF Files!SizeAfter, LengthWritten
    <3>5. Len(w) \in 0 .. MaxLength
      BY <1>4, BytesAreShort, Zenon
    <3>6. /\ handle' \in [{image} -> Files!ExternalHandle]
          /\ handle'[f].size = Len(w) /\ handle'[f].pos = p /\ handle'[f].dirty
          /\ ~handle'[f].cached
          /\ stream' \in [{image} -> Files!Bytes]
          /\ stream'[f] = w
      <4>1. Files!SizeAfter(handle[f], p) \in 0 .. MaxLength
        BY <3>4, <3>5, Zenon
      <4>2. Files!Overwritten(stream[f], at, b) = w /\ w \in Files!Bytes
        BY <1>4, <3>2, Zenon
      <4> QED  BY <1>5, <2>2, <3>1, <3>4, <4>1, <4>2, StreamIsWritten, Zenon
    <3> HIDE DEF c, at, w, p
    <3> QED  BY <1>1, <3>6, Zenon DEF Files!Held
  <2> QED  BY <1>1, <2>1, <2>2, Zenon
<1>8. file_versions' \in [{image} -> SUBSET Files!Bytes] /\ file_versions'[f] = file_versions[f] \cup {w}
  <2> HIDE DEF w
  <2> QED  BY <1>1, <1>4, Zenon DEF FilesIInv, Files!TypeOK
<1>9. Files!TypeOK'
  BY <1>1, <1>7, <1>8, Zenon DEF FilesIInv, Files!TypeOK
<1>10. FileIInv(f)'
  <2> HIDE DEF w, p, c, at
  <2>1. {Files!Held(f)', stream'[f], durable'[f]} \subseteq file_versions'[f]
    BY <1>1, <1>6, <1>7, <1>8, Zenon DEF FileIInv
  <2> QED  BY <1>1, <1>7, <2>1, Zenon DEF FileIInv
<1>11. Files!Content' = [Files!Content EXCEPT ![f] = w]
  <2> HIDE DEF w
  <2>1. /\ Files!Content \in [{image} -> Files!Bytes] /\ Files!Content' \in [{image} -> Files!Bytes]
        /\ Files!Content'[f] = w
    BY <1>4, <1>7, <1>2, FileContent, Zenon
  <2> QED  BY <1>4, <2>1, OneFile, Zenon
<1>12. [g \in {image} |-> handle[g].pos]' = [[g \in {image} |-> handle[g].pos] EXCEPT ![f] = p]
  <2> DEFINE before == [g \in {image} |-> handle[g].pos]
             after == [g \in {image} |-> handle'[g].pos]
  <2> HIDE DEF p
  <2>1. after[f] = p
    BY <1>7, Zenon
  <2>2. before \in [{image} -> 0 .. MaxLength] /\ after \in [{image} -> 0 .. MaxLength]
    BY <1>7, HandleType, Zenon DEF FilesIInv, Files!TypeOK
  <2>3. [g \in {image} |-> handle[g].pos]' = after
    BY Zenon
  <2> HIDE DEF before, after
  <2>4. after = [before EXCEPT ![f] = p]
    BY <1>5, <2>1, <2>2, OneFile, Zenon
  <2> QED  BY <2>3, <2>4, Zenon DEF before
<1>13. /\ Files!Content[f] = c
       /\ [g \in {image} |-> handle[g].pos][f] = at
       /\ Files!Backed!Overwritten(c, at, b) = w
  <2>1. Files!Content[f] = c
    BY FileContent, Zenon
  <2>2. [g \in {image} |-> handle[g].pos][f] = at
    BY Zenon
  <2>3. Files!Backed!Overwritten(c, at, b) = w
    BY Zenon DEF Files!Backed!Overwritten, Files!Overwritten
  <2> QED  BY <2>1, <2>2, <2>3, Zenon
<1>14. Files!Backed!Write(f, b)
  <2>1. [[g \in {image} |-> handle[g].pos] EXCEPT ![f] = p]
          = [[g \in {image} |-> handle[g].pos] EXCEPT ![f] = @ + Len(b)]
    BY <1>13, Zenon
  <2> HIDE DEF w, c, at, p
  <2> QED  BY <1>1, <1>11, <1>12, <1>13, <2>1, Zenon DEF Files!Backed!Write
<1> QED  BY <1>9, <1>10, <1>14, Zenon DEF FilesIInv

-----------------------------------------------------------------------------
\* wpb_flush_all takes note of the open handles: nothing of the file changes.
LEMMA FilesAreNoted ==
  ASSUME FilesIInv, Files!wpb_flush_all
  PROVE  FilesIInv' /\ UNCHANGED Files!Backed!vars
<1>1. /\ unflushed = {} /\ unflushed' = open
      /\ UNCHANGED <<stream, durable, open, handle, file_reply, file_versions>>
  BY Zenon DEF Files!wpb_flush_all, Files!Idle
<1>2. Files!TypeOK'
  BY <1>1, Zenon DEF FilesIInv, Files!TypeOK
<1>3. ASSUME NEW f \in {image}
      PROVE  FileIInv(f)' /\ Files!Held(f)' = Files!Held(f)
  <2>1. FileIInv(f)
    BY Zenon DEF FilesIInv
  <2>2. Files!Held(f)' = Files!Held(f)
    BY <1>1, Zenon DEF Files!Held
  <2> QED  BY <1>1, <2>1, <2>2, Zenon DEF FileIInv
<1>4. UNCHANGED Files!Content
  BY <1>3, FileContent, Zenon
<1>5. UNCHANGED Files!Backed!vars
  BY <1>1, <1>4, Zenon DEF Files!Backed!vars
<1> QED  BY <1>2, <1>3, <1>5, Zenon DEF FilesIInv

\* The process ends: what is left of the file is something it held.
LEMMA FileIsLeft ==
  ASSUME FilesIInv, NEW writing \in SUBSET open, Files!Crash(writing)
  PROVE  FilesIInv' /\ Files!Backed!Crash
<1>1. /\ stream' \in [{image} -> Files!Bytes]
      /\ \A f \in {image} : stream'[f] \in Files!Left(f, writing)
      /\ durable' = stream' /\ open' = {} /\ unflushed' = {}
      /\ file_versions' = Files!Only(stream')
      /\ UNCHANGED <<handle, file_reply>>
  BY Zenon DEF Files!Crash
<1>2. file_versions' = [f \in {image} |-> {stream'[f]}]
  BY <1>1, Zenon DEF Files!Only
<1>3. Files!TypeOK'
  <2>1. file_versions' \in [{image} -> SUBSET Files!Bytes]
    <3>1. \A f \in {image} : {stream'[f]} \in SUBSET Files!Bytes
      BY <1>1, Zenon
    <3> QED  BY <1>2, <3>1, Zenon
  <2> QED  BY <1>1, <2>1, Zenon DEF FilesIInv, Files!TypeOK
<1>4. ASSUME NEW f \in {image}
      PROVE  /\ Files!Held(f)' = stream'[f]
             /\ FileIInv(f)'
             /\ stream'[f] \in file_versions[f]
  <2>1. Files!Held(f)' = stream'[f]
    BY <1>1, Zenon DEF Files!Held
  <2>2. file_versions'[f] = {stream'[f]}
    BY <1>2, Zenon
  <2>3. FileIInv(f)'
    BY <1>1, <2>1, <2>2, Zenon DEF FileIInv
  <2>4. FileIInv(f)
    BY Zenon DEF FilesIInv
  <2>5. f \in writing => Files!StreamAfter(f) = Files!Held(f)
    BY FlushWritesAll, Zenon
  <2>6. stream'[f] \in {durable[f], stream[f], Files!Held(f)}
    BY <1>1, <2>5, Zenon DEF Files!Left
  <2> QED  BY <2>1, <2>3, <2>4, <2>6, Zenon DEF FileIInv
<1>5. Files!Content' = stream'
  <2>1. Files!Content' = [f \in {image} |-> stream'[f]]
    BY <1>4, FileContent, Zenon
  <2>2. stream' = [f \in {image} |-> stream'[f]]
    BY <1>1, Zenon
  <2> QED  BY <2>1, <2>2, Zenon
<1>6. Files!Backed!Crash
  <2>1. Files!Backed!Bytes = Files!Bytes
    BY Zenon DEF Files!Backed!Bytes, Files!Bytes
  <2>2. Files!Content' \in [{image} -> Files!Backed!Bytes]
    BY <1>1, <1>5, <2>1, Zenon
  <2>3. \A f \in {image} : Files!Content'[f] \in file_versions[f]
    BY <1>4, <1>5, Zenon
  <2>4. file_versions' = [f \in {image} |-> {Files!Content'[f]}]
    BY <1>2, <1>5, Zenon
  <2> QED  BY <1>1, <2>2, <2>3, <2>4, Zenon DEF Files!Backed!Crash
<1> QED  BY <1>3, <1>4, <1>6, Zenon DEF FilesIInv

-----------------------------------------------------------------------------
\* The file starts closed, with what its stream holds.
LEMMA FilesStarts ==
  ASSUME Files!Init
  PROVE  FilesIInv /\ Files!Backed!Init
<1>1. /\ stream \in [{image} -> Files!Bytes]
      /\ durable = stream /\ open = {} /\ unflushed = {}
      /\ handle = [f \in {image} |-> Files!NoHandle]
      /\ file_reply = [count |-> 0, bytes |-> <<>>]
      /\ file_versions = [f \in {image} |-> {stream[f]}]
  BY Zenon DEF Files!Init, Files!Only
<1>2. 0 \in 0 .. MaxLength
  BY FileConstants, SMT
<1>3. Files!NoHandle \in Files!ExternalHandle /\ Files!NoHandle.pos = 0
  <2> DEFINE no == FALSE
             yes == TRUE
             none == <<>>
             h == Files!NoHandle
  <2>1. no \in BOOLEAN /\ yes \in BOOLEAN /\ none \in Files!Bytes
    BY NoBytes, Zenon
  <2>2. h = [data |-> none, pos |-> 0, size |-> 0, dirty |-> no, cached |-> yes]
    BY DEF Files!NoHandle
  <2> HIDE DEF no, yes, none, h
  <2>3. h \in Files!ExternalHandle
    BY <1>2, <2>1, <2>2, RecordMade, Zenon DEF Files!ExternalHandle
  <2>4. h.pos = 0
    BY <2>2, FieldsMade, Zenon
  <2> QED  BY <2>3, <2>4 DEF h
<1>4. Files!TypeOK
  <2>1. handle \in [{image} -> Files!ExternalHandle]
    BY <1>1, <1>3, Zenon
  <2>2. file_reply \in [count : 0 .. MaxLength, bytes : Files!Bytes]
    BY <1>1, <1>2, NoBytes, Zenon
  <2>3. file_versions \in [{image} -> SUBSET Files!Bytes]
    <3>1. \A f \in {image} : {stream[f]} \in SUBSET Files!Bytes
      BY <1>1, Zenon
    <3> QED  BY <1>1, <3>1, Zenon
  <2> QED  BY <1>1, <2>1, <2>2, <2>3, Zenon DEF Files!TypeOK
<1>5. ASSUME NEW f \in {image}
      PROVE  Files!Held(f) = stream[f] /\ FileIInv(f)
  <2>1. Files!Held(f) = stream[f]
    BY <1>1, Zenon DEF Files!Held
  <2>2. file_versions[f] = {stream[f]}
    BY <1>1, Zenon
  <2> QED  BY <1>1, <2>1, <2>2, Zenon DEF FileIInv
<1>6. Files!Content = stream
  <2>1. Files!Content = [f \in {image} |-> stream[f]]
    BY <1>5, Zenon DEF Files!Content
  <2>2. stream = [f \in {image} |-> stream[f]]
    BY <1>1, Zenon
  <2> QED  BY <2>1, <2>2, Zenon
<1>7. Files!Backed!Init
  <2>1. Files!Backed!Bytes = Files!Bytes
    BY Zenon DEF Files!Backed!Bytes, Files!Bytes
  <2>2. [f \in {image} |-> handle[f].pos] = [f \in {image} |-> 0]
    BY <1>1, <1>3, Zenon
  <2>3. file_versions = [f \in {image} |-> {Files!Content[f]}]
    BY <1>1, <1>6, Zenon
  <2> QED  BY <1>1, <1>6, <2>1, <2>2, <2>3, Zenon DEF Files!Backed!Init
<1> QED  BY <1>4, <1>5, <1>7, Zenon DEF FilesIInv

\* Each call keeps the file right, is a step of a file with a position, and
\* wpb_flush_all returns with everything saved.
LEMMA FilesSteps ==
  ASSUME FilesIInv, Files!Next
  PROVE  /\ FilesIInv'
         /\ [Files!Backed!Next]_(Files!Backed!vars)
         /\ unflushed # {} /\ unflushed' = {} /\ open' = open
              => \A f \in open : durable'[f] = Files!Held(f)'
<1> DEFINE Saved == unflushed # {} /\ unflushed' = {} /\ open' = open
                      => \A f \in open : durable'[f] = Files!Held(f)'
<1> HIDE DEF Saved
<1> SUFFICES FilesIInv' /\ [Files!Backed!Next]_(Files!Backed!vars) /\ Saved
  BY DEF Saved
<1>1. unflushed \subseteq open /\ open \subseteq {image}
  BY Zenon DEF FilesIInv, Files!TypeOK
<1>2. Files!Idle => Saved
  BY Zenon DEF Files!Idle, Saved
<1>3. ASSUME NEW f \in {image}, Files!wpb_open(f)
      PROVE  FilesIInv' /\ Files!Backed!Next /\ Saved
  <2>1. 0 \in 0 .. MaxLength
    BY FileConstants, SMT
  <2> QED  BY <1>2, <1>3, <2>1, FileOpens, Zenon DEF Files!Backed!Next, Files!wpb_open
<1>4. ASSUME NEW f \in {image}, Files!wpb_close(f)
      PROVE  FilesIInv' /\ Files!Backed!Next /\ Saved
  BY <1>2, <1>4, FileCloses, Zenon DEF Files!Backed!Next, Files!wpb_close
<1>5. ASSUME NEW f \in {image}, Files!wpb_length(f)
      PROVE  FilesIInv' /\ Files!Backed!Next /\ Saved
  BY <1>2, <1>5, FileLength, Zenon DEF Files!Backed!Next, Files!wpb_length
<1>6. ASSUME NEW f \in {image}, Files!FlushNext(f)
      PROVE  FilesIInv' /\ Files!Backed!Next /\ Saved
  <2>1. FilesIInv' /\ Files!Backed!Save(f) /\ durable'[f] = Files!Held(f)'
    BY <1>6, FileFlushes, Zenon
  <2>2. Saved
    BY <1>1, <2>1, Zenon DEF Saved
  <2> QED  BY <2>1, <2>2, Zenon DEF Files!Backed!Next
<1>7. ASSUME NEW f \in {image}, NEW offset \in 0 .. MaxLength, Files!wpb_lseek(f, offset)
      PROVE  FilesIInv' /\ Files!Backed!Next /\ Saved
  BY <1>2, <1>7, FileSeeks, Zenon DEF Files!Backed!Next, Files!wpb_lseek
<1>8. ASSUME NEW f \in {image}, NEW offset \in -MaxLength .. MaxLength, Files!LseekFromEnd(f, offset)
      PROVE  FilesIInv' /\ Files!Backed!Next /\ Saved
  BY <1>2, <1>8, FileSeeksFromEnd, Zenon DEF Files!Backed!Next, Files!LseekFromEnd
<1>9. ASSUME NEW f \in {image}, NEW n \in 1 .. MaxLength, Files!wpb_read(f, n)
      PROVE  FilesIInv' /\ Files!Backed!Next /\ Saved
  <2>1. Files!Idle
    BY <1>9, Zenon DEF Files!wpb_read
  <2> QED  BY <1>2, <1>9, <2>1, FileReads, Zenon DEF Files!Backed!Next
<1>10. ASSUME NEW f \in {image}, NEW b \in Files!Bytes, Files!wpb_write(f, b)
       PROVE  FilesIInv' /\ Files!Backed!Next /\ Saved
  <2>1. b \in Files!Backed!Bytes
    BY Zenon DEF Files!Backed!Bytes, Files!Bytes
  <2>2. Files!Idle
    BY <1>10, Zenon DEF Files!wpb_write
  <2>3. FilesIInv' /\ Files!Backed!Write(f, b)
    BY <1>10, FileWrites, Zenon
  <2> QED  BY <1>2, <2>1, <2>2, <2>3, Zenon DEF Files!Backed!Next
<1>11. ASSUME Files!wpb_flush_all
       PROVE  FilesIInv' /\ UNCHANGED Files!Backed!vars /\ Saved
  <2>1. Files!Idle
    BY <1>11, Zenon DEF Files!wpb_flush_all
  <2> QED  BY <1>2, <1>11, <2>1, FilesAreNoted, Zenon
<1>12. ASSUME NEW writing \in SUBSET open, Files!Crash(writing)
       PROVE  FilesIInv' /\ Files!Backed!Next /\ Saved
  <2>1. open' = {}
    BY <1>12, Zenon DEF Files!Crash
  <2>2. Saved
    BY <1>1, <2>1, Zenon DEF Saved
  <2> QED  BY <1>12, <2>2, FileIsLeft, Zenon DEF Files!Backed!Next
<1>13. \/ \E f \in {image} : Files!wpb_open(f) \/ Files!wpb_close(f) \/ Files!wpb_length(f) \/ Files!FlushNext(f)
       \/ \E f \in {image}, offset \in 0 .. MaxLength : Files!wpb_lseek(f, offset)
       \/ \E f \in {image}, offset \in -MaxLength .. MaxLength : Files!LseekFromEnd(f, offset)
       \/ \E f \in {image}, n \in 1 .. MaxLength : Files!wpb_read(f, n)
       \/ \E f \in {image}, b \in Files!Bytes : Files!wpb_write(f, b)
       \/ Files!wpb_flush_all
       \/ \E writing \in SUBSET open : Files!Crash(writing)
  BY Zenon DEF Files!Next
<1> QED  BY <1>3, <1>4, <1>5, <1>6, <1>7, <1>8, <1>9, <1>10, <1>11, <1>12, <1>13, Zenon

-----------------------------------------------------------------------------
(* The four together.                                                      *)

\* The run drives one of the four, and what holds of that one holds.
StorageIInv ==
  /\ driven \in {"vdi", "vhd", "vmdk", "files"}
  /\ driven = "vdi" => VdiIInv
  /\ driven = "vhd" => VhdIInv
  /\ driven = "vmdk" => VmdkIInv
  /\ driven = "files" => FilesIInv

\* What one step promises: it is a step of the disk, or of the file, that the part
\* stands for, marks a VHD sector before it writes it, and returns from
\* wpb_flush_all with everything saved.
VdiIsDisk == driven = "vdi" => torn \/ [Vdi!Disk!Next]_(Vdi!Disk!vars)
VhdIsDisk == driven = "vhd" => [Vhd!Disk!Next]_(Vhd!Disk!vars)
VmdkIsDisk == driven = "vmdk" => missed \/ [Vmdk!Disk!Next]_(Vmdk!Disk!vars)
FileIsFile == driven = "files" => [Files!Backed!Next]_(Files!Backed!vars)
MarksFirst == \A p \in Vhd!Place : vhd_data'[p] # vhd_data[p] => bitmap[p]
SavesAll ==
  unflushed # {} /\ unflushed' = {} /\ open' = open
    => \A f \in open : durable'[f] = Files!Held(f)'

\* A part that is not driven does not move.
LEMMA StandsStill ==
  (UNCHANGED vhd => MarksFirst) /\ (UNCHANGED files => SavesAll)
<1>1. ASSUME UNCHANGED vhd PROVE MarksFirst
  BY <1>1, Zenon DEF vhd, MarksFirst
<1>2. ASSUME UNCHANGED files PROVE SavesAll
  BY <1>2, Zenon DEF files, SavesAll
<1> QED  BY <1>1, <1>2

\* Every part starts as it should.
LEMMA StorageStarts ==
  ASSUME Init
  PROVE  /\ StorageIInv
         /\ driven = "vdi" => Vdi!Disk!Init
         /\ driven = "vhd" => Vhd!Disk!Init
         /\ driven = "vmdk" => Vmdk!Disk!Init
         /\ driven = "files" => Files!Backed!Init
BY VdiStarts, VhdStarts, VmdkStarts, FilesStarts, Zenon DEF Init, StorageIInv

\* A step keeps what holds of the part that is driven, and promises the rest.
LEMMA StorageSteps ==
  ASSUME StorageIInv, Next
  PROVE  /\ StorageIInv'
         /\ VdiIsDisk /\ VhdIsDisk /\ VmdkIsDisk /\ FileIsFile
         /\ MarksFirst /\ SavesAll
<1>1. CASE driven = "vdi" /\ Vdi!Next /\ UNCHANGED <<driven, vhd, vmdk, files>>
  <2>1. VdiIInv' /\ (~torn => [Vdi!Disk!Next]_(Vdi!Disk!vars))
    BY <1>1, VdiSteps, Zenon DEF StorageIInv
  <2>2. MarksFirst /\ SavesAll
    BY <1>1, StandsStill
  <2>3. driven' = "vdi" /\ driven = "vdi"
    BY <1>1
  <2> QED  BY <2>1, <2>2, <2>3 DEF StorageIInv, VdiIsDisk, VhdIsDisk, VmdkIsDisk, FileIsFile
<1>2. CASE driven = "vhd" /\ Vhd!Next /\ UNCHANGED <<driven, vdi, vmdk, files>>
  <2>1. VhdIInv' /\ [Vhd!Disk!Next]_(Vhd!Disk!vars) /\ MarksFirst
    BY <1>2, VhdSteps, Zenon DEF StorageIInv, MarksFirst
  <2>2. SavesAll
    BY <1>2, StandsStill
  <2>3. driven' = "vhd" /\ driven = "vhd"
    BY <1>2
  <2> QED  BY <2>1, <2>2, <2>3 DEF StorageIInv, VdiIsDisk, VhdIsDisk, VmdkIsDisk, FileIsFile
<1>3. CASE driven = "vmdk" /\ Vmdk!Next /\ UNCHANGED <<driven, vdi, vhd, files>>
  <2>1. VmdkIInv' /\ (~missed => [Vmdk!Disk!Next]_(Vmdk!Disk!vars))
    BY <1>3, VmdkSteps, Zenon DEF StorageIInv
  <2>2. MarksFirst /\ SavesAll
    BY <1>3, StandsStill
  <2>3. driven' = "vmdk" /\ driven = "vmdk"
    BY <1>3
  <2> QED  BY <2>1, <2>2, <2>3 DEF StorageIInv, VdiIsDisk, VhdIsDisk, VmdkIsDisk, FileIsFile
<1>4. CASE driven = "files" /\ Files!Next /\ UNCHANGED <<driven, vdi, vhd, vmdk>>
  <2>1. FilesIInv' /\ [Files!Backed!Next]_(Files!Backed!vars) /\ SavesAll
    BY <1>4, FilesSteps, Zenon DEF StorageIInv, SavesAll
  <2>2. MarksFirst
    BY <1>4, StandsStill
  <2>3. driven' = "files" /\ driven = "files"
    BY <1>4
  <2> QED  BY <2>1, <2>2, <2>3 DEF StorageIInv, VdiIsDisk, VhdIsDisk, VmdkIsDisk, FileIsFile
<1> QED  BY <1>1, <1>2, <1>3, <1>4, Zenon DEF Next

\* So does a step in which nothing changes.
LEMMA StorageStands ==
  ASSUME StorageIInv, UNCHANGED vars
  PROVE  StorageIInv'
<1>1. UNCHANGED driven /\ UNCHANGED vdi /\ UNCHANGED vhd /\ UNCHANGED vmdk /\ UNCHANGED files
  BY Zenon DEF vars
<1>2. VdiIInv' <=> VdiIInv
  <2> USE DEF vdi
  <2>1. Vdi!TypeOK' <=> Vdi!TypeOK
    BY <1>1, Zenon DEF Vdi!TypeOK
  <2>2. VdiTables' <=> VdiTables
    BY <1>1, Zenon DEF VdiTables
  <2>3. VdiMemory' <=> VdiMemory
    BY <1>1, Zenon DEF VdiMemory
  <2>4. VdiWhole' <=> VdiWhole
    BY <1>1, Zenon DEF VdiWhole, EntriesKept
  <2>5. VdiVersions' <=> VdiVersions
    BY <1>1, Zenon DEF VdiVersions, Vdi!Content, Vdi!Held
  <2> QED  BY <1>1, <2>1, <2>2, <2>3, <2>4, <2>5, Zenon DEF VdiIInv
<1>3. VhdIInv' <=> VhdIInv
  <2> USE DEF vhd
  <2>1. Vhd!TypeOK' <=> Vhd!TypeOK
    BY <1>1, Zenon DEF Vhd!TypeOK
  <2>2. (VhdTables /\ VhdEnds)' <=> (VhdTables /\ VhdEnds)
    BY <1>1 DEF VhdTables, VhdEnds, VhdTarget, Vhd!FooterEndsFile, Vhd!EndsAt, Vhd!Injective
  <2>3. (VhdFresh /\ VhdMarked)' <=> (VhdFresh /\ VhdMarked)
    BY <1>1 DEF VhdFresh, VhdMarked, VhdTarget
  <2>4. VhdVersions' <=> VhdVersions
    BY <1>1, Zenon DEF VhdVersions, Vhd!Content
  <2> QED  BY <2>1, <2>2, <2>3, <2>4, Zenon DEF VhdIInv
<1>4. VmdkIInv' <=> VmdkIInv
  <2> USE DEF vmdk
  <2>1. Vmdk!TypeOK' <=> Vmdk!TypeOK
    BY <1>1, Zenon DEF Vmdk!TypeOK
  <2>2. /\ \A t : Vmdk!TableInUse(t)' = Vmdk!TableInUse(t)
        /\ \A g : Vmdk!PlaceOf(g)' = Vmdk!PlaceOf(g)
    BY <1>1, Zenon DEF Vmdk!TableInUse, Vmdk!PlaceOf
  <2>3. VmdkMemory' <=> VmdkMemory
    BY <1>1, Zenon DEF VmdkMemory, Vmdk!TableInUse
  <2>4. (VmdkGrains /\ Vmdk!CopyNeverAhead)' <=> (VmdkGrains /\ Vmdk!CopyNeverAhead)
    BY <1>1, <2>2, Zenon DEF VmdkGrains, Vmdk!CopyNeverAhead
  <2>5. VmdkPosition' <=> VmdkPosition
    BY <1>1, <2>2 DEF VmdkPosition
  <2>6. VmdkVersions' <=> VmdkVersions
    <3>1. Vmdk!Content' = Vmdk!Content
      BY <1>1, Zenon DEF Vmdk!Content, Vmdk!PlaceOf, Vmdk!TableInUse
    <3>2. \A x : VmdkHeld(x)' = VmdkHeld(x)
      BY <1>1, Zenon DEF VmdkHeld, Vmdk!PlaceOf, Vmdk!TableInUse, VmdkAt
    <3> QED  BY <1>1, <3>1, <3>2, Zenon DEF VmdkVersions
  <2> QED  BY <1>1, <2>1, <2>3, <2>4, <2>5, <2>6, Zenon DEF VmdkIInv
<1>5. FilesIInv' <=> FilesIInv
  BY <1>1, Zenon DEF files, FilesIInv, FileIInv, Files!TypeOK, Files!Held
<1> QED  BY <1>1, <1>2, <1>3, <1>4, <1>5, Zenon DEF StorageIInv

\* The inductive invariant of the machine's storage, whatever is driven.
THEOREM StorageInvariant == Spec => []StorageIInv
<1>1. Init => StorageIInv
  BY StorageStarts
<1>2. StorageIInv /\ [Next]_vars => StorageIInv'
  BY StorageSteps, StorageStands
<1> QED  BY <1>1, <1>2, PTL DEF Spec

\* Every image and every file is well formed at any instant.
THEOREM StorageIsTyped == Spec => []TypeOK
<1>1. StorageIInv => TypeOK
  BY Zenon DEF StorageIInv, TypeOK, VdiIInv, VhdIInv, VmdkIInv, FilesIInv
<1> QED  BY <1>1, StorageInvariant, PTL

\* No two blocks share a place of a VDI file until a close is torn, a VHD file ends with
\* its footer except within an allocation, the VMDK driver's position is where flush()
\* assumes it until a table is missed, and the copy of its tables is never ahead.
THEOREM ImagesAreSound == Spec => []FilesAreSound
<1>1. ASSUME StorageIInv, driven = "vdi"
      PROVE  Vdi!OnlyTornCloseShares
  BY <1>1, Zenon DEF StorageIInv, VdiIInv, VdiWhole, Vdi!OnlyTornCloseShares
<1>2. ASSUME StorageIInv, driven = "vhd"
      PROVE  Vhd!FooterEndsFile
  BY <1>2, Zenon DEF StorageIInv, VhdIInv, VhdEnds, Vhd!FooterEndsFile
<1>3. ASSUME StorageIInv, driven = "vmdk"
      PROVE  Vmdk!AtGrainUntilMissed /\ Vmdk!CopyNeverAhead
  <2>1. VmdkIInv
    BY <1>3, Zenon DEF StorageIInv
  <2>2. ~missed /\ vmdk_open /\ vmdk_dirty => position = Vmdk!PlaceOf(tlb_grain)
    BY <2>1, Zenon DEF VmdkIInv, VmdkMemory, VmdkPosition
  <2> QED  BY <2>1, <2>2, Zenon DEF VmdkIInv, Vmdk!AtGrainUntilMissed, Vmdk!AtCurrentGrain
<1>4. StorageIInv => FilesAreSound
  BY <1>1, <1>2, <1>3, Zenon DEF FilesAreSound
<1> QED  BY <1>4, StorageInvariant, PTL

\* A file that is not dirty reads the same in memory, in its stream and after the process
\* has ended, and a file kept in memory is never shorter than its stream, which the write of
\* the whole file does not shorten.
THEOREM CleanFilesAreSaved == Spec => []SavedFilesAreWhole
<1>1. ASSUME FilesIInv
      PROVE  Files!NothingBehindTheData /\ Files!CleanIsSaved
  <2>1. \A f \in {image} : FileIInv(f)
    BY <1>1, Zenon DEF FilesIInv
  <2>2. open \subseteq {image}
    BY <1>1, Zenon DEF FilesIInv, Files!TypeOK
  <2> QED  BY <2>1, <2>2, Zenon DEF FileIInv, Files!NothingBehindTheData, Files!CleanIsSaved
<1>2. StorageIInv => SavedFilesAreWhole
  BY <1>1, Zenon DEF StorageIInv, SavedFilesAreWhole
<1> QED  BY <1>2, StorageInvariant, PTL

\* A VHD sector is marked as in use before it is written, so that other software finds what
\* the guest wrote whenever the program ends.
THEOREM SectorsAreMarked == Spec => MarkedBeforeWritten
<1>1. ASSUME StorageIInv, [Next]_vars
      PROVE  [MarksFirst]_(Vhd!vars)
  <2>1. CASE Next
    BY <1>1, <2>1, StorageSteps
  <2>2. CASE UNCHANGED vars
    BY <2>2, StandsStill DEF vars
  <2> QED  BY <1>1, <2>1, <2>2
<1>2. StorageIInv /\ [Next]_vars => [MarksFirst]_(Vhd!vars)
  BY <1>1
<1> QED  BY <1>2, StorageInvariant, PTL DEF Spec, MarkedBeforeWritten, Vhd!MarkedBeforeWritten, MarksFirst

\* Once wpb_flush_all has returned, ending the process loses nothing.
THEOREM FlushAllIsEnough == Spec => FlushAllSaves
<1>1. ASSUME StorageIInv, [Next]_vars
      PROVE  [SavesAll]_(Files!vars)
  <2>1. CASE Next
    BY <1>1, <2>1, StorageSteps
  <2>2. CASE UNCHANGED vars
    BY <2>2, StandsStill DEF vars
  <2> QED  BY <1>1, <2>1, <2>2
<1>2. StorageIInv /\ [Next]_vars => [SavesAll]_(Files!vars)
  BY <1>1
<1> QED  BY <1>2, StorageInvariant, PTL DEF Spec, FlushAllSaves, Files!FlushAllSaves, SavesAll

\* The images implement the abstract disk and the file under them the abstract file: what
\* was written reads back, in any order of calls, and an end of the program within any of
\* them leaves something that was there since the last save.
THEOREM StorageReadsBack == Spec => ReadsBack
<1> DEFINE Starts == /\ driven = "vdi" => Vdi!Disk!Init
                     /\ driven = "vhd" => Vhd!Disk!Init
                     /\ driven = "vmdk" => Vmdk!Disk!Init
                     /\ driven = "files" => Files!Backed!Init
<1>1. Init => Starts
  BY StorageStarts
<1>2. StorageIInv /\ [Next]_vars => [VdiIsDisk]_vars /\ [VhdIsDisk]_vars /\ [VmdkIsDisk]_vars /\ [FileIsFile]_vars
  BY StorageSteps
<1>3. Spec => Starts
  BY <1>1, PTL DEF Spec
<1>4. Spec => [][VdiIsDisk]_vars /\ [][VhdIsDisk]_vars /\ [][VmdkIsDisk]_vars /\ [][FileIsFile]_vars
  BY <1>2, StorageInvariant, PTL DEF Spec
<1> QED  BY <1>3, <1>4 DEF ReadsBack, VdiIsDisk, VhdIsDisk, VmdkIsDisk, FileIsFile
=============================================================================
