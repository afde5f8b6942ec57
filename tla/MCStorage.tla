----------------------------- MODULE MCStorage ------------------------------
(***************************************************************************)
(* The storage of the machine: a hard disk kept in a VDI, a VHD or a VMDK  *)
(* file, and under all of them the files of the host.  One run drives each *)
(* of the four; those that are not driven stay in one initial state.       *)
(***************************************************************************)
EXTENDS Integers, Sequences

CONSTANTS
  Value, Zero,                                     \* what a sector or a byte may hold
  VdiBlocks, VdiBlockSize, VdiPlaces,              \* of the VDI image
  VhdBlocks, VhdBlockSize, VhdPlaces,              \* of the VHD image
  VmdkTables, VmdkTableSize, VmdkGrainSize,        \* of the VMDK image: its tables,
  InDirectory, InCopy, VmdkPlaces,                 \* and which of them exist
  image, CacheLimit, MaxLength                     \* of the host's file

VARIABLES
  driven,
  vdi_map, vdi_count, vdi_data, phase, mtlb, blocks_allocated, mtlb_dirty, mtlb_sector, block_data, vdi_dirty,
  vdi_reply, vdi_versions, torn,
  bat, bitmap, vhd_data, footer_at, vhd_open, pagetable, free, last_bitmap, step, target, vhd_reply, vhd_versions,
  interrupted,
  table, table_copy, vmdk_data, end, position, vmdk_open, tlb_grain, tlb, vmdk_dirty, slb_cache, current_flb_index,
  slb_cache_loaded, vmdk_reply, vmdk_versions, missed,
  stream, durable, open, handle, unflushed, file_reply, file_versions

vdi == <<vdi_map, vdi_count, vdi_data, phase, mtlb, blocks_allocated, mtlb_dirty, mtlb_sector, block_data,
         vdi_dirty, vdi_reply, vdi_versions, torn>>
vhd == <<bat, bitmap, vhd_data, footer_at, vhd_open, pagetable, free, last_bitmap, step, target, vhd_reply,
         vhd_versions, interrupted>>
vmdk == <<table, table_copy, vmdk_data, end, position, vmdk_open, tlb_grain, tlb, vmdk_dirty, slb_cache,
          current_flb_index, slb_cache_loaded, vmdk_reply, vmdk_versions, missed>>
files == <<stream, durable, open, handle, unflushed, file_reply, file_versions>>

Vdi == INSTANCE VdiImage WITH
  Blocks <- VdiBlocks, BlockSize <- VdiBlockSize, HostBlocks <- VdiPlaces,
  file_map <- vdi_map, file_count <- vdi_count, data <- vdi_data,
  is_dirty <- vdi_dirty, reply <- vdi_reply, versions <- vdi_versions

Vhd == INSTANCE VhdImage WITH
  Blocks <- VhdBlocks, BlockSize <- VhdBlockSize, HostPlaces <- VhdPlaces,
  data <- vhd_data, open <- vhd_open, reply <- vhd_reply, versions <- vhd_versions

Vmdk == INSTANCE VmdkImage WITH
  Tables <- VmdkTables, TableSize <- VmdkTableSize, GrainSize <- VmdkGrainSize,
  HostPlaces <- VmdkPlaces, data <- vmdk_data, open <- vmdk_open, is_dirty <- vmdk_dirty,
  reply <- vmdk_reply, versions <- vmdk_versions

Files == INSTANCE FileIo WITH
  File <- {image}, reply <- file_reply, versions <- file_versions

ASSUME ConstantsAssumption ==
  Vdi!ConstantsOK /\ Vhd!ConstantsOK /\ Vmdk!ConstantsOK /\ Files!ConstantsOK

vars == <<driven, vdi, vhd, vmdk, files>>

Init ==
  /\ driven \in {"vdi", "vhd", "vmdk", "files"}
  /\ Vdi!Init /\ (driven # "vdi" => vdi_count = 0 /\ vdi_data = [p \in Vdi!HostBlock |-> [i \in Vdi!Slot |-> Zero]])
  /\ Vhd!Init /\ (driven # "vhd" => free = 0 /\ bitmap = [p \in Vhd!Place |-> FALSE])
  /\ Vmdk!Init /\ (driven # "vmdk" => end = 1 /\ vmdk_data = [p \in Vmdk!Place |-> Vmdk!ZeroGrain])
  /\ Files!Init /\ (driven # "files" => stream[image] = <<>>)

Next ==
  \/ driven = "vdi" /\ Vdi!Next /\ UNCHANGED <<driven, vhd, vmdk, files>>
  \/ driven = "vhd" /\ Vhd!Next /\ UNCHANGED <<driven, vdi, vmdk, files>>
  \/ driven = "vmdk" /\ Vmdk!Next /\ UNCHANGED <<driven, vdi, vhd, files>>
  \/ driven = "files" /\ Files!Next /\ UNCHANGED <<driven, vdi, vhd, vmdk>>

Spec == Init /\ [][Next]_vars

-----------------------------------------------------------------------------
\* Every image and every file is well formed at any instant.
TypeOK ==
  /\ driven = "vdi" => Vdi!TypeOK
  /\ driven = "vhd" => Vhd!TypeOK
  /\ driven = "vmdk" => Vmdk!TypeOK
  /\ driven = "files" => Files!TypeOK

\* What each format promises of the file it keeps: places that are not shared
\* until a close is torn (VDI), a footer that ends the file (VHD), a position that
\* flush() may rely on until a table is missed, and a copy of the tables that is
\* never ahead (VMDK).
FilesAreSound ==
  /\ driven = "vdi" => Vdi!OnlyTornCloseShares
  /\ driven = "vhd" => Vhd!FooterEndsFile
  /\ driven = "vmdk" => Vmdk!AtGrainUntilMissed /\ Vmdk!CopyNeverAhead

\* A file that is not dirty is saved, and the stream never holds more than the
\* file.
SavedFilesAreWhole == driven = "files" => Files!NothingBehindTheData /\ Files!CleanIsSaved

\* A VHD sector is marked as in use before it is written.
MarkedBeforeWritten == Vhd!MarkedBeforeWritten

\* The guest's disk reads back what was written, whatever the format of the
\* image and wherever the program ends: each image implements SectorDisk (VDI until
\* a close is torn, VMDK until a table is missed), and the file under it a file
\* with a position, BackedFile.
ReadsBack ==
  /\ driven = "vdi" => Vdi!Disk!Init
  /\ driven = "vhd" => Vhd!Disk!Init
  /\ driven = "vmdk" => Vmdk!Disk!Init
  /\ driven = "files" => Files!Backed!Init
  /\ [][driven = "vdi" => torn \/ [Vdi!Disk!Next]_(Vdi!Disk!vars)]_vars
  /\ [][driven = "vhd" => [Vhd!Disk!Next]_(Vhd!Disk!vars)]_vars
  /\ [][driven = "vmdk" => missed \/ [Vmdk!Disk!Next]_(Vmdk!Disk!vars)]_vars
  /\ [][driven = "files" => [Files!Backed!Next]_(Files!Backed!vars)]_vars

\* Once wpb_flush_all has returned, ending the process loses nothing.
FlushAllSaves == Files!FlushAllSaves
=============================================================================
