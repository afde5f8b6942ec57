----------------------------- MODULE SectorDisk -----------------------------
(***************************************************************************)
(* What harddrv.cc takes a device_image_t for: an array of sectors that    *)
(* reads back what was last written, across close and open.  Nothing is    *)
(* promised for what an abrupt end of the program leaves but that a sector *)
(* then holds something it held since the image was last closed: a sector  *)
(* that nobody wrote is never damaged.  The image formats of vbox.cc,      *)
(* vpc.cc and vmware4.cc are shown to implement this module.               *)
(***************************************************************************)
CONSTANTS
  Sector,          \* the sectors of the disk
  Value            \* what a sector may hold

VARIABLES
  disk,            \* disk[s]: what sector s holds
  versions,        \* versions[s]: what it held since the last orderly close
  reply            \* what the last read returned

vars == <<disk, versions, reply>>

Only(d) == [s \in Sector |-> {d[s]}]

Init ==
  /\ disk \in [Sector -> Value]
  /\ versions = Only(disk)
  /\ reply \in Value

Read(s) ==
  /\ reply' = disk[s]
  /\ UNCHANGED <<disk, versions>>

Write(s, v) ==
  /\ disk' = [disk EXCEPT ![s] = v]
  /\ versions' = [versions EXCEPT ![s] = @ \cup {v}]
  /\ UNCHANGED reply

\* The image was closed: what it holds now is what it will hold.
Close ==
  /\ versions' = Only(disk)
  /\ UNCHANGED <<disk, reply>>

\* The program ended without closing the image.
Crash ==
  /\ disk' \in [Sector -> Value]
  /\ \A s \in Sector : disk'[s] \in versions[s]
  /\ versions' = Only(disk')
  /\ UNCHANGED reply

Next ==
  \/ \E s \in Sector : Read(s)
  \/ \E s \in Sector, v \in Value : Write(s, v)
  \/ Close
  \/ Crash

Spec == Init /\ [][Next]_vars
=============================================================================
