-------------------------------- MODULE MCCpu --------------------------------
(***************************************************************************)
(* The CPU: arithmetic flags, address translation, instructions that       *)
(* fault, and transfers between levels and tasks.  One run drives each of  *)
(* them, the translation twice: with one address space and with one page.  *)
(* The others stay in one initial state.                                   *)
(***************************************************************************)
EXTENDS Integers, FiniteSets

CONSTANTS
  LinearPages,        \* pages that are translated: two of them meet in one slot of the TLB
  TlbSlots,           \* how many slots the TLB has
  AddressSpaces,      \* values of CR3, each of which maps a page to a frame of its own
  TableEdits,         \* bound: changes of the tables by the guest
  ArithmeticSteps,    \* bound: arithmetic instructions
  Evictions,          \* bound: pages taken away while an instruction faults
  LevelChanges        \* bound: transfers, enough for a way in, a fault there, a way back

VARIABLES
  driven,
  f, ref, turned, right, digits, done,
  mmu, dir, pt, allowed, touched, moved, edits,
  ins, run, start, due, taken,
  kernel, cpu, before, transfers

arithmetic == <<f, ref, turned, right, digits, done>>
translation == <<mmu, dir, pt, allowed, touched, moved, edits>>
instruction == <<ins, run, start, due, taken>>
privilege == <<kernel, cpu, before, transfers>>

\* Operands of four bits, in two digits; any instructions.
Flags == INSTANCE LazyFlags WITH
  Bits <- 4, Half <- 4, Base <- 3, Few <- {8, 15}, Separately <- {"CF", "OF"}, MaxInstructions <- ArithmeticSteps

\* The frame that a page of an address space is mapped to at first.
FirstFrame(space, page) == (page \div 2 + space - 1) % 2

Translation == INSTANCE Paging WITH
  s <- mmu, Pages <- LinearPages, Slots <- TlbSlots, Spaces <- AddressSpaces, Mapped <- FirstFrame,
  MaxEdits <- TableEdits

\* One instruction, and the pages taken away while it faults.
Restarts == INSTANCE Restart WITH i <- ins, s <- run, began <- start, evictions <- taken, MaxEvictions <- Evictions

Privileges == INSTANCE Transfers WITH c <- kernel, s <- cpu, last <- before, steps <- transfers, MaxSteps <- LevelChanges

ASSUME ConstantsAssumption ==
  Flags!ConstantsOK /\ Translation!ConstantsOK /\ Restarts!ConstantsOK /\ Privileges!ConstantsOK

vars == <<driven, arithmetic, translation, instruction, privilege>>

Init ==
  /\ driven \in {"flags", "conflicts", "switches", "restart", "transfers"}
  /\ Flags!Init
  /\ driven # "flags" => ~f.eflags["CF"]
  /\ Translation!Init
  /\ IF driven = "restart" THEN Restarts!Init
     ELSE ins = {} /\ run = {} /\ start = {} /\ due = {} /\ taken = 0
  /\ IF driven = "transfers" THEN Privileges!Init
     ELSE kernel = {} /\ cpu = {} /\ before = {} /\ transfers = 0

\* Two runs of the translation that together have fewer states than one with
\* both: pages that meet in a slot, in one address space, and the address spaces
\* of one page.
Translating == {"conflicts", "switches"}

OneSpace ==
  /\ mmu'.cr3 = mmu.cr3
  /\ \A c \in AddressSpaces \ {mmu.cr3} : dir'[c] = dir[c] /\ pt'[c] = pt[c]

OnePage ==
  LET Other == LinearPages \ {CHOOSE p \in LinearPages : TRUE} IN
  /\ mmu'.window \notin Other /\ \A i \in DOMAIN mmu.TLB : mmu'.TLB[i].lpf \notin Other
  /\ \A c \in AddressSpaces, p \in Other : pt'[c][p] = pt[c][p]

Next ==
  \/ driven = "flags" /\ Flags!Next /\ UNCHANGED <<driven, translation, instruction, privilege>>
  \/ /\ driven \in Translating /\ Translation!Next /\ UNCHANGED <<driven, arithmetic, instruction, privilege>>
     /\ IF driven = "conflicts" THEN OneSpace ELSE OnePage
  \/ driven = "restart" /\ Restarts!Next /\ UNCHANGED <<driven, arithmetic, translation, privilege>>
  \/ driven = "transfers" /\ Privileges!Next /\ UNCHANGED <<driven, arithmetic, translation, instruction>>

Spec == Init /\ [][Next]_vars

-----------------------------------------------------------------------------
\* Flags, tables, instructions and tasks are well formed at any instant.
TypeOK ==
  /\ driven = "flags" => Flags!TypeOK
  /\ driven \in Translating => Translation!TypeOK
  /\ driven = "restart" => Restarts!TypeOK
  /\ driven = "transfers" => Privileges!TypeOK

\* Flags that are worked out when they are read are those of the manual, but for
\* decimal adjustments of sums that wrap, and CF after a rotation by whole turns.
FlagsAreExact == driven = "flags" => Flags!FlagsAreExact /\ Flags!OnlyWrappedSumsAreWrong

\* What the TLB and the prefetch window let pass without a walk, the tables have
\* allowed since the guest had them forgotten, and marked.
TranslationIsAllowed ==
  driven \in Translating =>
    Translation!OnlySupervisorWritesWiden /\ Translation!MarkedBeforeUse /\ Translation!OnlyA20LeavesFetchStale

\* A page fault undoes what its instruction has done, and the instruction that
\* begins again does everything once.
FaultsRestart == driven = "restart" => Restarts!FaultsArePrecise /\ Restarts!FaultsAreTransparent

\* Code, stack, data and flags agree with the level, privilege is won only where a
\* gate leads, and what was left by a transfer is what its return gives back.
PrivilegeIsKept ==
  driven = "transfers" =>
    /\ Privileges!Protected /\ Privileges!GatedEntry /\ Privileges!FlagsAreGuarded
    /\ Privileges!ContextsAreKept /\ Privileges!BusyTasksReturn
=============================================================================
