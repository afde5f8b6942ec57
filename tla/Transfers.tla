----------------------------- MODULE Transfers ------------------------------
(***************************************************************************)
(* Far transfers of control between privilege levels and tasks             *)
(* (cpu/ctrl_xfer_pro.cc, exception.cc, tasking.cc, segment_ctrl_pro.cc,   *)
(* vm8086.cc, soft_int.cc): jumps, calls and returns through gates,        *)
(* interrupts and exceptions, IRET, task switches, virtual 8086 mode.      *)
(*                                                                         *)
(* A selector is <<name of the descriptor, RPL>>; addresses and ESP count  *)
(* words.  DS stands for DS, ES, FS and GS.  Code and gates are 32-bit,    *)
(* there is no LDT, and TF and RF are left out.  Where the code panics the *)
(* run goes on.  The stacks of level 0 are lists of frames; the content of *)
(* the others is whatever the program there likes, and so is any frame     *)
(* that the kernel makes itself.                                           *)
(***************************************************************************)
EXTENDS Integers, FiniteSets, Sequences

LOCAL INSTANCE SequencesExt

CONSTANTS MaxSteps   \* bound: instructions and interrupts

ConstantsOK == MaxSteps \in Nat

VARIABLES
  c,       \* what the kernel has set up: the IDT, the stack of level 0, two tasks
  s,       \* the CPU, its tasks and the stacks of level 0
  last,    \* history: the level and the flags before the last step, and what it was
  steps

vars == <<c, s, last, steps>>

-----------------------------------------------------------------------------
(* The GDT. *)

None == [kind |-> "none", dpl |-> 3, p |-> TRUE, conf |-> FALSE, w |-> FALSE, to |-> "null", n |-> 0]
Code(dpl) == [None EXCEPT !.kind = "code", !.dpl = dpl]
Data(dpl) == [None EXCEPT !.kind = "data", !.dpl = dpl, !.w = TRUE]
Gate(dpl, to) == [None EXCEPT !.kind = "gate", !.dpl = dpl, !.to = to]

Names == {"null", "R", "K", "M", "U", "C", "A", "S1", "S2", "S3", "SA", "MD", "UD", "RO", "GK", "GM", "G0", "GC", "GA",
          "TG", "T1", "T2", "T3", "TA"}

D(name) ==
  CASE name = "K" -> Code(0) [] name = "U" -> Code(3) [] name = "UD" -> Data(3)
    [] name \in {"S1", "S2", "S3"} -> Data(0)
    [] name = "M" -> Code(1) [] name = "MD" -> Data(1)
    [] name = "C" -> [Code(0) EXCEPT !.conf = TRUE]
    [] name = "A" -> [Code(0) EXCEPT !.p = FALSE]
    [] name = "SA" -> [Data(0) EXCEPT !.p = FALSE]
    [] name = "RO" -> [Data(3) EXCEPT !.w = FALSE]
    [] name = "R" -> [None EXCEPT !.kind = "real"]
    [] name = "GK" -> [Gate(3, "K") EXCEPT !.n = 1]
    [] name = "GM" -> Gate(3, "M") [] name = "G0" -> Gate(0, "K")
    [] name = "GC" -> Gate(3, "C") [] name = "GA" -> Gate(3, "A")
    [] name = "TG" -> [Gate(3, "T2") EXCEPT !.kind = "task"]
    [] name \in {"T1", "T2"} -> [None EXCEPT !.kind = "tss"]
    [] name = "T3" -> [None EXCEPT !.kind = "tss", !.dpl = 0]
    [] name = "TA" -> [None EXCEPT !.kind = "tss", !.p = FALSE]
    [] name = "null" -> None

Tasks == {"T1", "T2", "T3"}
Stacks == {"S1", "S2", "S3"}
Null == <<"null", 0>>
Real == <<"R", 3>>

\* Words of a stack, the words of the level-0 stacks that may be unmapped, and
\* an address that is beyond every code segment.
Top(name) == CASE name \in Stacks -> 10 [] name = "MD" -> 6 [] OTHER -> 12
Guarded == 3
Beyond == 3

\* Code is entered by a gate at 0, by a far transfer at 1, and loops at 1 and 2.
Following(ip) == IF ip = 1 THEN 2 ELSE 1

\* The stacks for the inner levels, in the TSS.
get_SS_ESP_from_TSS(k, level) ==
  IF level = 1 THEN [ss |-> <<"MD", 1>>, esp |-> 6]
  ELSE [ss |-> CASE k.tr = "T1" -> c.ss0 [] k.tr = "T2" -> <<"S2", 0>> [] OTHER -> <<"S3", 0>>, esp |-> 10]

Flags == [if : BOOLEAN, iopl : {0, 3}, nt : BOOLEAN, vm : BOOLEAN]
Selector == Names \X {0, 1, 3}
Context == [cs : Selector, ss : Selector, ds : Selector, ip : 0 .. 3, esp : Int, fl : Flags]

TypeOK ==
  /\ s.cs \in [sel : Selector, valid : BOOLEAN] /\ s.ss \in [sel : Selector, valid : BOOLEAN]
  /\ s.ds \in [sel : Selector, valid : BOOLEAN, dpl : {0, 1, 3}]
  /\ s.ip \in 0 .. 3 /\ s.esp \in 0 .. 12 /\ s.fl \in Flags
  /\ s.tr \in Tasks /\ s.busy \subseteq Tasks
  /\ s.link \in [Tasks -> Tasks \union {"null"}] /\ s.image \in [Tasks -> Context]
  /\ s.errorno \in 0 .. 3 /\ s.fault \in {"", "down"}
  /\ steps \in 0 .. MaxSteps

CPL(k) == k.cs.sel[2]
Seen(k) == [cs |-> k.cs.sel, ss |-> k.ss.sel, ds |-> k.ds.sel, ip |-> k.ip, esp |-> k.esp, fl |-> k.fl]

-----------------------------------------------------------------------------
(* Faults. *)

Ok(k) == k.fault = ""
Then(k, Next1(_)) == IF Ok(k) THEN Next1(k) ELSE k
Raise(k, vector) == IF Ok(k) THEN [k EXCEPT !.fault = vector] ELSE k

\* The first of the tests <<condition, vector>> that is met.
Tested(k, tests) ==
  LET met == {n \in DOMAIN tests : tests[n][1]}
  IN  IF met = {} THEN k ELSE Raise(k, tests[CHOOSE n \in met : \A m \in met : n <= m][2])

\* The context that is to be resumed later: after an instruction that is over,
\* or at one that has faulted.
Ghost(k) == IF k.over THEN [k.began EXCEPT !.ip = Following(@)] ELSE k.began

-----------------------------------------------------------------------------
(* Stacks and segment registers. *)

Size(f) ==
  (IF f.err THEN 1 ELSE 0)
  + (CASE f.kind = "int" -> 3 [] f.kind = "inner" -> 5 [] f.kind = "v86" -> 9
       [] f.kind = "call" -> 2 [] f.kind = "gate" -> 4 + f.n [] f.kind = "error" -> 0)

Frame(k, kind, n, err) ==
  [kind |-> kind, n |-> n, err |-> err, was |-> Ghost(k), cs |-> k.cs.sel, ss |-> k.ss.sel, ds |-> k.ds.sel,
   ip |-> k.ip, esp |-> k.esp, fl |-> k.fl]

can_push(k, esp, words) == k.ss.valid /\ esp # 0 /\ esp >= words
can_pop(k, words) == k.ss.valid /\ (k.ss.sel[1] \in Stacks \/ k.esp + words <= Top(k.ss.sel[1]))

\* A frame is pushed, word by word; a word may be in a page that is missing.
push(k, f) ==
  LET low == k.esp - Size(f)
      name == k.ss.sel[1]
      kept == IF k.esp = Top(name) THEN <<>> ELSE k.stack[name]
  IN  CASE ~Ok(k) -> k
        [] ~can_push(k, k.esp, Size(f)) -> Raise(k, "SS")
        [] name \in Stacks /\ c.guard /\ low < Guarded -> Raise(k, "PF")
        [] name \in Stacks -> [k EXCEPT !.esp = low, !.stack[name] = Append(kept, f)]
        [] OTHER -> [k EXCEPT !.esp = low]

load_cs(k, name, cpl) == IF Ok(k) THEN [k EXCEPT !.cs = [sel |-> <<name, cpl>>, valid |-> TRUE]] ELSE k
load_ss(k, sel, cpl) == IF Ok(k) THEN [k EXCEPT !.ss = [sel |-> <<sel[1], cpl>>, valid |-> TRUE]] ELSE k
Go(k, ip) == IF Ok(k) THEN [k EXCEPT !.ip = ip] ELSE k

load_seg_reg_ss(k, sel) ==
  LET d == D(sel[1])
  IN  load_ss(Tested(k, <<<<sel[1] = "null", "GP">>, <<sel[2] # CPL(k), "GP">>, <<d.kind # "data" \/ ~d.w, "GP">>,
                          <<d.dpl # CPL(k), "GP">>, <<~d.p, "SS">>>>), sel, CPL(k))

load_seg_reg_ds(k, sel) ==
  LET d == D(sel[1])
  IN  IF sel[1] = "null" THEN [k EXCEPT !.ds.sel = Null, !.ds.valid = FALSE]
      ELSE Then(Tested(k, <<<<d.kind \notin {"code", "data"}, "GP">>,
                            <<~d.conf /\ (sel[2] > d.dpl \/ CPL(k) > d.dpl), "GP">>, <<~d.p, "NP">>>>),
                LAMBDA t : [t EXCEPT !.ds = [sel |-> sel, valid |-> TRUE, dpl |-> d.dpl]])

\* Data segments that the new level may not use are taken away.
validate_seg_regs(k) ==
  IF Ok(k) /\ k.ds.dpl < CPL(k) THEN [k EXCEPT !.ds.sel = Null, !.ds.valid = FALSE] ELSE k

\* Segments of virtual 8086 mode: everything is at level 3.
init_v8086_mode(k) ==
  [k EXCEPT !.cs = [sel |-> Real, valid |-> TRUE], !.ss = [sel |-> Real, valid |-> TRUE],
            !.ds = [sel |-> Real, valid |-> TRUE, dpl |-> 3]]

write_eflags(k, fl, change_IOPL, change_IF, change_VM) ==
  IF ~Ok(k) THEN k
  ELSE [k EXCEPT !.fl = [if |-> IF change_IF THEN fl.if ELSE @.if, iopl |-> IF change_IOPL THEN fl.iopl ELSE @.iopl,
                         vm |-> IF change_VM THEN fl.vm ELSE @.vm, nt |-> fl.nt]]

-----------------------------------------------------------------------------
(* Task switches. *)

\* The commit: the old context is saved, the busy bits and the link follow from
\* the way of the switch, and the new context is there but for its segments.
\* Exceptions from here on belong to the new task; but ESP goes back to that of
\* the old one (tasking.cc:488, exception.cc:907-908).
Committed(k, t, source) ==
  LET from == source = "iret"
      nested == source = "call"
      old == IF from THEN [Seen(k) EXCEPT !.fl.nt = FALSE] ELSE Seen(k)
      due == IF from THEN [Ghost(k) EXCEPT !.fl.nt = FALSE] ELSE Ghost(k)
      new == IF nested THEN [k.image[t] EXCEPT !.fl.nt = TRUE] ELSE k.image[t]
  IN  [k EXCEPT !.image[k.tr] = old,
                !.busy = (IF nested THEN @ ELSE @ \ {k.tr}) \union (IF from THEN {} ELSE {t}),
                !.link[t] = IF nested THEN k.tr ELSE @,
                !.tr = t, !.ip = new.ip, !.prev.ip = new.ip, !.esp = new.esp, !.fl = new.fl,
                !.cs = [sel |-> new.cs, valid |-> FALSE], !.ss = [sel |-> new.ss, valid |-> FALSE],
                !.ds.sel = new.ds, !.ds.valid = FALSE,
                !.left[k.tr] = due, !.over = FALSE, !.switched = TRUE,
                !.waiting = IF nested THEN @ \union {k.tr} ELSE @ \ {t},
                !.began = IF nested THEN [k.left[t] EXCEPT !.fl.nt = TRUE] ELSE k.left[t],
                !.kept = @ /\ k.image[t] = k.left[t]]

\* The segments of the new task are loaded one by one.
LoadedCs(k) ==
  LET sel == k.cs.sel
      d == D(sel[1])
  IN  Then(Tested(k, <<<<d.kind # "code", "TS">>, <<~d.conf /\ d.dpl # sel[2], "TS">>,
                       <<d.conf /\ d.dpl > sel[2], "TS">>, <<~d.p, "NP">>>>),
           LAMBDA t : [t EXCEPT !.cs.valid = TRUE])

LoadedSs(k) ==
  LET sel == k.ss.sel
      d == D(sel[1])
  IN  Then(Tested(k, <<<<d.kind # "data" \/ ~d.w, "TS">>, <<~d.p, "SS">>, <<d.dpl # CPL(k), "TS">>,
                       <<d.dpl # sel[2], "TS">>>>),
           LAMBDA t : [t EXCEPT !.ss.valid = TRUE])

LoadedDs(k) ==
  LET sel == k.ds.sel
      d == D(sel[1])
  IN  IF sel[1] = "null" THEN k
      ELSE Then(Tested(k, <<<<d.kind \notin {"code", "data"}, "TS">>,
                            <<~d.conf /\ (d.dpl < CPL(k) \/ d.dpl < sel[2]), "TS">>, <<~d.p, "NP">>>>),
                LAMBDA t : [t EXCEPT !.ds.valid = TRUE, !.ds.dpl = d.dpl])

Segments(k) == IF k.fl.vm THEN init_v8086_mode(k) ELSE Then(Then(LoadedCs(k), LoadedSs), LoadedDs)

task_switch(k, t, source) ==
  Then(Tested(k, <<<<~D(t).p, "NP">>>>), LAMBDA tested : Segments(Committed(tested, t, source)))

\* The switch, and the test of the new EIP.
WithinCode(k, vector) == Tested(k, <<<<k.ip = Beyond, vector>>>>)
Switch(k, t, source, vector) == WithinCode(task_switch(k, t, source), vector)

-----------------------------------------------------------------------------
(* Jumps and calls. *)

\* A gate or a task may be used from its own level and from inner ones.
Weak(k, d, sel) == d.dpl < CPL(k) \/ d.dpl < sel[2]

\* Code of the same level, or conforming code of an inner one.
SameLevelCode(k, sel) ==
  LET d == D(sel[1])
  IN  Tested(k, <<<<IF d.conf THEN d.dpl > CPL(k) ELSE sel[2] > CPL(k) \/ d.dpl # CPL(k), "GP">>, <<~d.p, "NP">>>>)

JumpTss(k, sel) ==
  IF sel[1] \in k.busy THEN k
  ELSE Then(Tested(k, <<<<Weak(k, D(sel[1]), sel), "GP">>>>), LAMBDA t : Switch(t, sel[1], "jump", "GP"))

JumpTask(k, sel) ==
  LET d == D(sel[1])
  IN  Then(Tested(k, <<<<Weak(k, d, sel), "GP">>, <<d.to \in k.busy, "GP">>>>), LAMBDA t : Switch(t, d.to, "jump", "GP"))

JumpGate(k, sel) ==
  LET d == D(sel[1])
      dest == D(d.to)
      tested == Tested(k, <<<<Weak(k, d, sel), "GP">>, <<dest.kind # "code", "GP">>,
                            <<IF dest.conf THEN dest.dpl > CPL(k) ELSE dest.dpl # CPL(k), "GP">>, <<~dest.p, "NP">>>>)
  IN  Go(load_cs(tested, d.to, CPL(k)), 0)

jump_protected(k, sel) ==
  LET kind == D(sel[1]).kind
  IN  CASE kind = "code" -> Go(load_cs(SameLevelCode(k, sel), sel[1], CPL(k)), 1)
        [] kind = "gate" -> JumpGate(k, sel)
        [] kind = "tss" -> JumpTss(k, sel)
        [] kind = "task" -> JumpTask(k, sel)
        [] OTHER -> Raise(k, "GP")

\* Stack and code of an inner level.
EnteredInner(k, new, name, level) ==
  [load_cs(load_ss(k, new.ss, level), name, level) EXCEPT !.esp = new.esp, !.ip = 0]

\* Through a call gate to a more privileged level: its stack is taken from the
\* TSS, SS and CS are loaded, and then the frame is pushed.
InnerCall(k, d, dest) ==
  LET new == get_SS_ESP_from_TSS(k, dest.dpl)
      ss == D(new.ss[1])
      tested == Tested(k, <<<<new.ss[1] = "null", "TS">>, <<new.ss[2] # dest.dpl, "TS">>, <<ss.dpl # dest.dpl, "TS">>,
                            <<ss.kind # "data" \/ ~ss.w, "TS">>, <<~ss.p, "SS">>, <<new.esp < 4 + d.n, "SS">>>>)
  IN  Then(tested, LAMBDA t : push(EnteredInner(t, new, d.to, dest.dpl), Frame(k, "gate", d.n, FALSE)))

SameLevelCall(k, name, ip) == Go(load_cs(push(k, Frame(k, "call", 0, FALSE)), name, CPL(k)), ip)

\* The gate's code segment may be absent (ctrl_xfer_pro.cc:756-770).
CallGate(k, sel) ==
  LET d == D(sel[1])
      dest == D(d.to)
      gate == Tested(k, <<<<Weak(k, d, sel), "GP">>, <<dest.kind # "code" \/ dest.dpl > CPL(k), "GP">>>>)
  IN  Then(gate, LAMBDA t : IF ~dest.conf /\ dest.dpl < CPL(k) THEN InnerCall(t, d, dest)
                            ELSE SameLevelCall(t, d.to, 0))

CallTss(k, sel) ==
  IF sel[1] \in k.busy THEN k
  ELSE Then(Tested(k, <<<<Weak(k, D(sel[1]), sel), "TS">>>>), LAMBDA t : Switch(t, sel[1], "call", "TS"))

CallTask(k, sel) ==
  LET d == D(sel[1])
  IN  Then(Tested(k, <<<<Weak(k, d, sel), "TS">>, <<d.to \in k.busy, "TS">>>>), LAMBDA t : Switch(t, d.to, "call", "TS"))

CallCode(k, sel) == SameLevelCall(SameLevelCode(k, sel), sel[1], 1)

call_protected(k, sel) ==
  LET kind == D(sel[1]).kind
  IN  CASE kind = "code" -> CallCode(k, sel)
        [] kind = "gate" -> CallGate(k, sel)
        [] kind = "tss" -> CallTss(k, sel)
        [] kind = "task" -> CallTask(k, sel)
        [] OTHER -> Raise(k, "GP")

-----------------------------------------------------------------------------
(* Interrupts and exceptions. *)

Contributory == {"TS", "NP", "SS", "GP"}
Vectors == Contributory \union {"UD", "PF", "DF", "INT", "IRQ"}
IdtOf(vector) == c.idt[IF vector \in Contributory \union {"UD", "PF"} THEN "fault" ELSE vector]

\* An interrupt gate clears IF; both kinds clear NT and VM.
Masked(k, g) ==
  IF Ok(k) THEN [k EXCEPT !.fl.if = @ /\ g.kind = "trap", !.fl.nt = FALSE, !.fl.vm = FALSE] ELSE k

\* To a more privileged level.  For want of room there is only a panic, and
\* then a push faults.
InnerInterrupt(k, g, err) ==
  LET level == D(g.to).dpl
      new == get_SS_ESP_from_TSS(k, level)
      ss == D(new.ss[1])
      tested == Tested(k, <<<<new.ss[1] = "null", "TS">>, <<new.ss[2] # level, "TS">>, <<ss.dpl # level, "TS">>,
                            <<ss.kind # "data" \/ ~ss.w, "TS">>, <<~ss.p, "SS">>>>)
      Emptied(t) == IF k.fl.vm THEN [t EXCEPT !.ds.sel = Null, !.ds.valid = FALSE] ELSE t
      frame == Frame(k, IF k.fl.vm THEN "v86" ELSE "inner", 0, err)
  IN  Then(tested, LAMBDA t : Masked(push(Emptied(EnteredInner(t, new, g.to, level)), frame), g))

SameLevelInterrupt(k, g, err) ==
  Masked(Go(load_cs(push(k, Frame(k, "int", 0, err)), g.to, CPL(k)), 0), g)

WithErrorCode(k, err) == IF err THEN push(k, Frame(k, "error", 0, TRUE)) ELSE k

Delivery(k, g, err) ==
  LET dest == D(g.to)
      code == Tested(k, <<<<dest.kind # "code" \/ dest.dpl > CPL(k), "GP">>, <<~dest.p, "NP">>>>)
      task == Tested(k, <<<<g.to \in k.busy, "TS">>>>)
  IN  IF g.kind = "task"
      THEN WithinCode(WithErrorCode(Then(task, LAMBDA t : task_switch(t, g.to, "call")), err), "GP")
      ELSE Then(code, LAMBDA t : CASE ~dest.conf /\ dest.dpl < CPL(t) -> InnerInterrupt(t, g, err)
                                   [] t.fl.vm -> Raise(t, "GP")
                                   [] OTHER -> SameLevelInterrupt(t, g, err))

interrupt(k, vector, is_INT, err) ==
  LET g == IdtOf(vector)
      saved == [k EXCEPT !.saved = [cs |-> k.cs, ss |-> k.ss, ip |-> k.ip, esp |-> k.esp]]
  IN  Then(Tested(saved, <<<<is_INT /\ g.dpl < CPL(k), "GP">>, <<~g.p, "NP">>>>), LAMBDA t : Delivery(t, g, err))

Class(vector) ==
  CASE vector = "DF" -> "double" [] vector = "PF" -> "page" [] vector \in Contributory -> "contributory"
    [] OTHER -> "benign"

is_exception_OK(first, second) ==
  /\ ~(first = "contributory" /\ second = "contributory")
  /\ ~(first = "page" /\ second \in {"contributory", "page"})

\* One exception: the second during the delivery of a first may become a double
\* fault, the third resets the machine.  CS and SS are those of before the
\* delivery that failed, but those of an instruction that failed stay.
Undone(k) ==
  IF k.errorno = 0 THEN k ELSE [k EXCEPT !.cs = k.saved.cs, !.ss = k.saved.ss, !.ip = k.saved.ip, !.esp = k.saved.esp]
Delivered(k) == IF Ok(k) THEN [k EXCEPT !.errorno = 0] ELSE k

exception(k) ==
  LET vector == k.fault
      second == k.errorno >= 1
      double == second /\ ~is_exception_OK(k.first, Class(vector))
      begun == [Undone(k) EXCEPT !.errorno = @ + 1, !.ip = k.prev.ip, !.esp = k.prev.esp, !.over = FALSE, !.fault = "",
                                 !.first = IF second THEN @ ELSE Class(vector)]
  IN  CASE Ok(k) \/ vector = "down" -> k
        [] k.errorno = 2 \/ (second /\ k.first = "double") -> [k EXCEPT !.fault = "down"]
        [] OTHER -> Delivered(interrupt(begun, IF double THEN "DF" ELSE vector, FALSE, vector # "UD" \/ double))

\* INT, which in virtual 8086 mode needs IOPL 3.
INT_Ib(k) == IF k.fl.vm /\ k.fl.iopl < 3 THEN Raise(k, "GP") ELSE interrupt(k, "INT", TRUE, FALSE)

-----------------------------------------------------------------------------
(* Returns.  The words are those of a frame. *)

\* Many of the faults of RETF are only panics: then nothing happens.
ReturnToSameLevel(k, w, pops) ==
  LET cs == w.cs
      d == D(cs[1])
      tested == Tested(k, <<<<d.kind # "code", "GP">>, <<d.conf /\ d.dpl > CPL(k), "GP">>, <<~d.p, "NP">>>>)
  IN  CASE cs[1] = "null" \/ (d.kind = "code" /\ ~d.conf /\ d.dpl # CPL(k)) -> k
        [] ~can_pop(k, 2 + pops) \/ w.ip = Beyond -> tested
        [] OTHER -> Then(tested, LAMBDA t : [load_cs(t, cs[1], CPL(k)) EXCEPT !.ip = w.ip, !.esp = @ + 2 + pops])

ReturnToOuterLevel(k, w, pops) ==
  LET cs == w.cs
      d == D(cs[1])
      ss == D(w.ss[1])
      code == d.kind = "code" /\ d.p /\ IF d.conf THEN d.dpl <= cs[2] ELSE d.dpl = cs[2]
      stack == ss.kind = "data" /\ ss.w /\ ss.dpl = cs[2] /\ ss.p
  IN  CASE ~can_pop(k, 4 + pops) \/ ~code \/ w.ss[1] = "null" -> k
        [] w.ss[2] # cs[2] -> Raise(k, "GP")
        [] ~stack \/ w.ip = Beyond -> k
        [] OTHER -> validate_seg_regs([load_ss(load_cs(k, cs[1], cs[2]), w.ss, cs[2]) EXCEPT !.ip = w.ip, !.esp = w.esp + pops])

return_protected(k, w, pops) ==
  CASE ~can_pop(k, 2) -> k
    [] w.cs[2] < CPL(k) -> Raise(k, "GP")
    [] w.cs[2] = CPL(k) -> ReturnToSameLevel(k, w, pops)
    [] OTHER -> ReturnToOuterLevel(k, w, pops)

\* The level is not looked at but for a panic.
stack_return_to_v86(k, w) ==
  IF ~can_pop(k, 9) THEN Raise(k, "SS")
  ELSE init_v8086_mode([write_eflags(k, w.fl, TRUE, TRUE, TRUE) EXCEPT !.ip = w.ip % 3, !.esp = w.esp])

\* IRET in virtual 8086 mode stays there.
stack_return_from_v86(k, w) ==
  CASE k.fl.iopl # 3 -> Raise(k, "GP")
    [] ~can_pop(k, 3) -> Raise(k, "SS")
    [] OTHER -> write_eflags([k EXCEPT !.ip = w.ip % 3, !.esp = @ + 3], w.fl, FALSE, TRUE, FALSE)

\* The tests of the return to a level, of code and of stack.
ReturnableCode(k, cs) ==
  LET d == D(cs[1])
  IN  Tested(k, <<<<d.kind # "code", "GP">>, <<cs[2] < CPL(k), "GP">>, <<d.conf /\ d.dpl > cs[2], "GP">>,
                  <<~d.conf /\ d.dpl # cs[2], "GP">>, <<~d.p, "NP">>>>)

ReturnableStack(k, w) ==
  LET ss == D(w.ss[1])
  IN  Tested(k, <<<<~can_pop(k, 5), "SS">>, <<w.ss[1] = "null" \/ w.ss[2] # w.cs[2], "GP">>,
                  <<ss.kind # "data" \/ ~ss.w \/ ss.dpl # w.cs[2], "GP">>, <<~ss.p, "NP">>>>)

Returnable(k, w) ==
  Tested(IF w.cs[2] = CPL(k) THEN ReturnableCode(k, w.cs) ELSE ReturnableStack(ReturnableCode(k, w.cs), w),
         <<<<w.ip = Beyond, "GP">>>>)

Resumed(k, w, level) ==
  IF w.cs[2] = level THEN [k EXCEPT !.ip = w.ip, !.esp = @ + 3]
  ELSE validate_seg_regs([load_ss(k, w.ss, w.cs[2]) EXCEPT !.ip = w.ip, !.esp = w.esp])

\* IOPL and IF change as the level allows to which the IRET returns, a variant.
FlagsByNewLevel(k, w) ==
  LET Loaded(t) == load_cs(t, w.cs[1], w.cs[2])
  IN  Then(Returnable(k, w), LAMBDA t : Resumed(write_eflags(Loaded(t), w.fl, CPL(k) = 0, CPL(Loaded(t)) <= k.fl.iopl, FALSE),
                                                w, CPL(k)))

\* IOPL and IF change as the level allows from which the IRET returns.
ReturnByIret(k, w) ==
  LET Loaded(t) == load_cs(t, w.cs[1], w.cs[2])
  IN  Then(Returnable(k, w), LAMBDA t : Resumed(write_eflags(Loaded(t), w.fl, CPL(k) = 0, CPL(k) <= k.fl.iopl, FALSE),
                                                w, CPL(k)))

ReturnByStack(k, w) ==
  CASE ~can_pop(k, 3) -> Raise(k, "SS")
    [] w.fl.vm -> stack_return_to_v86(k, w)
    [] OTHER -> ReturnByIret(k, w)

iret_protected(k, w) ==
  LET t == k.link[k.tr]
      nested == Tested(k, <<<<t \notin k.busy, "TS">>>>)
  IN  CASE k.fl.vm -> stack_return_from_v86(k, w)
        [] k.fl.nt -> Then(nested, LAMBDA k1 : Switch(k1, t, "iret", "GP"))
        [] OTHER -> ReturnByStack(k, w)

-----------------------------------------------------------------------------
(* The loop of the CPU. *)

\* An instruction begins: EIP is that of the next one.
Begun(k) == [k EXCEPT !.began = Seen(k), !.over = TRUE, !.ip = Following(@), !.prev = [ip |-> k.ip, esp |-> k.esp],
                      !.switched = FALSE]

\* A fault in the middle: after a task switch is committed; and when a push to a
\* new stack fails, whose instruction has loaded CS and SS, or for which the
\* data segments of virtual 8086 mode are gone (exception.cc:628-655).
Torn(k) ==
  ~Ok(k) /\ (k.switched \/ (k.errorno = 0 /\ k.cs.sel # k.began.cs) \/ (k.fl.vm /\ k.ds.sel = Null))

\* What lies on a stack that is not used any more does not matter, and neither
\* does what serves a single instruction.
StackOf(t) == CASE t = "T1" -> "S1" [] t = "T2" -> "S2" [] t = "T3" -> "S3"
Tidied(k) == [k EXCEPT !.stack[StackOf(k.tr)] = IF CPL(k) = 0 THEN @ ELSE <<>>,
                       !.over = FALSE, !.began = <<>>, !.prev = [ip |-> 0, esp |-> 0], !.saved = <<>>, !.first = "none"]

\* A fault is handled, that of its delivery, and that of the double fault's.
Handled(k) == FoldLeft(LAMBDA k1, n : [exception(k1) EXCEPT !.torn = @ \/ Torn(k1)], k, <<1, 2, 3>>)

Step(what, k) ==
  /\ steps < MaxSteps /\ steps' = steps + 1
  /\ last' = [cpl |-> CPL(s), fl |-> s.fl, what |-> what]
  /\ s' = Tidied(Handled(k))
  /\ UNCHANGED c

\* The kernel is on its own stack.
Level0(k) == CPL(k) = 0 /\ k.ss.sel[1] \in Stacks
Frames(k) == k.stack[k.ss.sel[1]]
OnItsStack(k) ==
  Level0(k) => k.esp = Top(k.ss.sel[1]) - FoldLeft(LAMBDA sum, f : sum + Size(f), 0, Frames(k))

\* No instruction can be fetched from an absent segment; what a kernel does with
\* a stack pointer that is not its own is not followed further.
Runs == s.fault = "" /\ D(s.cs.sel[1]).p /\ OnItsStack(s)

Targets == {<<"K", 0>>, <<"U", 3>>, <<"C", 3>>, <<"A", 0>>, Null, <<"GK", 3>>, <<"GM", 3>>,
            <<"G0", 0>>, <<"GC", 3>>, <<"GA", 3>>, <<"TG", 3>>, <<"T2", 3>>, <<"T3", 0>>, <<"TA", 3>>}

Jump ==
  /\ Runs /\ ~s.fl.vm
  /\ \E sel \in Targets : Step("other", jump_protected(Begun(s), sel))

Call ==
  /\ Runs /\ ~s.fl.vm
  /\ \E sel \in Targets : Step("call", call_protected(Begun(s), sel))

SoftInterrupt == Runs /\ Step("other", INT_Ib(Begun(s)))

\* A return by the frame on top of the stack; the handler has dropped the error code.
Dropped(k) == [k EXCEPT !.esp = IF Frames(k)[Len(Frames(k))].err THEN @ + 1 ELSE @,
                        !.stack[k.ss.sel[1]][Len(Frames(k))].err = FALSE]

\* DS is part of a frame only in virtual 8086 mode.
Compared(context) == IF context.fl.vm THEN context ELSE [context EXCEPT !.ds = Null]

Returned(k, f, pops) ==
  IF ~Ok(k) \/ k.switched THEN k
  ELSE [k EXCEPT !.stack[StackOf(k.tr)] = SubSeq(@, 1, Len(@) - 1),
                 !.kept = @ /\ Compared(Seen(k)) = Compared([f.was EXCEPT !.esp = @ + pops,
                                                              !.fl = IF f.kind \in {"call", "gate"} THEN k.fl ELSE @])]

Ret ==
  /\ Runs /\ Level0(s) /\ Frames(s) # <<>>
  /\ LET f == Frames(s)[Len(Frames(s))]
     IN  /\ f.kind \in {"call", "gate"}
         /\ Step("other", Returned(return_protected(Begun(s), f, f.n), f, f.n))

Iret ==
  /\ Runs /\ Level0(s) /\ Frames(s) # <<>>
  /\ LET f == Frames(s)[Len(Frames(s))]
     IN  /\ f.kind \in {"int", "inner", "v86", "error"}
         /\ f.kind = "error" => s.fl.nt
         /\ Step("iret", Returned(iret_protected(Begun(Dropped(s)), f), f, 0))

\* A return by words of the program's own: a user's stack holds what the user
\* likes, and a kernel may begin a program this way.
User == [if |-> TRUE, iopl |-> 0, nt |-> FALSE, vm |-> FALSE]
ToUser == [cs |-> <<"U", 3>>, ss |-> <<"UD", 3>>, ip |-> 1, esp |-> 3, fl |-> User]

Words ==
  {ToUser, [ToUser EXCEPT !.cs = <<"C", 3>>], [ToUser EXCEPT !.cs = <<"UD", 3>>],
   [ToUser EXCEPT !.cs = <<"K", 0>>], [ToUser EXCEPT !.cs = <<"A", 0>>],
   [ToUser EXCEPT !.cs = <<"M", 1>>, !.ss = <<"MD", 1>>],
   [ToUser EXCEPT !.ss = Null], [ToUser EXCEPT !.ss = <<"S1", 3>>],
   [ToUser EXCEPT !.ip = Beyond], [ToUser EXCEPT !.fl.iopl = 3, !.fl.if = FALSE], [ToUser EXCEPT !.fl.nt = TRUE],
   [ToUser EXCEPT !.fl.vm = TRUE], [ToUser EXCEPT !.fl.vm = TRUE, !.fl.iopl = 3]}

OwnWords ==
  /\ Runs
  /\ \E w \in {v \in Words : CPL(s) = 0 => v.cs # <<"K", 0>>} :
       \/ ~s.fl.vm /\ Step("other", return_protected(Begun(s), w, 0))
       \/ (s.fl.vm => w.ip # Beyond) /\ Step("iret", iret_protected(Begun(s), w))

\* Data segments, the stack of an outer level, and flags.
LoadSegment ==
  /\ Runs /\ ~s.fl.vm
  /\ \/ \E sel \in {<<"UD", 3>>, <<"MD", 1>>, <<"C", 3>>, <<"S2", 0>>, <<"GK", 3>>, Null} :
          Step("other", load_seg_reg_ds(Begun(s), sel))
     \/ /\ CPL(s) > 0
        /\ \E sel \in {<<"UD", 3>>, <<"MD", 1>>, <<"S2", 0>>, <<"S2", 3>>} : Step("other", load_seg_reg_ss(Begun(s), sel))

POPF(k, fl) ==
  CASE k.fl.vm /\ k.fl.iopl < 3 -> Raise(k, "GP")
    [] k.fl.vm -> write_eflags(k, fl, FALSE, TRUE, FALSE)
    [] OTHER -> write_eflags(k, fl, CPL(k) = 0, CPL(k) <= k.fl.iopl, FALSE)

CLI(k) == IF CPL(k) > k.fl.iopl THEN Raise(k, "GP") ELSE [k EXCEPT !.fl.if = FALSE]

WriteFlags ==
  /\ Runs
  /\ \/ \E fl \in {User, [User EXCEPT !.nt = TRUE], [User EXCEPT !.iopl = 3, !.if = FALSE]} : Step("other", POPF(Begun(s), fl))
     \/ Step("other", CLI(Begun(s)))

Undefined == Runs /\ Step("other", Raise(Begun(s), "UD"))

\* Between two instructions.
External ==
  /\ Runs /\ s.fl.if
  /\ Step("other", interrupt([Begun(s) EXCEPT !.ip = s.ip, !.over = FALSE], "IRQ", FALSE, FALSE))

Next == Jump \/ Call \/ SoftInterrupt \/ Ret \/ Iret \/ OwnWords \/ LoadSegment \/ WriteFlags \/ Undefined \/ External

-----------------------------------------------------------------------------
(* What the kernel may have set up. *)

Entry(kind, dpl, to) == [kind |-> kind, dpl |-> dpl, p |-> TRUE, to |-> to]
Usual == [fault |-> Entry("trap", 0, "K"), DF |-> Entry("task", 0, "T3"), INT |-> Entry("trap", 3, "K"),
          IRQ |-> Entry("interrupt", 0, "K")]

InterruptOnDouble == [Usual EXCEPT !.DF = Entry("interrupt", 0, "K")]

Idts ==
  {Usual, [Usual EXCEPT !.INT = Entry("trap", 3, "M")],
   [Usual EXCEPT !.fault = Entry("interrupt", 0, "C")], [Usual EXCEPT !.fault = Entry("task", 0, "T2")],
   [Usual EXCEPT !.IRQ = Entry("task", 0, "T2")], [Usual EXCEPT !.INT = Entry("trap", 0, "K"), !.fault.to = "A"],
   [Usual EXCEPT !.INT.p = FALSE, !.fault.to = "UD"]}

UserTask == [cs |-> <<"U", 3>>, ss |-> <<"UD", 3>>, ds |-> <<"UD", 3>>, ip |-> 1, esp |-> 4, fl |-> User]
KernelTask(stack) ==
  [cs |-> <<"K", 0>>, ss |-> <<stack, 0>>, ds |-> <<"UD", 3>>, ip |-> 1, esp |-> 10, fl |-> [User EXCEPT !.if = FALSE]]
V86Task == [cs |-> Real, ss |-> Real, ds |-> Real, ip |-> 1, esp |-> 4, fl |-> [User EXCEPT !.vm = TRUE, !.iopl = 3]]

SecondTasks ==
  {UserTask, V86Task, KernelTask("S2"), [UserTask EXCEPT !.ss = <<"S2", 0>>], [UserTask EXCEPT !.ds = <<"GK", 3>>],
   [KernelTask("S2") EXCEPT !.cs = <<"A", 0>>], [UserTask EXCEPT !.ip = Beyond]}

Level1Task == [UserTask EXCEPT !.cs = <<"M", 1>>, !.ss = <<"MD", 1>>]
V86TaskWithoutIopl == [V86Task EXCEPT !.fl.iopl = 0]

\* A second task of each kind; gates of each kind; a stack of level 0 that is no
\* stack, or is absent, or has pages missing.
Setup(idt, ss0, guard, second, first) == [idt |-> idt, ss0 |-> ss0, guard |-> guard, second |-> second, first |-> first]
Own == <<"S1", 0>>

Setups ==
  {Setup(Usual, Own, FALSE, second, UserTask) : second \in SecondTasks}
  \union {Setup(idt, Own, FALSE, UserTask, UserTask) : idt \in Idts}
  \union {Setup(Usual, Own, FALSE, UserTask, first) : first \in {KernelTask("S1"), V86Task, V86TaskWithoutIopl, Level1Task}}
  \union {Setup(idt, Own, TRUE, UserTask, first) : idt \in {Usual, InterruptOnDouble}, first \in {UserTask, V86Task}}
  \union {Setup(Usual, ss0, FALSE, UserTask, UserTask) : ss0 \in {<<"RO", 0>>, <<"SA", 0>>}}

Init ==
  /\ steps = 0 /\ c \in Setups
  /\ LET first == [c.first EXCEPT !.esp = IF @ = 4 THEN 3 ELSE @]
         images == [t \in Tasks |-> CASE t = "T1" -> first [] t = "T2" -> c.second [] t = "T3" -> KernelTask("S3")]
     IN  /\ s = [cs |-> [sel |-> first.cs, valid |-> TRUE], ss |-> [sel |-> first.ss, valid |-> TRUE],
                 ds |-> [sel |-> first.ds, valid |-> TRUE, dpl |-> 3], ip |-> 1, esp |-> first.esp, fl |-> first.fl,
                 tr |-> "T1", busy |-> {"T1"}, link |-> [t \in Tasks |-> "null"], image |-> images,
                 stack |-> [name \in Stacks |-> <<>>], prev |-> [ip |-> 0, esp |-> 0],
                 saved |-> <<>>, errorno |-> 0, first |-> "none", fault |-> "",
                 began |-> <<>>, over |-> FALSE, switched |-> FALSE, waiting |-> {}, left |-> images,
                 kept |-> TRUE, torn |-> FALSE]
         /\ last = [cpl |-> first.cs[2], fl |-> first.fl, what |-> "other"]

Spec == Init /\ [][Next]_vars

-----------------------------------------------------------------------------
(* Properties. *)

Down == s.fault = "down"

\* Between instructions code, stack and data agree with the level.  Only a call
\* gate leads to code that is absent (ctrl_xfer_pro.cc:756-770).
Protected ==
  LET cs == D(s.cs.sel[1])
      ss == D(s.ss.sel[1])
      ds == D(s.ds.sel[1])
  IN  Down \/
      IF s.fl.vm THEN s.cs.sel = Real /\ s.ss.sel = Real /\ s.ds.sel = Real
      ELSE /\ s.cs.valid /\ cs.kind = "code" /\ IF cs.conf THEN cs.dpl <= CPL(s) ELSE cs.dpl = CPL(s)
           /\ cs.p \/ last.what = "call"
           /\ s.ss.valid /\ ss.kind = "data" /\ ss.w /\ ss.p /\ ss.dpl = CPL(s) /\ s.ss.sel[2] = CPL(s)
           /\ (s.ds.valid => ds.kind \in {"code", "data"} /\ (ds.conf \/ ds.dpl >= CPL(s)))

\* Within a task, more privilege is had only where a gate leads, on the stack
\* that the TSS names, and with nothing on it but what the gate pushes.
GatedEntry ==
  ~Down /\ ~s.switched /\ CPL(s) < last.cpl =>
    /\ s.ip = 0 /\ ~s.fl.vm /\ s.ss.sel = get_SS_ESP_from_TSS(s, CPL(s)).ss
    /\ CPL(s) = 0 => Len(Frames(s)) = 1 /\ OnItsStack(s)

\* Outside level 0 IOPL and VM stay, and IF changes only if IOPL allows it or a
\* gate is entered.  But an IRET finds VM set and goes to virtual 8086 mode
\* from any level (ctrl_xfer_pro.cc:1785-1788).
FlagsAreGuarded ==
  ~Down /\ ~s.switched /\ last.cpl > 0 /\ CPL(s) > 0 =>
    \/ /\ s.fl.iopl = last.fl.iopl /\ s.fl.vm = last.fl.vm
       /\ (s.fl.if # last.fl.if => last.cpl <= last.fl.iopl \/ (s.ip = 0 /\ ~s.fl.if))
    \/ last.what = "iret" /\ ~last.fl.vm /\ s.fl.vm

\* A return by the frame of a call, an interrupt or an exception, and a switch
\* to a task, give back what was left, unless a fault came in the middle.
ContextsAreKept ==
  ~Down /\ ~s.torn =>
    /\ s.kept
    /\ \A t \in Tasks \ {s.tr} : s.image[t] = s.left[t]

\* The busy tasks are the one that runs and those that wait for its return.
BusyTasksReturn == ~Down => s.busy = {s.tr} \union s.waiting /\ s.tr \notin s.waiting
=============================================================================
