------------------------------ MODULE Restart -------------------------------
(***************************************************************************)
(* One instruction of the guest that meets missing or read-only pages      *)
(* (cpu/string.cc, io.cc, stack32.cc, arith32.cc, ...).  Every access may  *)
(* fault; the guest's handler then supplies the page, perhaps at the cost  *)
(* of another one, and returns to the instruction, which begins again.     *)
(* exception() goes back to the instruction's EIP and ESP, and undoes      *)
(* nothing else.  Registers have two digits, memory is cells of one digit: *)
(* a "word" is one cell, a "dword" two.  Addresses wrap at the end of the  *)
(* memory; segments have no limits and ports no restrictions; the guest    *)
(* runs at user level, and write protection holds for the supervisor too.  *)
(***************************************************************************)
EXTENDS Integers, FiniteSets, SequencesExt

CONSTANTS MaxEvictions   \* bound: pages that the guest takes away meanwhile

ConstantsOK == MaxEvictions \in Nat

VARIABLES
  i,               \* the instruction
  s,               \* the CPU, its memory and its ports
  began,           \* history: s at the start of the instruction or iteration
  due,             \* history: s after the instruction if no page is missing
  evictions

vars == <<i, s, began, due, evictions>>

Digit == 16
PageSize == 4
Cells == 0 .. Digit - 1
Memory == 0 .. 3
Gdt == 4             \* the page of the descriptor
Tss == 5             \* the page of the task's map of ports
Pages == Memory \union {Gdt, Tss}
NoFault == -1
NotPresent == -2     \* a fault of the segment
Here == 0            \* EIP: at the instruction
After == 200         \* EIP: at the next one
Target == 100        \* EIP: at the destination of a jump

Value == 0 .. Digit * Digit - 1

TypeOK ==
  /\ s.mem \in [Cells -> 0 .. Digit - 1]
  /\ \A r \in {"ax", "bx", "cx", "dx", "sp", "bp", "si", "di"} : s.reg[r] \in Value
  /\ s.zf \in BOOLEAN /\ s.es \in Value /\ s.ip \in Value
  /\ s.page \in [Pages -> {"absent", "readonly", "writable"}]
  /\ s.desc \in {"absent", "present", "accessed"}
  /\ s.fault \in Pages \union {NoFault, NotPresent}
  /\ evictions \in 0 .. MaxEvictions

-----------------------------------------------------------------------------
(* Accesses.  After a fault nothing more happens. *)

Ok(k) == k.fault = NoFault
Then(k, next) == IF Ok(k) THEN next ELSE k

PageOf(a) == (a % Digit) \div PageSize
Allows(state, write) == IF write THEN state = "writable" ELSE state # "absent"

\* A page is translated or the access faults.
dtranslate_linear(k, p, write) == Then(k, IF Allows(k.page[p], write) THEN k ELSE [k EXCEPT !.fault = p])

\* Both pages of an access are translated before either is touched.
access_linear(k, a, w, write) ==
  LET first == dtranslate_linear(k, PageOf(a), write)
  IN  IF w = 1 THEN first ELSE dtranslate_linear(first, PageOf(a + 1), write)

Load(mem, a, w) == IF w = 1 THEN mem[a % Digit] ELSE mem[a % Digit] + Digit * mem[(a + 1) % Digit]
Store(mem, a, w, v) ==
  [c \in Cells |-> IF c = a % Digit THEN v % Digit
                   ELSE IF w = 2 /\ c = (a + 1) % Digit THEN (v \div Digit) % Digit ELSE mem[c]]

\* The value read is left in "tmp".
read_virtual(k, a, w) ==
  LET t == access_linear(k, a, w, FALSE) IN Then(t, [t EXCEPT !.tmp = Load(t.mem, a, w)])

write_virtual(k, a, w, v) ==
  LET t == access_linear(k, a, w, TRUE) IN Then(t, [t EXCEPT !.mem = Store(@, a, w, v)])

\* Read for writing back, which then cannot fault.
read_RMW_virtual(k, a, w) ==
  LET t == access_linear(k, a, w, TRUE) IN Then(t, [t EXCEPT !.tmp = Load(t.mem, a, w)])

write_RMW_virtual(k, a, w, v) == Then(k, [k EXCEPT !.mem = Store(@, a, w, v)])

\* A variant of Put that does not cut the value for the low half.
PutWhole(old, w, v) == IF w = 2 THEN v ELSE Digit * (old \div Digit) + v

\* A register or its low half.
Put(old, w, v) == IF w = 2 THEN v ELSE Digit * (old \div Digit) + (v % Digit)
Set(k, r, w, v) == Then(k, [k EXCEPT !.reg[r] = Put(@, w, v)])
Move(k, r, n) == Then(k, [k EXCEPT !.reg[r] = (@ + n) % (Digit * Digit)])
Flag(k, zero) == Then(k, [k EXCEPT !.zf = zero])
Jump(k, to) == Then(k, [k EXCEPT !.ip = to])

-----------------------------------------------------------------------------
(* The stack. *)

push(k, w, v) == Move(write_virtual(k, k.reg.sp + Digit - w, w, v), "sp", Digit * Digit - w)

pop(k, w) == Move(read_virtual(k, k.reg.sp, w), "sp", w)

PUSH(k, w) == push(k, w, k.reg.ax)
PUSH_E(k, w, a) == LET t == read_virtual(k, a, w) IN push(t, w, t.tmp)
POP(k, w) == LET t == pop(k, w) IN Set(t, "ax", w, t.tmp)
\* The operand is addressed by the stack pointer after the pop.
POP_E(k, w) == LET t == pop(k, w) IN write_virtual(t, t.reg.sp + 1, w, t.tmp)

PushEach(k, w, values) == FoldLeft(LAMBDA t, v : push(t, w, v), k, values)

PUSHA(k, w) ==
  PushEach(k, w, <<k.reg.ax, k.reg.cx, k.reg.dx, k.reg.bx, k.reg.sp, k.reg.bp, k.reg.si, k.reg.di>>)

\* The registers are set when all are read; the stack pointer's is discarded.
PopEach(k, w, names) ==
  LET popped[n \in 0 .. Len(names)] == IF n = 0 THEN k ELSE pop(popped[n - 1], w)
      Restored(t, n) == IF names[n] = "none" THEN t ELSE Set(t, names[n], w, popped[n].tmp)
  IN  FoldLeft(Restored, popped[Len(names)], [n \in 1 .. Len(names) |-> n])

POPA(k, w) == PopEach(k, w, <<"di", "si", "bp", "none", "bx", "dx", "cx", "ax">>)

\* The frame pointers of the outer levels are copied one by one, with EBP as
\* the pointer to them.
CopyFrame(k, w) ==
  LET t == Move(k, "bp", Digit * Digit - w)
      r == read_virtual(t, t.reg.bp, w)
      d == Move(r, "sp", Digit * Digit - w)
  IN  write_virtual(d, d.reg.sp, w, d.tmp)

CopyFrames(k, w, n) == FoldLeft(LAMBDA t, level : CopyFrame(t, w), k, [level \in 1 .. n |-> level])

ENTER(k, w, level) ==
  LET saved == push(k, w, k.reg.bp)
      frame == saved.reg.sp
      copied == CopyFrames(saved, w, level - 1)
      down == Move(copied, "sp", Digit * Digit - w)
      nested == IF level = 0 THEN saved ELSE write_virtual(down, down.reg.sp, w, frame)
  IN  Move(Set(nested, "bp", w, frame), "sp", Digit * Digit - 1)

LEAVE(k, w) == LET t == pop([k EXCEPT !.reg.sp = k.reg.bp], w) IN Set(t, "bp", w, t.tmp)

POPF(k, w) == LET t == pop(k, w) IN Flag(t, t.tmp % 2 = 1)
PUSHF(k, w) == push(k, w, IF k.zf THEN 1 ELSE 0)

CALL(k, w) == Jump(push(k, w, After), Target)
CALL_E(k, w, a) == LET t == read_virtual(k, a, w) IN Jump(push(t, w, After), t.tmp + 1)
RETnear(k, w) == LET t == read_virtual(k, k.reg.sp, w) IN Move(Jump(t, t.tmp + 1), "sp", w + 1)

-----------------------------------------------------------------------------
(* Read, modify, write. *)

MOV_store(k, w, a) == write_virtual(k, a, w, k.reg.ax)
MOV_load(k, w, a) == LET t == read_virtual(k, a, w) IN Set(t, "ax", w, t.tmp)
XLAT(k, a) == LET t == read_virtual(k, a, 1) IN Set(t, "ax", 1, t.tmp)

INC_E(k, w, a) ==
  LET t == read_RMW_virtual(k, a, w) IN Flag(write_RMW_virtual(t, a, w, t.tmp + 1), FALSE)

XCHG(k, w, a) ==
  LET t == read_RMW_virtual(k, a, w) IN Set(write_RMW_virtual(t, a, w, k.reg.ax), "ax", w, t.tmp)

XADD(k, w, a) ==
  LET t == read_RMW_virtual(k, a, w)
  IN  Flag(Set(write_RMW_virtual(t, a, w, t.tmp + k.reg.bx), "bx", w, t.tmp), FALSE)

Low(v, w) == IF w = 2 THEN v ELSE v % Digit

CMPXCHG(k, w, a) ==
  LET t == read_RMW_virtual(k, a, w)
  IN  IF Low(k.reg.ax, w) = t.tmp THEN write_RMW_virtual(Flag(t, TRUE), a, w, k.reg.bx)
      ELSE Set(Flag(t, FALSE), "ax", w, t.tmp)

\* Only the high half is read for writing.
CMPXCHG8B(k, a) ==
  LET lo == read_virtual(k, a, 2)
      hi == read_RMW_virtual(lo, a + 2, 2)
      equal == lo.tmp = k.reg.ax /\ hi.tmp = k.reg.dx
  IN  IF ~Ok(hi) THEN hi
      ELSE IF equal THEN write_virtual(write_RMW_virtual(Flag(hi, TRUE), a + 2, 2, k.reg.cx), a, 2, k.reg.bx)
      ELSE [Flag(hi, FALSE) EXCEPT !.reg.ax = lo.tmp, !.reg.dx = hi.tmp]

-----------------------------------------------------------------------------
(* Segment registers and tables. *)

\* The descriptor is read, its presence checked, the register loaded, and the
\* descriptor marked: for SS always, for others if it is not.
LoadSegment(k, ss, v) ==
  LET t == dtranslate_linear(k, Gdt, FALSE)
      present == Then(t, IF t.desc = "absent" THEN [t EXCEPT !.fault = NotPresent] ELSE [t EXCEPT !.es = v])
  IN  IF ~Ok(present) \/ (~ss /\ present.desc = "accessed") THEN present
      ELSE LET marks == dtranslate_linear(present, Gdt, TRUE) IN Then(marks, [marks EXCEPT !.desc = "accessed"])

MOV_Sw(k, ss, a) == LET t == read_virtual(k, a, 1) IN LoadSegment(t, ss, t.tmp)
POP_Sw(k, w, ss) == LET t == pop(k, w) IN LoadSegment(t, ss, t.tmp % Digit)

LES(k, w, ss, a) ==
  LET off == read_virtual(k, a, w)
      sel == read_virtual(off, a + w, 1)
  IN  Set(LoadSegment(sel, ss, sel.tmp), "bx", w, off.tmp)

SGDT(k, a) == write_virtual(write_virtual(k, a, 1, 7), a + 1, 2, 8)
LGDT(k, a) ==
  LET limit == read_virtual(k, a, 1)
      base == read_virtual(limit, a + 1, 2)
  IN  Then(base, [base EXCEPT !.gdtr = <<limit.tmp, base.tmp>>])
BOUND(k, w, a) == read_virtual(read_virtual(k, a, w), a + w, w)

-----------------------------------------------------------------------------
(* Ports.  What is read is a new value each time. *)

\* The offset of the map and the permission are words of the TSS.
allow_io(k) == dtranslate_linear(k, Tss, FALSE)
BX_INP(k) == Then(k, [k EXCEPT !.tmp = k.inputs + 1, !.inputs = @ + 1])
BX_OUTP(k, v) == Then(k, [k EXCEPT !.outputs = Append(@, v)])

IN_AL(k, w) == LET t == BX_INP(allow_io(k)) IN Set(t, "ax", w, t.tmp)
OUT_AL(k, w) == BX_OUTP(allow_io(k), Low(k.reg.ax, w))

-----------------------------------------------------------------------------
(* Strings: pointers move when every access is made. *)

Step(k, r, w) == Move(k, r, IF i.df THEN Digit * Digit - w ELSE w)

\* A variant of MOVS in which a pointer moves as soon as its cell is read.
MovedAsRead(k, w) ==
  LET t == read_virtual(k, k.reg.si, w)
  IN  Step(write_virtual(Step(t, "si", w), k.reg.di, w, t.tmp), "di", w)

MOVS(k, w) ==
  LET t == read_virtual(k, k.reg.si, w)
  IN  Step(Step(write_virtual(t, k.reg.di, w, t.tmp), "si", w), "di", w)

CMPS(k, w) ==
  LET one == read_virtual(k, k.reg.si, w)
      two == read_virtual(one, k.reg.di, w)
  IN  Step(Step(Flag(two, one.tmp = two.tmp), "si", w), "di", w)

SCAS(k, w) ==
  LET t == read_virtual(k, k.reg.di, w) IN Step(Flag(t, t.tmp = Low(k.reg.ax, w)), "di", w)

STOS(k, w) == Step(write_virtual(k, k.reg.di, w, k.reg.ax), "di", w)
LODS(k, w) == LET t == read_virtual(k, k.reg.si, w) IN Step(Set(t, "ax", w, t.tmp), "si", w)

\* A variant of INS that reads the port before it looks for room.
ReadPortFirst(k, w) ==
  LET t == BX_INP(allow_io(k)) IN Step(write_virtual(t, k.reg.di, w, t.tmp), "di", w)

\* Zero is written first: a port is read only if there is room for its value.
INS(k, w) ==
  LET room == write_virtual(allow_io(k), k.reg.di, w, 0)
      t == BX_INP(room)
  IN  Step(write_virtual(t, k.reg.di, w, t.tmp), "di", w)

OUTS(k, w) == LET t == read_virtual(allow_io(k), k.reg.si, w) IN Step(BX_OUTP(t, t.tmp), "si", w)

-----------------------------------------------------------------------------
(* The loop of the CPU. *)

Strings == {"MOVS", "CMPS", "SCAS", "STOS", "LODS", "INS", "OUTS"}
Comparing == {"CMPS", "SCAS"}

execute(k) ==
  CASE i.op = "MOVS" -> MOVS(k, i.w) [] i.op = "CMPS" -> CMPS(k, i.w) [] i.op = "SCAS" -> SCAS(k, i.w)
    [] i.op = "STOS" -> STOS(k, i.w) [] i.op = "LODS" -> LODS(k, i.w)
    [] i.op = "INS" -> INS(k, i.w) [] i.op = "OUTS" -> OUTS(k, i.w)
    [] i.op = "IN" -> IN_AL(k, i.w) [] i.op = "OUT" -> OUT_AL(k, i.w)
    [] i.op = "PUSH" -> PUSH(k, i.w) [] i.op = "PUSH_E" -> PUSH_E(k, i.w, i.at)
    [] i.op = "POP" -> POP(k, i.w) [] i.op = "POP_E" -> POP_E(k, i.w)
    [] i.op = "PUSHA" -> PUSHA(k, i.w) [] i.op = "POPA" -> POPA(k, i.w)
    [] i.op = "PUSHF" -> PUSHF(k, i.w) [] i.op = "POPF" -> POPF(k, i.w)
    [] i.op = "ENTER" -> ENTER(k, i.w, i.level) [] i.op = "LEAVE" -> LEAVE(k, i.w)
    [] i.op = "CALL" -> CALL(k, i.w) [] i.op = "CALL_E" -> CALL_E(k, i.w, i.at) [] i.op = "RET" -> RETnear(k, i.w)
    [] i.op = "MOV_store" -> MOV_store(k, i.w, i.at) [] i.op = "MOV_load" -> MOV_load(k, i.w, i.at)
    [] i.op = "XLAT" -> XLAT(k, i.at) [] i.op = "INC" -> INC_E(k, i.w, i.at)
    [] i.op = "XCHG" -> XCHG(k, i.w, i.at) [] i.op = "XADD" -> XADD(k, i.w, i.at)
    [] i.op = "CMPXCHG" -> CMPXCHG(k, i.w, i.at) [] i.op = "CMPXCHG8B" -> CMPXCHG8B(k, i.at)
    [] i.op = "MOV_Sw" -> MOV_Sw(k, i.ss, i.at) [] i.op = "POP_Sw" -> POP_Sw(k, i.w, i.ss)
    [] i.op = "LES" -> LES(k, i.w, i.ss, i.at) [] i.op = "SGDT" -> SGDT(k, i.at)
    [] i.op = "LGDT" -> LGDT(k, i.at) [] i.op = "BOUND" -> BOUND(k, i.w, i.at)

Ends(k) ==
  \/ i.rep = "no" \/ k.reg.cx = 0
  \/ i.op \in Comparing /\ k.zf = (i.rep = "repne")

\* One instruction, or one iteration of a repeated one: EIP, the counter, and
\* the end of the repetition.
Begun(k) == IF i.rep = "no" THEN [k EXCEPT !.ip = After] ELSE k
Counted(k) == IF i.rep = "no" \/ k.reg.cx = 0 THEN k ELSE Move(k, "cx", Digit * Digit - 1)
Ended(k) == Then(k, [k EXCEPT !.tmp = 0, !.ip = IF i.rep # "no" /\ Ends(k) THEN After ELSE @])
Iteration(k) == Ended(Counted(IF i.rep # "no" /\ k.reg.cx = 0 THEN k ELSE execute(Begun(k))))

\* After a fault EIP and ESP are those of the instruction; all else stays.
exception(k, start) == IF Ok(k) THEN k ELSE [k EXCEPT !.ip = Here, !.reg.sp = start.reg.sp, !.tmp = 0]

\* The whole instruction, while no page is missing.
Whole(k) ==
  LET after(r) == IF r.ip # Here THEN r ELSE Iteration(r)
      run[n \in 0 .. k.reg.cx + 1] ==
        IF n = 0 THEN [k EXCEPT !.page = [p \in Pages |-> "writable"], !.desc = IF @ = "absent" THEN "present" ELSE @]
        ELSE after(run[n - 1])
  IN  run[IF i.rep = "no" THEN 1 ELSE k.reg.cx + 1]

Execute ==
  /\ s.ip = Here /\ Ok(s)
  /\ s' = exception(Iteration(s), s)
  /\ began' = s /\ UNCHANGED <<i, due, evictions>>

\* The guest takes a page away and writes it elsewhere.
Evicted(k, p) == [k EXCEPT !.page[p] = "absent"]

\* The handler gives the page, or the segment, and takes another page.
Handle ==
  /\ ~Ok(s)
  /\ LET given == IF s.fault = NotPresent THEN [s EXCEPT !.desc = "present", !.fault = NoFault]
                  ELSE [s EXCEPT !.page[s.fault] = "writable", !.fault = NoFault]
     IN  \/ s' = given /\ UNCHANGED evictions
         \/ /\ evictions < MaxEvictions /\ evictions' = evictions + 1
            /\ \E p \in Pages \ {s.fault} : s' = Evicted(given, p)
  /\ UNCHANGED <<i, began, due>>

\* An interrupt comes between two iterations, and its handler takes a page.
Interrupt ==
  /\ s.ip = Here /\ Ok(s) /\ i.rep # "no"
  /\ evictions < MaxEvictions /\ evictions' = evictions + 1
  /\ \E p \in Pages : s' = Evicted(s, p)
  /\ UNCHANGED <<i, began, due>>

Next == Execute \/ Handle \/ Interrupt

-----------------------------------------------------------------------------
(* What can be executed: the instruction, its registers, and one page that is *)
(* not writable.                                                              *)

Plain == [op |-> "IN", w |-> 1, rep |-> "no", df |-> FALSE, at |-> 3, level |-> 0, ss |-> FALSE]

Instructions ==
     {[Plain EXCEPT !.op = op, !.w = w, !.rep = rep, !.df = df] :
        op \in Strings \ Comparing, w \in 1 .. 2, rep \in {"no", "repe"}, df \in BOOLEAN}
  \union {[Plain EXCEPT !.op = op, !.w = w, !.rep = rep, !.df = df] :
        op \in Comparing, w \in 1 .. 2, rep \in {"no", "repe", "repne"}, df \in BOOLEAN}
  \union {[Plain EXCEPT !.op = op, !.w = w] :
        op \in {"IN", "OUT", "PUSH", "PUSH_E", "POP", "POP_E", "PUSHA", "POPA", "PUSHF", "POPF", "LEAVE", "CALL",
               "CALL_E", "RET", "MOV_store", "MOV_load", "INC", "XCHG", "XADD", "CMPXCHG", "BOUND"}, w \in 1 .. 2}
  \union {[Plain EXCEPT !.op = "ENTER", !.w = w, !.level = n] : w \in 1 .. 2, n \in 0 .. 3}
  \union {[Plain EXCEPT !.op = op, !.at = a] : op \in {"CMPXCHG8B", "XLAT", "SGDT", "LGDT"}, a \in 2 .. 3}
  \union {[Plain EXCEPT !.op = op, !.w = w, !.ss = ss, !.at = a] :
        op \in {"MOV_Sw", "POP_Sw", "LES"}, w \in 1 .. 2, ss \in BOOLEAN, a \in 2 .. 3}

Registers ==
  IF i.op \in Strings
  THEN {[ax |-> 84, bx |-> 0, cx |-> c, dx |-> 0, sp |-> 8, bp |-> 0, si |-> p[1], di |-> p[2]] :
          c \in IF i.rep = "no" THEN {2} ELSE {0, 2}, p \in {<<2, 10>>, <<3, 11>>}}
  ELSE {[ax |-> a, bx |-> 33, cx |-> 57, dx |-> d, sp |-> sp, bp |-> 253, si |-> 75, di |-> 98] :
          a \in IF i.op \in {"CMPXCHG", "CMPXCHG8B"} THEN {50, 67} ELSE {50}, d \in IF i.op = "CMPXCHG8B" THEN {84, 101} ELSE {51},
          sp \in {22, 25}}

Uses(p) ==
  \/ p \in Memory
  \/ p = Gdt /\ i.op \in {"MOV_Sw", "POP_Sw", "LES"}
  \/ p = Tss /\ i.op \in {"IN", "OUT", "INS", "OUTS"}

Init ==
  /\ i \in Instructions
  /\ \E r \in Registers, p \in {q \in Pages : Uses(q)}, state \in {"absent", "readonly"}, modulus \in {4, 16},
       desc \in {"absent", "present", "accessed"} :
       /\ modulus = 16 \/ i.op \in Comparing
       /\ desc = "present" \/ Uses(Gdt)
       /\ s = [reg |-> r, zf |-> FALSE, ip |-> Here, es |-> 0, gdtr |-> <<0, 0>>, tmp |-> 0, fault |-> NoFault,
               mem |-> [c \in Cells |-> c % modulus], page |-> [q \in Pages |-> IF q = p THEN state ELSE "writable"],
               desc |-> desc, inputs |-> 0, outputs |-> <<>>]
  /\ began = s /\ due = Whole(s) /\ evictions = 0

Spec == Init /\ [][Next]_vars

-----------------------------------------------------------------------------
(* Properties. *)

\* What the guest sees of the CPU.
Seen(k) == [reg |-> k.reg, zf |-> k.zf, es |-> k.es, gdtr |-> k.gdtr, ip |-> k.ip]

\* A handler sees the registers as they were before the instruction, or the
\* iteration, that faulted.  But ENTER has moved EBP when it copies frames
\* (stack32.cc:394-403), CMPXCHG8B has set ZF when its low half is read-only
\* (arith32.cc:852-855), and a segment register is loaded when its descriptor
\* cannot be marked (segment_ctrl_pro.cc:164-181, 278-300).
FaultsArePrecise ==
  ~Ok(s) =>
    \/ Seen(s) = Seen(began)
    \/ i.op = "ENTER" /\ i.level > 1 /\ Seen(s) = [Seen(began) EXCEPT !.reg.bp = s.reg.bp]
    \/ i.op = "CMPXCHG8B" /\ s.zf /\ Seen(s) = [Seen(began) EXCEPT !.zf = TRUE]
    \/ i.op \in {"MOV_Sw", "POP_Sw", "LES"} /\ s.fault = Gdt /\ s.page[Gdt] = "readonly"
         /\ Seen(s) = [Seen(began) EXCEPT !.es = s.es]

\* Once it is through, an instruction has done what it does when no page is
\* missing: every port is accessed once, and nothing is counted twice.  But
\* ENTER may have copied other frames, and CMPXCHG8B may have stored the high
\* half and then, on its second attempt, have found the operand different.
Result(k) == [Seen(k) EXCEPT !.ip = <<k.ip, k.mem, k.desc, k.inputs, k.outputs>>]

FaultsAreTransparent ==
  s.ip # Here =>
    \/ Result(s) = Result(due)
    \/ i.op = "ENTER" /\ i.level > 1 /\ Seen(s) = Seen(due)
    \/ i.op = "CMPXCHG8B" /\ due.zf /\ ~s.zf /\ Load(s.mem, i.at + 2, 2) = due.reg.cx
=============================================================================
