-------------------------------- MODULE Fpu ---------------------------------
(***************************************************************************)
(* The floating-point unit (fpu/*.c, cpu/fpu.cc, fpu/wmFPUemu_glue.cc,     *)
(* iodev/extfpuirq.cc): its stack of registers, tags, masks and flags,     *)
(* what each instruction does to them for every kind of operand, and how   *)
(* an exception is reported.                                               *)
(*                                                                         *)
(* A number is only its kind, its sign and whether it is new: whether a    *)
(* result is exact, rounded, too large or too small is an outcome that is  *)
(* open for each instruction, and so are the results of compares.  Results *)
(* are taken to be positive.  C1 and the addresses of the last instruction *)
(* are left out.                                                           *)
(***************************************************************************)
EXTENDS Integers, FiniteSets, Sequences

CONSTANTS
  NRegs,           \* registers of the stack
  MaxSteps         \* bound: instructions of a program

ConstantsOK == NRegs \in Nat \ {0, 1, 2} /\ MaxSteps \in Nat

VARIABLES
  f,               \* the unit, and what has become of the instruction it executes
  last,            \* history: the last instruction, the unit before it, and
                   \* the unit that was saved
  steps

vars == <<f, last, steps>>

Exceptions == {"I", "D", "Z", "O", "U", "P"}
Flags == Exceptions \union {"SF"}
NaNs == {"quiet", "signalling", "unsupported"}
Kinds == {"zero", "valid", "denormal", "infinity"} \union NaNs
Numbers == {"valid", "denormal"}

New(kind) == [kind |-> kind, neg |-> FALSE, new |-> TRUE]
Given(kind, neg) == [kind |-> kind, neg |-> neg, new |-> FALSE]
CONST_QNaN == [New("quiet") EXCEPT !.neg = TRUE]
CONST_INF == New("infinity")
CONST_Z == New("zero")
One == New("valid")
Minus(x) == [x EXCEPT !.neg = ~@]

Value == [kind : Kinds, neg : BOOLEAN, new : BOOLEAN]
Tags == {"Valid", "Zero", "Special", "Empty"}
Slots == 0 .. NRegs - 1

TypeOK ==
  /\ f.mask \subseteq Exceptions /\ f.flags \subseteq Flags /\ f.raised \subseteq Flags
  /\ f.es \in BOOLEAN /\ f.ne \in BOOLEAN /\ f.ts \in BOOLEAN /\ f.pc64 \in BOOLEAN /\ f.irq13 \in BOOLEAN
  /\ f.tos \in Slots /\ f.tag \in [Slots -> Tags] /\ f.reg \in [Slots -> Value]
  /\ f.fault \in {"", "PF", "MF", "NM"} /\ f.cc \in {"lt", "eq", "gt", "unordered", "partial", "open"}
  /\ steps \in 0 .. MaxSteps

-----------------------------------------------------------------------------
(* Registers and tags. *)

At(k, i) == (k.tos + i) % NRegs
FPU_gettagi(k, i) == k.tag[At(k, i)]
Empty(k, i) == FPU_gettagi(k, i) = "Empty"
Push(k) == [k EXCEPT !.tos = (@ + NRegs - 1) % NRegs]
FPU_settagi(k, i, tag) == [k EXCEPT !.tag[At(k, i)] = tag]
FPU_copy_to_regi(k, x, tag, i) == [FPU_settagi(k, i, tag) EXCEPT !.reg[At(k, i)] = x]
FPU_pop(k) == [FPU_settagi(k, 0, "Empty") EXCEPT !.tos = (@ + 1) % NRegs]
FPU_tagof(x) == CASE x.kind = "zero" -> "Zero" [] x.kind = "valid" -> "Valid" [] OTHER -> "Special"
Put(k, x, i) == FPU_copy_to_regi(k, x, FPU_tagof(x), i)

\* What a register is by its tag; FPU_Special looks at the content of a special one.
Seen(k, i) ==
  LET x == k.reg[At(k, i)]
  IN  CASE FPU_gettagi(k, i) = "Valid" -> [x EXCEPT !.kind = "valid"]
        [] FPU_gettagi(k, i) = "Zero" -> [x EXCEPT !.kind = "zero"]
        [] FPU_gettagi(k, i) = "Empty" -> [x EXCEPT !.kind = "empty"]
        [] x.kind = "zero" -> [x EXCEPT !.kind = "denormal"]
        [] x.kind = "valid" -> [x EXCEPT !.kind = "unsupported"]
        [] OTHER -> x

St(k, i) == Seen(k, i)

\* An instruction goes on unless it faults, or finds an exception that is not masked.
Then(k, Next1(_)) == IF k.fault = "" /\ ~k.stop THEN Next1(k) ELSE k
Stopped(k) == [k EXCEPT !.stop = TRUE]
StoppedUnless(k, e) == IF e \in k.mask THEN k ELSE Stopped(k)
Access(k, point) == IF k.pf = point THEN [k EXCEPT !.fault = "PF"] ELSE k

-----------------------------------------------------------------------------
(* Exceptions. *)

Pending(flags, mask) == (flags \ {"SF"}) \ mask # {}

FPU_exception(k, e) ==
  LET flags == k.flags \union e
  IN  [k EXCEPT !.flags = flags, !.raised = @ \union e, !.es = @ \/ Pending(flags, k.mask)]

\* Masked, the flag is set; otherwise it is an exception.
set_precision_flag(k) ==
  IF "P" \in k.mask THEN [k EXCEPT !.flags = @ \union {"P"}, !.raised = @ \union {"P"}] ELSE FPU_exception(k, {"P"})

denormal_operand(k) ==
  IF "D" \in k.mask THEN [k EXCEPT !.flags = @ \union {"D"}, !.raised = @ \union {"D"}]
  ELSE Stopped(FPU_exception(k, {"D"}))

Both(x, y) == {x.kind, y.kind}

\* An operand is used although it is a denormal, unless that is an exception.
Used(k, kinds, Next1(_)) == Then(IF "denormal" \in kinds THEN denormal_operand(k) ELSE k, Next1)

\* The masked response goes to register i.
Invalid(k, flags, i) ==
  IF "I" \in k.mask THEN FPU_exception(Put(k, CONST_QNaN, i), flags) ELSE Stopped(FPU_exception(k, flags))

arith_invalid(k, i) == Invalid(k, {"I"}, i)

FPU_stack_overflow(k) == Stopped(Invalid(IF "I" \in k.mask THEN Push(k) ELSE k, {"I", "SF"}, 0))
FPU_stack_underflow(k, i) == Stopped(Invalid(k, {"I", "SF"}, i))

FPU_stack_underflow_pop(k, i) ==
  LET t == FPU_stack_underflow(k, i) IN IF "I" \in k.mask THEN FPU_pop(t) ELSE t

FPU_divide_by_zero(k, neg, i) ==
  IF "Z" \in k.mask THEN FPU_exception(Put(k, [CONST_INF EXCEPT !.neg = neg], i), {"Z"})
  ELSE Stopped(FPU_exception(k, {"Z"}))

real_1op_NaN(k) ==
  IF St(k, 0).kind = "quiet" THEN k ELSE arith_invalid(k, 0)

\* One of the two is a NaN: the result is a quiet one.
real_2op_NaN(k, kinds, i) ==
  IF kinds \intersect {"signalling", "unsupported"} # {} THEN arith_invalid(k, i) ELSE Put(k, CONST_QNaN, i)

-----------------------------------------------------------------------------
(* Rounding.  "lossy" loses bits; "huge" and "largest" are too large, and   *)
(* rounded to infinity or not; "tiny" is too small and loses bits,          *)
(* "tinyexact" does not, and "vanishes" is rounded to zero.                 *)

\* Under an unmasked underflow the exponent is biased; nothing is raised for
\* what is tiny and exact, if underflow is masked.
Biased(k, full) == ~full /\ "U" \notin k.mask

Rounded(k, full) ==
  CASE k.o \in {"exact", "lossy", "largest"} -> New("valid")
    [] k.o = "huge" -> IF "O" \in k.mask THEN CONST_INF ELSE New("valid")
    [] k.o = "vanishes" -> IF Biased(k, full) THEN New("valid") ELSE CONST_Z
    [] OTHER -> New(IF Biased(k, full) THEN "valid" ELSE "denormal")

RaisedByRounding(k, full) ==
  CASE k.o = "exact" -> {}
    [] k.o = "lossy" -> {"P"}
    [] k.o \in {"huge", "largest"} -> IF "O" \in k.mask THEN {"O", "P"} ELSE {"O"}
    [] k.o = "tinyexact" -> IF Biased(k, full) THEN {"U"} ELSE {}
    [] OTHER -> {"U", "P"}

Raised(k, e) ==
  CASE e = {} -> k
    [] e = {"P"} -> set_precision_flag(k)
    [] OTHER -> FPU_exception(k, e)

\* full: with all masks set and with full precision.
FPU_round(k, i, full) == Raised(Put(k, Rounded(k, full), i), RaisedByRounding(k, full))

\* Precision is lost to 64, 53 or 24 bits.
Lossy(k, i) == set_precision_flag(Put(k, New("valid"), i))

\* What is too large is rounded in its register.
arith_round_overflow(k, i) == FPU_round([k EXCEPT !.o = "huge"], i, FALSE)

\* What each of the kernels can come to.
FPU_u_add == {"exact", "lossy", "huge", "largest", "tinyexact"}
FPU_u_sub == {"exact", "lossy", "tinyexact", "zero"}
FPU_u_mul == {"exact", "lossy", "huge", "largest", "tiny", "tinyexact", "vanishes"}
FPU_u_div == {"exact", "lossy", "huge", "largest", "tiny", "tinyexact", "vanishes"}
wm_sqrt == {"exact", "lossy"}
poly_2xm1 == {"one", "lossy"}
poly_l2 == {"exact", "lossy", "huge", "largest", "tiny", "zero"}
poly_l2p1 == {"lossy", "tiny", "vanishes", "one"}
poly_atan == {"lossy", "tiny", "vanishes"}
poly_tan == {"lossy", "far"}
poly_sine == {"lossy", "far"}
rem_kernel == {"exact", "tinyexact", "zero", "partial", "less"}
Scaled == {"exact", "lossy", "huge", "largest", "tiny", "vanishes", "enormous"}
Compared == {"lt", "eq", "gt"}
Stored == {"exact", "lossy", "huge", "tiny", "tinyup", "tinyexact"}
Truncated == {"exact", "lossy", "huge"}

-----------------------------------------------------------------------------
(* Arithmetic: the result goes to register n. *)

\* Infinities and zeros.  A denormal with a zero stays one.
OfSpecials(x, y) ==
  LET z == CASE x.kind = "infinity" -> x [] y.kind = "infinity" \/ x.kind = "zero" -> y [] OTHER -> x
  IN  [z EXCEPT !.new = TRUE, !.neg = z.kind = "infinity" /\ z.neg]

add_sub_specials_core(k, x, y, n) ==
  Used(k, Both(x, y), LAMBDA t :
    IF Both(x, y) = {"infinity"} /\ x.neg # y.neg THEN arith_invalid(t, n) ELSE Put(t, OfSpecials(x, y), n))

\* The destination is rounded as it stands, its tag is not set again.
RoundedInPlace(k, z, n) ==
  LET Kept(t) == FPU_settagi(t, n, FPU_gettagi(k, n))
  IN  CASE z = "zero" \/ (z = "denormal" /\ k.o = "lossy") -> FPU_exception(k, {"U", "P"})
        [] z = "infinity" -> Kept(arith_round_overflow(k, n))
        [] z = "valid" -> Kept(FPU_round(k, n, FALSE))
        [] OTHER -> k

\* It is rounded also if there was an exception, and that is forgotten
\* (reg_add_sub.c:387-423).
RoundedAgain(k, kinds, n) ==
  IF (k.pc64 /\ "zero" \in kinds) \/ (~k.stop /\ (kinds = {"zero"} \/ "infinity" \in kinds)) THEN k
  ELSE RoundedInPlace([k EXCEPT !.stop = FALSE], k.reg[At(k, n)].kind, n)

add_sub_specials(k, x, y, n) == RoundedAgain(add_sub_specials_core(k, x, y, n), Both(x, y), n)

\* Equal numbers of opposite signs give zero.
FPU_add(k, x, y, n) ==
  CASE Both(x, y) \subseteq Numbers ->
         Used(k, Both(x, y), LAMBDA t : IF k.o = "zero" THEN Put(t, CONST_Z, n) ELSE FPU_round(t, n, FALSE))
    [] Both(x, y) \intersect NaNs # {} -> real_2op_NaN(k, Both(x, y), n)
    [] OTHER -> add_sub_specials(k, x, y, n)

FPU_sub(k, x, y, n) == FPU_add(k, x, Minus(y), n)

FPU_mul(k, x, y, n) ==
  LET kinds == Both(x, y)
      Give(z) == Used(k, kinds, LAMBDA t : Put(t, [z EXCEPT !.neg = x.neg # y.neg], n))
  IN  CASE kinds \subseteq Numbers -> Used(k, kinds, LAMBDA t : FPU_round(t, n, FALSE))
        [] kinds \intersect NaNs # {} -> real_2op_NaN(k, kinds, n)
        [] kinds = {"infinity", "zero"} -> arith_invalid(k, n)
        [] OTHER -> Give(IF "zero" \in kinds THEN CONST_Z ELSE CONST_INF)

\* x / y
FPU_div(k, x, y, n) ==
  LET kinds == Both(x, y)
      Give(z) == Used(k, kinds, LAMBDA t : Put(t, [z EXCEPT !.neg = x.neg # y.neg], n))
  IN  CASE kinds \subseteq Numbers -> Used(k, kinds, LAMBDA t : FPU_round(t, n, FALSE))
        [] kinds \intersect NaNs # {} -> real_2op_NaN(k, kinds, n)
        [] kinds = {"zero"} \/ kinds = {"infinity"} -> arith_invalid(k, n)
        [] y.kind = "zero" /\ x.kind # "infinity" -> FPU_divide_by_zero(k, x.neg # y.neg, n)
        [] OTHER -> Give(IF x.kind = "infinity" THEN CONST_INF ELSE CONST_Z)

\* op: on ST(0) and another value, with the result in register n.
Computed(k, op, x, y, n) ==
  CASE op = "fadd" -> FPU_add(k, x, y, n)
    [] op = "fmul" -> FPU_mul(k, x, y, n)
    [] op \in {"fsub", "fsubr"} -> FPU_sub(k, IF op = "fsub" THEN x ELSE y, IF op = "fsub" THEN y ELSE x, n)
    [] op \in {"fdiv", "fdivr"} -> FPU_div(k, IF op = "fdiv" THEN x ELSE y, IF op = "fdiv" THEN y ELSE x, n)

\* Register forms; the reversed ones are named for what they compute.
FPU_arith(k, op, form, i) ==
  LET n == IF form = "st0" THEN 0 ELSE i
  IN  CASE (Empty(k, 0) \/ Empty(k, i)) /\ form = "pop" -> FPU_stack_underflow_pop(k, n)
        [] Empty(k, 0) \/ Empty(k, i) -> FPU_stack_underflow(k, n)
        [] OTHER -> Then(Computed(k, op, St(k, 0), St(k, i), n), LAMBDA t : IF form = "pop" THEN FPU_pop(t) ELSE t)

-----------------------------------------------------------------------------
(* Loads: a denormal single or double becomes a number. *)

Normalized(x) == [New(IF x.kind = "denormal" THEN "valid" ELSE x.kind) EXCEPT !.neg = x.neg]

\* What was flagged before is restored.
Undone(k, before) ==
  [k EXCEPT !.flags = before.flags, !.es = before.es, !.raised = before.raised, !.stop = FALSE]

FPU_load_real(k, x) == Then(Access(k, "first"), LAMBDA t : IF x.kind = "denormal" THEN denormal_operand(t) ELSE t)

-----------------------------------------------------------------------------
(* Compares. *)

Unordered(k) == [k EXCEPT !.cc = "unordered"]

compare(k, x, y) ==
  CASE x.kind = "zero" /\ y.kind = "zero" -> "eq"
    [] x.kind = "zero" \/ (y.kind = "infinity" /\ x.kind # "infinity") -> IF y.neg THEN "gt" ELSE "lt"
    [] y.kind = "zero" \/ (x.kind = "infinity" /\ y.kind # "infinity") -> IF x.neg THEN "lt" ELSE "gt"
    [] x.neg # y.neg -> IF x.neg THEN "lt" ELSE "gt"
    [] x.kind = "infinity" -> "eq"
    [] OTHER -> k.o

\* quietly: FUCOM.  It returns as if stopped if an exception is not masked.
CompareValues(k, y, quietly) ==
  LET x == St(k, 0)
      kinds == Both(x, y)
      invalid == IF quietly THEN {"signalling", "unsupported"} ELSE NaNs
      t == [k EXCEPT !.cc = compare(k, x, y)]
  IN  CASE kinds \intersect invalid # {} -> StoppedUnless(FPU_exception(Unordered(k), {"I"}), "I")
        [] kinds \intersect NaNs # {} -> Unordered(k)
        [] "denormal" \in kinds -> denormal_operand(t)
        [] OTHER -> t

compare_st_st(k, i) ==
  IF Empty(k, 0) \/ Empty(k, i) THEN StoppedUnless(FPU_exception(Unordered(k), {"I", "SF"}), "I")
  ELSE CompareValues(k, St(k, i), FALSE)

compare_u_st_st(k, i) ==
  IF Empty(k, 0) \/ Empty(k, i) THEN StoppedUnless(FPU_exception(Unordered(k), {"I", "SF"}), "I")
  ELSE CompareValues(k, St(k, i), TRUE)

ftst_(k) ==
  LET x == St(k, 0)
      t == [k EXCEPT !.cc = compare(k, x, Given("zero", FALSE))]
  IN  CASE x.kind = "empty" -> StoppedUnless(FPU_exception(Unordered(k), {"I", "SF"}), "I")
        [] x.kind \in NaNs -> StoppedUnless(FPU_exception(Unordered(k), {"I"}), "I")
        [] x.kind = "denormal" -> denormal_operand(IF "D" \in k.mask \/ x.neg THEN t ELSE [t EXCEPT !.cc = "eq"])
        [] OTHER -> t

-----------------------------------------------------------------------------
(* ST(0) and a value in memory. *)

\* A real is loaded first.  NaNs undo what the load has flagged; so does a
\* division by zero.  FCOM and FCOMP go on after an unmasked denormal.
MemoryOperand(k, op, x, real) ==
  LET loaded == IF real THEN FPU_load_real(k, x) ELSE Access(k, "first")
      y == Normalized(x)
      unmasked == loaded.stop
      again == [loaded EXCEPT !.stop = FALSE]
      comparing == op \in {"fcom", "fcomp"}
      Popped(t) == IF op = "fcomp" /\ ~unmasked THEN Then(t, FPU_pop) ELSE t
      a == St(k, 0)
      Unequal(t, flags) ==
        LET u == StoppedUnless(FPU_exception(Unordered(t), flags), "I")
        IN  IF op = "fcomp" THEN Then(u, FPU_pop) ELSE u
      Divided == FPU_divide_by_zero(again, y.neg, 0)
  IN  CASE a.kind = "empty" /\ comparing -> Unequal(k, {"I", "SF"})
        [] a.kind = "empty" -> FPU_stack_underflow(k, 0)
        [] loaded.fault # "" -> loaded
        [] Both(a, y) \intersect NaNs # {} /\ comparing -> Unequal(Undone(loaded, k), {"I"})
        [] Both(a, y) \intersect NaNs # {} -> real_2op_NaN(Undone(loaded, k), Both(a, y), 0)
        [] unmasked /\ op = "fdivr" /\ a.kind = "zero" ->
             Stopped(IF "Z" \in k.mask THEN Divided
                     ELSE [Divided EXCEPT !.flags = (@ \ {"D"}) \union (k.flags \intersect {"D"}),
                                          !.raised = @ \ {"D"}])
        [] unmasked /\ ~comparing -> loaded
        [] comparing -> Popped(CompareValues(again, y, FALSE))
        [] OTHER -> Computed(IF op = "fdivr" /\ a.kind = "zero" THEN Undone(loaded, k) ELSE again, op, a, y, 0)

-----------------------------------------------------------------------------
(* Moves between registers. *)

\* With no register to copy, ST(0) becomes a NaN and nothing is pushed.
fld_i_(k, i) ==
  CASE ~Empty(k, NRegs - 1) -> FPU_stack_overflow(k)
    [] Empty(k, i) -> FPU_stack_underflow(k, 0)
    [] OTHER -> FPU_copy_to_regi(Push(k), k.reg[At(k, i)], FPU_gettagi(k, i), 0)

fxch_i(k, i) ==
  LET Copied(from, to) ==
        IF "I" \in k.mask THEN FPU_copy_to_regi(k, k.reg[At(k, from)], FPU_gettagi(k, from), to) ELSE k
  IN  CASE Empty(k, 0) /\ Empty(k, i) -> FPU_stack_underflow(FPU_stack_underflow(k, 0), i)
        [] Empty(k, 0) -> FPU_stack_underflow(Copied(i, 0), i)
        [] Empty(k, i) -> FPU_stack_underflow(Copied(0, i), 0)
        [] OTHER -> FPU_copy_to_regi(FPU_copy_to_regi(k, k.reg[At(k, i)], FPU_gettagi(k, i), 0),
                                     k.reg[At(k, 0)], FPU_gettagi(k, 0), i)

ffree_(k, i) == FPU_settagi(k, i, "Empty")

fst_i_(k, i, pops) ==
  IF Empty(k, 0) THEN FPU_stack_underflow(k, 0)
  ELSE LET t == FPU_copy_to_regi(k, k.reg[At(k, 0)], FPU_gettagi(k, 0), i) IN IF pops THEN FPU_pop(t) ELSE t

\* It goes on after an underflow, with the NaN or with nothing changed.
FPU_fcmov(k, i, holds) ==
  LET t == IF Empty(k, 0) \/ Empty(k, i) THEN [FPU_stack_underflow(k, 0) EXCEPT !.stop = FALSE] ELSE k
  IN  IF holds THEN FPU_copy_to_regi(t, k.reg[At(k, i)], FPU_gettagi(k, i), 0) ELSE t

\* The tag stays.
Signed(k, neg) == IF Empty(k, 0) THEN FPU_stack_underflow(k, 0) ELSE [k EXCEPT !.reg[At(k, 0)].neg = neg]
fchs(k) == Signed(k, ~k.reg[At(k, 0)].neg)
fpu_fabs(k) == Signed(k, FALSE)

fld_const(k, kind) == IF ~Empty(k, NRegs - 1) THEN FPU_stack_overflow(k) ELSE Put(Push(k), New(kind), 0)

fdecstp(k) == Push(k)
fincstp(k) == [k EXCEPT !.tos = (@ + 1) % NRegs]

-----------------------------------------------------------------------------
(* Memory: the stack has moved before a load reads, and the flags are set  *)
(* before a store writes.                                                  *)

\* form: "real" (32 and 64 bits), "ext" (80 bits) or "int" (integers and BCD).
Loaded(k, form, x) ==
  LET read == Access(Push(k), "first")
      Number(t) == Put(t, Normalized(x), 0)
      Real(t) ==
        CASE x.kind = "denormal" -> Number(denormal_operand(t))
          [] x.kind = "signalling" /\ "I" \notin t.mask -> fincstp(arith_invalid(t, 0))
          [] x.kind = "signalling" -> arith_invalid(t, 0)
          [] OTHER -> Number(t)
  IN  IF ~Empty(k, NRegs - 1) THEN FPU_stack_overflow(k)
      ELSE Then(read, LAMBDA t : CASE form = "real" -> Real(t) [] form = "ext" -> Put(t, x, 0) [] OTHER -> Number(t))

\* An exception that is not masked ends a store.
Signal(k, e, bit) == StoppedUnless(FPU_exception(k, e), bit)

StoreReal(k) ==
  LET x == St(k, 0).kind
      Too(e) == Then(Signal(k, {e}, e), LAMBDA t : Signal(t, {"P"}, "P"))
  IN  CASE x = "empty" -> Signal(k, {"I", "SF"}, "I")
        [] x \in {"signalling", "unsupported"} -> Signal(k, {"I"}, "I")
        [] x = "denormal" \/ (x = "valid" /\ k.o = "tiny") -> Too("U")
        [] x = "valid" /\ k.o = "tinyup" -> Signal(k, {"P"}, "P")
        [] x = "valid" /\ k.o = "huge" ->
             Then(Signal(k, {"O"}, "O"), LAMBDA t : StoppedUnless(set_precision_flag(t), "P"))
        [] x = "valid" /\ k.o = "lossy" -> set_precision_flag(k)
        [] OTHER -> k

FPU_store_extended(k) == IF Empty(k, 0) THEN Signal(k, {"I", "SF"}, "I") ELSE k

StoreInteger(k) ==
  LET x == St(k, 0).kind
  IN  CASE x = "empty" -> Signal(k, {"I", "SF"}, "I")
        [] x = "infinity" \/ x \in NaNs \/ (x = "valid" /\ k.o = "huge") -> Signal(k, {"I"}, "I")
        [] x = "denormal" \/ (x = "valid" /\ k.o = "lossy") -> set_precision_flag(k)
        [] OTHER -> k

\* Popped only if it was stored.
FPU_store(k, form, pops) ==
  LET t == CASE form = "real" -> StoreReal(k) [] form = "ext" -> FPU_store_extended(k) [] OTHER -> StoreInteger(k)
      written == Then(t, LAMBDA u : Access(u, "first"))
  IN  Then(written, LAMBDA u : [IF pops THEN FPU_pop(u) ELSE u EXCEPT !.mem = "stored"])

-----------------------------------------------------------------------------
(* Functions of ST(0), and of ST(0) and ST(1). *)

Pushed(k, x) == Put(Push(k), x, 0)
Partial(k) == [k EXCEPT !.cc = "partial"]

single_arg_error(k) == IF Empty(k, 0) THEN FPU_stack_underflow(k, 0) ELSE real_1op_NaN(k)

single_arg_2_error(k) ==
  IF St(k, 0).kind = "quiet" THEN Pushed(k, CONST_QNaN)
  ELSE Then(arith_invalid(k, 0), LAMBDA t : Pushed(t, CONST_QNaN))

\* Whether there is room is not looked at.
UnderflowTwice(k) ==
  LET t == FPU_stack_underflow(k, 0) IN IF "I" \in k.mask THEN FPU_stack_underflow(Push(t), 0) ELSE t

InvalidTwice(k) == Then(arith_invalid(k, 0), LAMBDA t : arith_invalid(Push(t), 0))

f2xm1(k) ==
  LET x == St(k, 0)
  IN  CASE x.kind \in Numbers -> Used(k, {x.kind}, LAMBDA t :
             set_precision_flag(IF t.o = "one" THEN t ELSE FPU_round(t, 0, TRUE)))
        [] x.kind = "zero" -> k
        [] x.kind = "infinity" -> IF x.neg THEN Put(k, Minus(One), 0) ELSE k
        [] OTHER -> single_arg_error(k)

fptan(k) ==
  LET x == St(k, 0).kind
  IN  CASE x = "empty" -> UnderflowTwice(k)
        [] ~Empty(k, NRegs - 1) -> FPU_stack_overflow(k)
        [] x = "valid" -> IF k.o = "far" THEN Partial(k) ELSE Pushed(Lossy(k, 0), One)
        [] x = "zero" -> Pushed(k, One)
        [] x = "denormal" -> Then(denormal_operand(k), LAMBDA t : Pushed(FPU_round(t, 0, TRUE), One))
        [] x = "infinity" -> InvalidTwice(k)
        [] OTHER -> single_arg_2_error(k)

fxtract(k) ==
  LET x == St(k, 0)
      Exponent(t) == Pushed(Put(t, IF t.o = "zero" THEN CONST_Z ELSE New("valid"), 0), New("valid"))
  IN  CASE ~Empty(k, NRegs - 1) -> FPU_stack_overflow(k)
        [] x.kind \in Numbers -> Used(k, {x.kind}, Exponent)
        [] x.kind = "zero" -> Then(FPU_divide_by_zero(k, TRUE, 0), LAMBDA t : Pushed(t, CONST_Z))
        [] x.kind = "infinity" -> Pushed(Put(k, CONST_INF, 0), [CONST_INF EXCEPT !.neg = x.neg])
        [] x.kind = "empty" -> UnderflowTwice(k)
        [] OTHER -> Then(real_1op_NaN(k), LAMBDA t : Pushed(t, CONST_QNaN))

fsqrt_(k) ==
  LET x == St(k, 0)
  IN  CASE x.kind = "zero" -> k
        [] x.kind \in Numbers \union {"infinity"} /\ x.neg -> arith_invalid(k, 0)
        [] x.kind = "infinity" -> k
        [] x.kind \in Numbers -> Used(k, {x.kind}, LAMBDA t : FPU_round(t, 0, FALSE))
        [] OTHER -> single_arg_error(k)

\* A denormal leaves nothing, or one.
frndint_(k) ==
  LET x == St(k, 0).kind
      Whole(t) ==
        CASE t.o = "exact" -> t
          [] t.o = "lossy" -> Lossy(t, 0)
          [] t.o = "zero" -> set_precision_flag(Put(t, CONST_Z, 0))
  IN  CASE x \in Numbers -> Used(k, {x}, Whole)
        [] x \in {"zero", "infinity"} -> k
        [] OTHER -> single_arg_error(k)

fsin(k) ==
  LET x == St(k, 0).kind
  IN  CASE x = "valid" -> IF k.o = "far" THEN Partial(k) ELSE Lossy(k, 0)
        [] x = "zero" -> k
        [] x = "denormal" -> Then(denormal_operand(k), LAMBDA t : FPU_round(t, 0, TRUE))
        [] x = "infinity" -> arith_invalid(k, 0)
        [] OTHER -> single_arg_error(k)

f_cos(k) ==
  LET x == St(k, 0).kind
  IN  CASE x = "valid" -> IF k.o = "far" THEN Partial(k) ELSE Lossy(k, 0)
        [] x = "zero" -> Put(k, One, 0)
        [] x = "denormal" -> Then(denormal_operand(k), LAMBDA t : set_precision_flag(Put(t, One, 0)))
        [] x = "infinity" -> arith_invalid(k, 0)
        [] OTHER -> single_arg_error(k)

\* The sine is left below the cosine.
fsincos(k) ==
  LET x == St(k, 0).kind
      Cosine(t) == f_cos(FPU_copy_to_regi(Push(t), k.reg[At(k, 0)], FPU_gettagi(k, 0), 0))
  IN  CASE x = "empty" -> UnderflowTwice(k)
        [] ~Empty(k, NRegs - 1) -> FPU_stack_overflow(k)
        [] x \in NaNs -> single_arg_2_error(k)
        [] x = "infinity" -> InvalidTwice(k)
        [] x = "valid" /\ k.o = "far" -> Partial(k)
        [] OTHER -> Then(fsin(k), Cosine)

\* An underflow that is not masked is reported though nothing was lost.
do_fprem(k) ==
  LET x == St(k, 0).kind
      y == St(k, 1).kind
      Remainder(t) ==
        CASE t.o = "exact" -> Put(t, New("valid"), 0)
          [] t.o = "zero" -> Put(t, CONST_Z, 0)
          [] t.o = "less" -> t
          [] t.o = "partial" -> Partial(Put(t, New("valid"), 0))
          [] "U" \in t.mask -> Put(t, New("denormal"), 0)
          [] OTHER -> FPU_exception(Put(t, New("valid"), 0), {"U"})
  IN  CASE {x, y} \subseteq Numbers -> Used(k, {x, y}, Remainder)
        [] "empty" \in {x, y} -> FPU_stack_underflow(k, 0)
        [] {x, y} \intersect NaNs # {} -> real_2op_NaN(k, {x, y}, 0)
        [] x = "infinity" \/ y = "zero" -> arith_invalid(k, 0)
        [] OTHER -> Used(k, {x, y}, LAMBDA t : t)

\* y * log2(x): a denormal y comes before a negative x.
fyl2x(k) ==
  LET x == St(k, 0)
      y == St(k, 1)
      kinds == Both(x, y)
      Logarithm(t) ==
        CASE x.neg -> arith_invalid(t, 1)
          [] t.o = "zero" -> Put(t, CONST_Z, 1)
          [] t.o = "exact" -> FPU_round(t, 1, TRUE)
          [] OTHER -> set_precision_flag(FPU_round(t, 1, TRUE))
      Infinite(t) == Put(t, [CONST_INF EXCEPT !.neg = y.neg], 1)
      Finite ==
        CASE x.kind = "zero" /\ y.kind = "zero" -> arith_invalid(k, 1)
          [] x.kind = "zero" -> FPU_divide_by_zero(k, ~y.neg, 1)
          [] y.kind = "zero" /\ x.neg -> arith_invalid(k, 1)
          [] y.kind = "zero" -> Used(k, {x.kind}, LAMBDA t : Put(t, CONST_Z, 1))
          [] OTHER -> Used(k, kinds, Logarithm)
      OfInfinite ==
        CASE x.kind = "infinity" /\ (x.neg \/ y.kind = "zero") -> arith_invalid(k, 1)
          [] x.kind = "infinity" -> Used(k, {y.kind}, Infinite)
          [] x.kind = "zero" -> Put(k, Minus(y), 1)
          [] x.neg \/ (x.kind = "valid" /\ k.o = "zero") -> arith_invalid(k, 1)
          [] OTHER -> Used(k, {x.kind}, LAMBDA t : IF t.o = "exact" THEN t ELSE Put(t, Minus(y), 1))
  IN  IF "empty" \in kinds THEN FPU_stack_underflow_pop(k, 1)
      ELSE Then(CASE kinds \intersect NaNs # {} -> real_2op_NaN(k, kinds, 1)
                  [] "infinity" \in kinds -> OfInfinite
                  [] OTHER -> Finite, FPU_pop)

\* Of a quotient of infinities, and of one of an infinity or a zero, it is a
\* part of pi, or zero: that raises nothing.
fpatan(k) ==
  LET x == St(k, 0)
      y == St(k, 1)
      kinds == Both(x, y)
      Pi(t) == set_precision_flag(FPU_pop(Put(t, New("valid"), 1)))
  IN  CASE "empty" \in kinds -> FPU_stack_underflow_pop(k, 1)
        [] kinds \intersect NaNs # {} -> Then(real_2op_NaN(k, kinds, 1), FPU_pop)
        [] kinds \subseteq Numbers ->
             Used(k, kinds, LAMBDA t : FPU_pop(set_precision_flag(FPU_round(t, 1, TRUE))))
        [] x.kind = "infinity" /\ y.kind # "infinity" /\ ~x.neg -> Used(k, kinds, LAMBDA t : FPU_pop(Put(t, CONST_Z, 1)))
        [] y.kind = "zero" /\ x.kind # "infinity" /\ ~x.neg -> Used(k, kinds, FPU_pop)
        [] OTHER -> Used(k, kinds, Pi)

\* y * log2(x + 1): for an x out of its range y only changes its sign.
fyl2xp1(k) ==
  LET x == St(k, 0)
      y == St(k, 1)
      kinds == Both(x, y)
      Turned(t) == IF x.neg THEN [t EXCEPT !.reg[At(t, 1)].neg = ~@] ELSE t
      Logarithm(t) ==
        LET u == CASE t.o = "one" -> set_precision_flag(Turned(t))
                   [] OTHER -> set_precision_flag(FPU_round(t, 1, TRUE))
        IN  IF u.reg[At(u, 1)].kind \in {"denormal", "zero"} THEN FPU_exception(u, {"U"}) ELSE u
      Result ==
        CASE kinds \intersect NaNs # {} -> real_2op_NaN(k, kinds, 1)
          [] kinds \subseteq Numbers -> Used(k, kinds, Logarithm)
          [] kinds = {"zero", "infinity"} -> arith_invalid(k, 1)
          [] x.kind = "infinity" /\ x.neg -> Used(k, kinds, LAMBDA t : arith_invalid(t, 1))
          [] x.kind = "infinity" -> Used(k, kinds, LAMBDA t : Put(t, [CONST_INF EXCEPT !.neg = y.neg], 1))
          [] x.kind = "zero" -> Used(k, kinds, LAMBDA t : Put(t, CONST_Z, 1))
          [] OTHER -> Used(k, kinds, Turned)
  IN  IF "empty" \in kinds THEN FPU_stack_underflow_pop(k, 1) ELSE Then(Result, FPU_pop)

\* The tag of the result is left as it was.  A scale that is enormous is not
\* rounded, masked or not.
fscale(k) ==
  LET x == St(k, 0)
      y == St(k, 1)
      kinds == Both(x, y)
      Scale(t) ==
        CASE t.o = "enormous" /\ y.neg -> Put(FPU_exception(t, {"U"}), CONST_Z, 0)
          [] t.o = "enormous" -> Put(FPU_exception(t, {"O"}), CONST_INF, 0)
          [] OTHER -> FPU_settagi(FPU_round(t, 0, FALSE), 0, FPU_gettagi(t, 0))
  IN  CASE "empty" \in kinds -> FPU_stack_underflow(k, 0)
        [] kinds \intersect NaNs # {} -> real_2op_NaN(k, kinds, 0)
        [] y.kind = "denormal" \/ (x.kind \notin Numbers /\ y.kind # "infinity") -> Used(k, {y.kind}, LAMBDA t : t)
        [] y.kind = "valid" -> Used(k, kinds, Scale)
        [] y.kind = "zero" -> Used(k, kinds, LAMBDA t : t)
        [] (x.kind = "zero" /\ ~y.neg) \/ (x.kind = "infinity" /\ y.neg) -> arith_invalid(k, 0)
        [] x.kind \in {"zero", "infinity"} -> k
        [] OTHER -> Used(k, kinds, LAMBDA t : Put(t, IF y.neg THEN CONST_Z ELSE CONST_INF, 0))

-----------------------------------------------------------------------------
(* Control words, environment and state. *)

KeepsSummary(k, mask) == Then(Access(k, "first"), LAMBDA t : [t EXCEPT !.mask = mask])

\* The summary follows the new masks at once.
fldcw(k, mask) ==
  Then(Access(k, "first"), LAMBDA t : [t EXCEPT !.mask = mask, !.es = Pending(t.flags, mask)])

fclex(k) == [k EXCEPT !.flags = {}, !.es = FALSE]

\* The registers keep what they hold.
finit(k) ==
  [fclex(k) EXCEPT !.mask = Exceptions, !.tos = 0, !.tag = [r \in Slots |-> "Empty"], !.pc64 = TRUE, !.cc = "gt"]

\* What is written, and then everything is masked.
fstenv(k) ==
  Then(Access(k, "first"), LAMBDA t :
    [t EXCEPT !.image = [mask |-> t.mask, flags |-> t.flags, es |-> t.es, tos |-> t.tos, tag |-> t.tag,
                           cc |-> t.cc, reg |-> @.reg],
              !.mask = Exceptions, !.es = FALSE])

\* The registers are written after that.
fsave(k) ==
  Then(Access(fstenv(k), "registers"), LAMBDA t : finit([t EXCEPT !.image.reg = t.reg]))

\* It is read word by word into the unit.
fldenv(k) ==
  LET Control(t) == [t EXCEPT !.mask = t.image.mask]
      Status(t) == [t EXCEPT !.flags = t.image.flags, !.es = t.image.es, !.cc = t.image.cc]
      TagOf(t, r) ==
        IF t.image.tag[r] = "Empty" THEN "Empty"
        ELSE IF t.tag[r] = "Empty" THEN FPU_tagof(t.reg[r])
        ELSE t.tag[r]
      Rest(t) == [t EXCEPT !.tos = t.image.tos, !.es = Pending(t.flags, t.mask), !.tag = [r \in Slots |-> TagOf(t, r)]]
  IN  Then(Access(k, "first"), LAMBDA t :
        Then(Access(Control(t), "status"), LAMBDA u : Then(Access(Status(u), "rest"), Rest)))

frstor(k) ==
  LET Registers(t) ==
        [t EXCEPT !.reg = t.image.reg,
                  !.tag = [r \in Slots |-> IF t.tag[r] = "Empty" THEN "Empty" ELSE FPU_tagof(t.image.reg[r])]]
  IN  Then(Access(fldenv(k), "registers"), Registers)

-----------------------------------------------------------------------------
(* An instruction: op, and how it is used: a register i, a value m in       *)
(* memory, a mask w, the outcome o, and where a page is missing, pf.        *)

Arithmetic == {"fadd", "fmul", "fsub", "fsubr", "fdiv", "fdivr"}
Functions2 == {"fprem", "fyl2x", "fpatan", "fyl2xp1", "fscale"}

FPU_trig(k, op) ==
  CASE op = "f2xm1" -> f2xm1(k) [] op = "fptan" -> fptan(k) [] op = "fxtract" -> fxtract(k)
    [] op = "fsqrt" -> fsqrt_(k) [] op = "frndint" -> frndint_(k) [] op = "fsin" -> fsin(k)
    [] op = "fcos" -> f_cos(k) [] op = "fsincos" -> fsincos(k) [] op = "fprem" -> do_fprem(k)
    [] op = "fyl2x" -> fyl2x(k) [] op = "fpatan" -> fpatan(k) [] op = "fyl2xp1" -> fyl2xp1(k)
    [] op = "fscale" -> fscale(k)

Functions1 == {"f2xm1", "fptan", "fxtract", "fsqrt", "frndint", "fsin", "fcos", "fsincos"}

FPU_etc(k, op) ==
  CASE op = "fchs" -> fchs(k) [] op = "fabs" -> fpu_fabs(k) [] op = "ftst" -> ftst_(k)
    [] op = "fxam" -> [k EXCEPT !.cc = "open"]

\* FCOM, FCOMP, FCOMPP and the unordered ones.
FPU_fcom(k, op, i) ==
  LET t == IF op \in {"fucom", "fucomp", "fucompp"} THEN compare_u_st_st(k, i) ELSE compare_st_st(k, i)
  IN  CASE op \in {"fcom", "fucom"} -> t
        [] op \in {"fcomp", "fucomp"} -> Then(t, FPU_pop)
        [] op \in {"fcompp", "fucompp"} -> Then(Then(t, FPU_pop), FPU_pop)

RegisterInstruction(k, ins) ==
  CASE ins.op \in Arithmetic -> FPU_arith(k, ins.op, ins.form, ins.i)
    [] ins.op \in Functions1 \union Functions2 -> FPU_trig(k, ins.op)
    [] ins.op \in {"fchs", "fabs", "ftst", "fxam"} -> FPU_etc(k, ins.op)
    [] ins.op = "fld" -> fld_i_(k, ins.i)
    [] ins.op = "fst" -> fst_i_(k, ins.i, FALSE)
    [] ins.op = "fstp" -> fst_i_(k, ins.i, TRUE)
    [] ins.op = "fxch" -> fxch_i(k, ins.i)
    [] ins.op = "ffree" -> ffree_(k, ins.i)
    [] ins.op = "fcmov" -> FPU_fcmov(k, ins.i, ins.o = "holds")
    [] ins.op = "fldz" -> fld_const(k, "zero")
    [] ins.op = "fld1" -> fld_const(k, "valid")
    [] ins.op = "fdecstp" -> fdecstp(k)
    [] ins.op = "fincstp" -> fincstp(k)
    [] ins.op \in {"fnop", "fcomi"} -> k
    [] ins.op = "fnclex" -> fclex(k)
    [] ins.op = "fninit" -> finit(k)
    [] ins.op = "fnstsw_ax" -> k
    [] OTHER -> FPU_fcom(k, ins.op, ins.i)

FPU_load_store(k, ins) ==
  CASE ins.op = "fld" -> Loaded(k, ins.form, ins.m)
    [] ins.op = "fst" -> FPU_store(k, ins.form, FALSE)
    [] ins.op = "fstp" -> FPU_store(k, ins.form, TRUE)
    [] ins.op = "fldcw" -> fldcw(k, ins.w)
    [] ins.op \in {"fnstcw", "fnstsw"} -> Access(k, "first")
    [] ins.op = "fnstenv" -> fstenv(k)
    [] ins.op = "fnsave" -> fsave(k)
    [] ins.op = "fldenv" -> fldenv(k)
    [] ins.op = "frstor" -> frstor(k)
    [] OTHER -> MemoryOperand(k, ins.op, ins.m, ins.form = "real")

NoWait == {"fnclex", "fninit", "fnstsw_ax", "fnstsw", "fnsave", "fnstcw", "fnstenv"}
InMemory == {"real", "ext", "int", "mem"}

\* A pending exception is reported to the processor, or by interrupt 13, and
\* then the instruction goes on.
Executed(k, ins) == IF ins.form \in InMemory THEN FPU_load_store(k, ins) ELSE RegisterInstruction(k, ins)

math_emulate(k, ins) ==
  IF ins.op \notin NoWait /\ k.es /\ k.ne THEN [k EXCEPT !.fault = "MF"]
  ELSE Executed([k EXCEPT !.irq13 = @ \/ (ins.op \notin NoWait /\ k.es)], ins)

\* FWAIT does not ask how exceptions are reported.
FWAIT(k) == IF k.es THEN [k EXCEPT !.fault = "MF"] ELSE k

\* The unit as an instruction finds it.
Fresh(k, ins) ==
  [k EXCEPT !.stop = FALSE, !.fault = "", !.raised = {}, !.mem = "none", !.o = ins.o, !.pf = ins.pf,
            !.reg = [r \in Slots |-> [@[r] EXCEPT !.new = FALSE]]]

Execute(k, ins) ==
  LET t == Fresh(k, ins)
  IN  CASE k.ts -> [t EXCEPT !.fault = "NM"]
        [] ins.op = "fwait" -> FWAIT(t)
        [] OTHER -> math_emulate(t, ins)

-----------------------------------------------------------------------------
(* Programs: one instruction on every pair of operands, or MaxSteps of them. *)

Operand(kind, neg) == [tag |-> FPU_tagof(New(kind)), val |-> Given(kind, neg)]
EmptyRegister == [tag |-> "Empty", val |-> Given("valid", FALSE)]
Operands ==
  {Operand(kind, neg) : kind \in {"valid", "denormal", "infinity"}, neg \in BOOLEAN}
    \union {Operand(kind, FALSE) : kind \in NaNs \union {"zero"}} \union {EmptyRegister}

Unit(x, y, z, mask, flags, pc64, ne) ==
  LET tag == [r \in Slots |-> CASE r = 0 -> x.tag [] r = 1 -> y.tag [] OTHER -> z.tag]
      reg == [r \in Slots |-> CASE r = 0 -> x.val [] r = 1 -> y.val [] OTHER -> z.val]
      es == Pending(flags, mask)
  IN  [mask |-> mask, flags |-> flags, raised |-> {}, es |-> es, ne |-> ne, ts |-> FALSE, pc64 |-> pc64,
       irq13 |-> FALSE, tos |-> 0, tag |-> tag, reg |-> reg, fault |-> "", stop |-> FALSE, cc |-> "gt",
       mem |-> "none", o |-> "exact", pf |-> "none",
       image |-> [mask |-> mask, flags |-> flags, es |-> es, tos |-> 0, tag |-> tag, cc |-> "gt", reg |-> reg]]

Inst(op, form, i, m, w, o, pf) == [op |-> op, form |-> form, i |-> i, m |-> m, w |-> w, o |-> o, pf |-> pf]
Nothing == Given("zero", FALSE)
FNOP == Inst("fnop", "reg", 0, Nothing, {}, "exact", "none")

Init ==
  /\ \E x, y, z \in Operands, mask \in {Exceptions, {}, Exceptions \ {"I"}, Exceptions \ {"D"}}, pc64, ne \in BOOLEAN :
       \/ /\ f = Unit(x, y, z, mask, {}, pc64, TRUE)
          /\ z = EmptyRegister \/ (z.tag = "Zero" /\ y.tag = "Zero")
          /\ pc64 \/ mask = Exceptions
          /\ ne
          /\ steps = MaxSteps - 1
       \/ /\ \E flags \in {{}, {"Z"}} : f = Unit(x, y, z, mask, flags, TRUE, ne)
          /\ x = Operand("valid", TRUE) /\ y.tag = "Zero" /\ z = EmptyRegister
          /\ mask \in {Exceptions, {}} /\ pc64
          /\ steps = 0
  /\ last = [ins |-> FNOP, before |-> f, saved |-> f, whole |-> TRUE, alone |-> steps = MaxSteps - 1]

Compares == {"fcom", "fcomp", "fcompp", "fucom", "fucomp", "fucompp"}

Same(x, y, op) == (x.neg = y.neg) = (op = "fadd")

\* What can come of an instruction on these operands.
Outcomes(k, op, form, y) ==
  LET x == St(k, 0)
      kinds == Both(x, y)
      OfTwo == CASE op \in {"fadd", "fsub", "fsubr"} -> IF Same(x, y, op) THEN FPU_u_add ELSE FPU_u_sub
                 [] op = "fmul" -> FPU_u_mul
                 [] op \in {"fdiv", "fdivr"} -> FPU_u_div
                 [] op \in Compares -> Compared
                 [] op = "fprem" -> rem_kernel
                 [] op = "fyl2x" -> poly_l2
                 [] op = "fpatan" -> poly_atan
                 [] op = "fyl2xp1" -> poly_l2p1
                 [] op = "fscale" -> Scaled
      OfValid == CASE op = "f2xm1" -> poly_2xm1
                   [] op = "fptan" -> poly_tan
                   [] op \in {"fsin", "fcos", "fsincos"} -> poly_sine
                   [] op = "fxtract" -> {"exact", "zero"}
                   [] op = "fsqrt" -> wm_sqrt
                   [] op = "frndint" -> {"exact", "lossy", "zero"}
                   [] op \in {"fst", "fstp"} -> CASE form = "real" -> Stored [] form = "int" -> Truncated [] OTHER -> {"exact"}
                   [] OTHER -> {"exact"}
      OfDenormal == CASE op = "f2xm1" -> {"tiny", "vanishes"}
                      [] op \in {"fptan", "fsin", "fcos", "fsincos"} -> {"tiny"}
                      [] op = "fsqrt" -> wm_sqrt
                      [] op = "frndint" -> {"lossy", "zero"}
                      [] OTHER -> {"exact"}
  IN  CASE op \in Arithmetic \union Compares \union Functions2 /\ kinds \subseteq Numbers -> OfTwo
        [] op \in {"fadd", "fsub", "fsubr"} /\ kinds \subseteq Numbers \union {"zero"} -> {"exact", "lossy"}
        [] op = "fyl2x" /\ y.kind = "infinity" /\ x.kind = "valid" -> {"exact", "lossy", "zero"}
        [] op = "fyl2x" /\ y.kind = "infinity" -> {"lossy"}
        [] op = "fcmov" -> {"holds", "fails"}
        [] x.kind = "valid" /\ op \notin Functions2 -> OfValid
        [] x.kind = "denormal" /\ op \notin Functions2 -> OfDenormal
        [] OTHER -> {"exact"}

OfRegisters ==
  [op : Arithmetic, form : {"st0", "sti", "pop"}]
    \union [op : Compares \union Functions2 \union {"fld", "fst", "fstp", "fxch", "ffree", "fcmov"}, form : {"reg"}]
OfOne ==
  [op : Functions1 \union {"fchs", "fabs", "ftst", "fxam", "fldz", "fld1", "fdecstp", "fincstp", "fcomi"}, form : {"reg"}]

InMemoryAs(form) ==
  CASE form = "int" -> {Nothing, Given("valid", FALSE), Given("valid", TRUE)}
    [] form = "real" -> {x.val : x \in Operands \ {Operand("unsupported", FALSE)}}
    [] form = "ext" -> {x.val : x \in Operands}

\* One instruction on the operands that the unit holds; if it has one operand
\* the second register holds zero.
OnRegisters ==
  UNION {{Inst(s.op, s.form, 1, Nothing, {}, o, "none") : o \in Outcomes(f, s.op, s.form, St(f, 1))} :
            s \in OfRegisters \union (IF f.tag[1] = "Zero" THEN OfOne ELSE {})}

WithOutcome(op, form, m, y) ==
  {Inst(op, form, 0, m, {}, o, pf) : o \in Outcomes(f, op, form, y), pf \in {"none", "first"}}

OnMemory ==
  IF f.tag[1] # "Zero" THEN {}
  ELSE UNION ({WithOutcome(s[1], s[2], s[3], Normalized(s[3])) :
                  s \in UNION {(Arithmetic \union {"fcom", "fcomp"}) \X {form} \X InMemoryAs(form) :
                                                 form \in {"real", "int"}}}
                \union {{Inst("fld", form, 0, m, {}, "exact", pf) : m \in InMemoryAs(form), pf \in {"none", "first"}} :
                           form \in {"real", "ext", "int"}}
                \union {WithOutcome(s[1], s[2], Nothing, Nothing) :
                           s \in ({"fst", "fstp"} \X {"real", "ext", "int"}) \ {<<"fst", "ext">>}})

\* Some of a program's instructions, with those that control the unit.
InProgram ==
  LET Plain(op, form, m, w, points) == {Inst(op, form, 1, m, w, "exact", pf) : pf \in points}
      Page == {"none", "first"}
  IN  UNION ({Plain(op, "reg", Nothing, {}, {"none"}) :
                 op \in {"fld1", "fsqrt", "fxch", "fwait", "fnclex", "fninit", "fnstsw_ax"}}
               \union {Plain("fdiv", "pop", Nothing, {}, {"none"})}
               \union {Plain("fldcw", "mem", Nothing, w, Page) : w \in {Exceptions, {}}}
               \union {Plain(op, "mem", Nothing, {}, Page) : op \in {"fnstcw", "fnstsw", "fnstenv"}}
               \union {Plain("fld", "real", One, {}, Page), Plain("fstp", "int", Nothing, {}, Page),
                       Plain("fnsave", "mem", Nothing, {}, Page \union {"registers"}),
                       Plain("fldenv", "mem", Nothing, {}, Page \union {"status", "rest"}),
                       Plain("frstor", "mem", Nothing, {}, Page \union {"status", "rest", "registers"})})

Alone == last.alone /\ steps = MaxSteps - 1

Instruction ==
  /\ steps < MaxSteps /\ steps' = steps + 1
  /\ \E ins \in (IF Alone THEN OnRegisters \union OnMemory ELSE {}) \union (IF f.pc64 THEN InProgram ELSE {}) :
       /\ f' = Execute(f, ins)
       /\ last' = LET done == f'.fault = ""
                  IN  [ins |-> ins, before |-> f, alone |-> last.alone,
                       saved |-> IF ins.op = "fnsave" /\ done THEN f ELSE last.saved,
                       whole |-> IF f'.image = f.image THEN last.whole ELSE ins.op = "fnsave" /\ done]

\* A write of port F0, a switch of tasks and a reset.
Outside(k) ==
  /\ steps < MaxSteps /\ steps' = steps + 1
  /\ f' = [k EXCEPT !.raised = {}, !.fault = ""]
  /\ last' = [last EXCEPT !.ins = FNOP, !.before = f']

extfpuirq_write == f.irq13 /\ Outside([f EXCEPT !.irq13 = FALSE])
SetTS == steps = 0 /\ Outside([f EXCEPT !.ts = ~@])
fpu_init == steps = 1 /\ Outside([finit(f) EXCEPT !.irq13 = FALSE, !.ts = FALSE, !.ne = FALSE])

Next == Instruction \/ extfpuirq_write \/ SetTS \/ fpu_init

Spec == Init /\ [][Next]_vars

-----------------------------------------------------------------------------
(* What the documents of the processor ask of every instruction, stated      *)
(* apart from how they are executed.                                         *)

before == last.before
ins0 == last.ins
Stepped == steps > 0 /\ ins0.op # "fnop"
Form(op, form) == ins0.op = op /\ ins0.form = form
FromMemory == ins0.form \in {"real", "int"} /\ ins0.op \in Arithmetic \union {"fcom", "fcomp"}
Raises == Stepped /\ f.fault = "" /\ ins0.op \notin {"fnclex", "fninit", "fnsave", "fldenv", "frstor"}

OfTwoRegisters == OfRegisters \ [op : {"fld", "fst", "fstp", "ffree"}, form : {"reg"}]

\* The registers an instruction reads, and whether it pushes.
ReadsBoth == [op |-> ins0.op, form |-> ins0.form] \in OfTwoRegisters
Stores == ins0.op \in {"fst", "fstp"}
ReadsFirst == ReadsBoth \/ FromMemory \/ Stores
                \/ ins0.op \in Functions1 \union {"fchs", "fabs", "ftst"}
Pushes == ins0.op \in {"fld", "fldz", "fld1", "fptan", "fsincos", "fxtract"} /\ f.cc # "partial"
Pops == CASE ins0.op \in {"fcomp", "fucomp", "fstp", "fyl2x", "fpatan", "fyl2xp1"} \/ ins0.form = "pop" -> 1
          [] ins0.op \in {"fcompp", "fucompp"} -> 2
          [] OTHER -> 0
Moved == CASE ins0.op = "fincstp" -> 1 [] ins0.op = "fdecstp" \/ Pushes -> NRegs - 1 [] OTHER -> Pops

StackFault ==
  \/ ReadsFirst /\ Empty(before, 0)
  \/ (ReadsBoth \/ Form("fld", "reg")) /\ Empty(before, 1)
  \/ Pushes /\ ~Empty(before, NRegs - 1)

\* The operands that count, as they are in a register or in memory.
OperandsOf ==
  CASE FromMemory -> <<St(before, 0), ins0.m>>
    [] ReadsBoth /\ ins0.op \notin {"fxch", "fcmov"} -> <<St(before, 0), St(before, 1)>>
    [] Form("fld", "real") -> <<ins0.m>>
    [] ReadsFirst /\ ins0.op \notin {"fxch", "fcmov", "fchs", "fabs"} /\ ~(Stores /\ ins0.form = "reg") -> <<St(before, 0)>>
    [] OTHER -> <<>>

Involved == {OperandsOf[n].kind : n \in 1 .. Len(OperandsOf)}
Negative(x) == x.neg /\ x.kind # "zero"

\* There is no number for it.
Undefined ==
  LET x == OperandsOf[1]
      y == OperandsOf[2]
      Is(p, q) == x.kind = p /\ y.kind = q
  IN  CASE ins0.op \in {"fadd", "fsub", "fsubr"} -> Is("infinity", "infinity") /\ ~Same(x, y, ins0.op)
        [] ins0.op = "fmul" -> Is("zero", "infinity") \/ Is("infinity", "zero")
        [] ins0.op \in {"fdiv", "fdivr"} -> Is("zero", "zero") \/ Is("infinity", "infinity")
        [] ins0.op = "fsqrt" -> Negative(x)
        [] ins0.op \in {"fsin", "fcos", "fsincos", "fptan"} -> x.kind = "infinity"
        [] ins0.op = "fprem" -> x.kind = "infinity" \/ y.kind = "zero"
        [] ins0.op = "fyl2x" -> \/ Negative(x) \/ Is("zero", "zero") \/ Is("infinity", "zero")
                               \/ (y.kind = "infinity" /\ x.kind = "valid" /\ ins0.o = "zero")
        [] ins0.op = "fyl2xp1" -> \/ Is("zero", "infinity") \/ Is("infinity", "zero")
                                 \/ (x.kind = "infinity" /\ x.neg)
        [] ins0.op = "fscale" -> (x.kind = "zero" /\ y.kind = "infinity" /\ ~y.neg)
                                 \/ (x.kind = "infinity" /\ y.kind = "infinity" /\ y.neg)
        [] ins0.form = "int" -> Stores /\ (x.kind = "infinity" \/ (x.kind = "valid" /\ ins0.o = "huge"))
        [] OTHER -> FALSE

DividesByZero ==
  LET x == OperandsOf[1]
      y == OperandsOf[2]
  IN  CASE ins0.op = "fdiv" -> y.kind = "zero" /\ x.kind # "infinity"
        [] ins0.op = "fdivr" -> x.kind = "zero" /\ y.kind # "infinity"
        [] ins0.op = "fyl2x" -> x.kind = "zero" /\ y.kind # "infinity"
        [] ins0.op = "fxtract" -> x.kind = "zero"
        [] OTHER -> FALSE

\* The exceptions of the operands, in their order: only the first is raised.
Due ==
  LET comparesOrdered == ins0.op \in {"fcom", "fcomp", "fcompp", "ftst"}
  IN  CASE StackFault -> {"I", "SF"}
        [] ins0.form = "ext" -> {}
        [] Involved \intersect {"signalling", "unsupported"} # {} -> {"I"}
        [] "quiet" \in Involved -> IF comparesOrdered \/ (Stores /\ ins0.form = "int") THEN {"I"} ELSE {}
        [] Involved # {} /\ Undefined -> {"I"}
        [] Involved # {} /\ DividesByZero -> {"Z"}
        [] "denormal" \in Involved /\ ~Stores -> {"D"}
        [] OTHER -> {}

Unmasked(e) == e \ before.mask # {}

\* Where the code leaves what is asked.
\* A sum with a zero or an infinity is rounded as it lies in its register, also
\* after an exception, which is then forgotten (reg_add_sub.c:387-423).
SumOfSpecials == ins0.op \in {"fadd", "fsub", "fsubr"} /\ Involved \intersect {"zero", "infinity"} # {}

\* The logarithm of a negative number is first one of a denormal (fpu_trig.c:1303, 1675).
DenormalLogarithm == ins0.op \in {"fyl2x", "fyl2xp1"} /\ OperandsOf[1].neg /\ "denormal" \in Involved

\* A denormal in memory divided by zero (fpu_entry.c:236-260).
LoadedByZero == Form("fdivr", "real") /\ Involved = {"zero", "denormal"}

\* A denormal single or double is loaded although that is an exception (load_store.c:97, 114),
\* and FCMOV moves although a register is empty (fpu_compare.c:39-47).
LoadedAnyway == Form("fld", "real") /\ Involved = {"denormal"}
MovedAnyway == ins0.op = "fcmov" /\ ins0.o = "holds"

\* FSCALE keeps the tag of its operand (fpu_trig.c:1765).
ScaledTag == ins0.op = "fscale"

\* FLD and FSTP of registers that are empty neither push nor pop (fpu_aux.c:113-119,
\* fpu_entry.c:345-350), and a store that is inexact and too small or too large is not
\* made if the precision exception is not masked (reg_ld_str.c:472-475, 543-545).
EmptyMove == ins0.form = "reg" /\ ins0.op \in {"fld", "fstp"} /\ "SF" \in f.raised
InexactStore == Stores /\ f.raised # {} /\ Unmasked(f.raised \intersect {"O", "U", "P"}) /\ f.mem = "none"

\* Of the exceptions of the operands, an instruction raises the first.
RaisesWhatIsDue == Raises => f.raised \ {"O", "U", "P"} = Due \/ DenormalLogarithm \/ LoadedByZero

\* If that is not masked, the operands and the stack are kept for the handler.
OperandsAreKept ==
  Raises /\ Unmasked(f.raised \intersect {"I", "D", "Z"}) =>
    \/ f.reg = Fresh(before, ins0).reg /\ f.tag = before.tag /\ f.tos = before.tos
    \/ SumOfSpecials \/ LoadedByZero \/ LoadedAnyway \/ MovedAnyway

\* Otherwise the stack moves by as much as the instruction pushes and pops.
StackMoves ==
  Raises /\ ~Unmasked(f.raised \intersect {"I", "D", "Z"}) =>
    f.tos = (before.tos + Moved) % NRegs \/ EmptyMove \/ InexactStore

\* The tag of a register says what it holds.
Agrees(k) == \A r \in Slots : k.tag[r] = "Empty" \/ k.tag[r] = FPU_tagof(k.reg[r])
TagsAgree == Stepped /\ Agrees(before) => Agrees(f) \/ SumOfSpecials \/ ScaledTag

\* What was read of an environment, or written of a state, before a page was
\* found to be missing, stays in the unit (reg_ld_str.c:1255-1283, 1343, 1436-1452).
HalfDone == f.fault = "PF" /\ ins0.op \in {"fnsave", "fldenv", "frstor"} /\ ins0.pf # "first"

\* An exception is pending if, and only if, one is flagged and not masked.
SummaryIsTrue ==
  Stepped /\ before.es = Pending(before.flags, before.mask) => f.es = Pending(f.flags, f.mask) \/ HalfDone

\* A load has pushed (load_store.c:71), and a store has flagged its exceptions,
\* before it finds a page missing.
PushedBefore == ins0.op = "fld" /\ ins0.form \in InMemory
FlaggedBefore == Stores /\ f.es

\* An instruction that is done again once the page is there does what it would
\* have done.
RestartIsTransparent ==
  Stepped /\ f.fault = "PF" =>
    \/ Cardinality({[Execute(k, [ins0 EXCEPT !.pf = "none"]) EXCEPT !.raised = {}] : k \in {f, before}}) = 1
    \/ HalfDone \/ PushedBefore \/ FlaggedBefore

\* FRSTOR gives back the unit that FNSAVE found.
RestoredAsSaved ==
  LET Held(k, r) == [k.reg[r] EXCEPT !.new = FALSE]
  IN  Stepped /\ ins0.op = "frstor" /\ f.fault = "" /\ last.whole =>
        /\ f.mask = last.saved.mask /\ f.flags = last.saved.flags /\ f.tos = last.saved.tos /\ f.cc = last.saved.cc
        /\ \A r \in Slots :
             /\ (f.tag[r] = "Empty") = (last.saved.tag[r] = "Empty")
             /\ f.tag[r] = "Empty" \/ Held(f, r) = Held(last.saved, r)

\* An exception that is pending is reported before another instruction that
\* waits is executed, and by interrupt 13 only if that is asked for.
Reported ==
  Stepped /\ before.es /\ ins0.op \notin NoWait /\ ~before.ts =>
    IF before.ne \/ ins0.op = "fwait" THEN f.fault = "MF" /\ f.reg = Fresh(before, ins0).reg /\ f.tos = before.tos ELSE f.irq13

\* All of that holds of every instruction, but for what is named above.
UnitIsRight ==
  /\ RaisesWhatIsDue /\ OperandsAreKept /\ StackMoves /\ TagsAgree
  /\ SummaryIsTrue /\ RestartIsTransparent /\ RestoredAsSaved /\ Reported
=============================================================================
