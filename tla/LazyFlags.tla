----------------------------- MODULE LazyFlags ------------------------------
(***************************************************************************)
(* The arithmetic flags of the CPU (cpu/lazy_flags.cc).  An instruction    *)
(* stores its operands and result, in one of two entries, and a flag is    *)
(* computed from them when it is read: most instructions use the entry     *)
(* oszapc, INC and DEC the entry oszap, which leaves CF where it was.      *)
(* Shifts, multiplications and decimal adjustments set some flags at once  *)
(* and leave the others pending.  "f" is that state; "ref" is the set of   *)
(* values the processor's manual allows each flag.  Instructions are those *)
(* of one operand size (arith8.cc, shift8.cc, ...), of Half * Half values. *)
(***************************************************************************)
EXTENDS Integers, FiniteSets, FiniteSetsExt

CONSTANTS
  Bits,            \* the width of an operand
  Half,            \* the size of a nibble: AF is the carry out of the low one
  Base,            \* of decimal arithmetic, a digit to a nibble
  Few,             \* bound: operands of instructions after the first
  Separately,      \* bound: flags that are read on their own
  MaxInstructions  \* bound

ConstantsOK == Bits \in Nat /\ Half * Half = 2 ^ Bits /\ Base \in 2 .. Half - 1 /\ Few \subseteq 0 .. Half * Half - 1

VARIABLES
  f,      \* the flags: eflags, how each is known (status), and the two entries
  ref,    \* history: the values each flag may have
  turned, \* history: the values that CF may have kept in a rotation by whole turns
  right,  \* history: the last result is the manual's
  digits, \* history: what AL and CF should be after the decimal adjustment of the last sum or difference
  done    \* instructions so far

vars == <<f, ref, turned, right, digits, done>>

Size == Half * Half
Byte == 0 .. Size - 1
Flag == {"CF", "PF", "AF", "ZF", "SF", "OF"}

Entry == [instr : {"none", "ADD", "ADC", "SUB", "SBB", "NEG", "LOGIC", "SHR", "SHL", "INC", "DEC"},
          op1 : Byte, op2 : Nat, result : Byte, prev_CF : BOOLEAN]

TypeOK ==
  /\ f.eflags \in [Flag -> BOOLEAN] /\ f.status \in [Flag -> {"known", "oszapc", "oszap"}]
  /\ f.oszapc \in Entry /\ f.oszap \in Entry
  /\ ref \in [Flag -> {{TRUE}, {FALSE}, BOOLEAN}] /\ turned \subseteq BOOLEAN /\ right \in BOOLEAN
  /\ digits \in {-1} \union 0 .. 2 * Base * Base /\ done \in 0 .. MaxInstructions

Bit(v, n) == (v \div 2 ^ n) % 2 = 1
Top(v) == v >= Size \div 2
Parity(v) == Cardinality({n \in 0 .. Bits - 1 : Bit(v, n)}) % 2 = 0
One(b) == IF b THEN 1 ELSE 0

Blank == [instr |-> "none", op1 |-> 0, op2 |-> 0, result |-> 0, prev_CF |-> FALSE]

\* After CLC or STC.
Init ==
  /\ \E c \in BOOLEAN :
       LET known == [x \in Flag |-> x = "CF" /\ c]
       IN  /\ f = [eflags |-> known, status |-> [x \in Flag |-> "known"], oszapc |-> Blank, oszap |-> Blank]
           /\ ref = [x \in Flag |-> {known[x]}]
  /\ turned = {} /\ right = TRUE /\ digits = -1 /\ done = 0

-----------------------------------------------------------------------------
(* A pending flag, from its entry. *)

Crossed(e, n) == (One(Bit(e.op1, n)) + One(Bit(e.op2, n)) + One(Bit(e.result, n))) % 2 = 1
HalfBit == CHOOSE n \in 0 .. Bits : 2 ^ n = Half

get_CFLazy(e) ==
  CASE e.instr = "ADD" -> e.result < e.op1
    [] e.instr = "ADC" -> e.result < e.op1 \/ (e.prev_CF /\ e.result = e.op1)
    [] e.instr = "SUB" -> e.op1 < e.op2
    [] e.instr = "SBB" -> e.op1 < e.result \/ (e.op2 = Size - 1 /\ e.prev_CF)
    [] e.instr = "NEG" -> e.op1 # 0
    [] e.instr = "SHR" -> Bit(e.op1, e.op2 - 1)
    [] e.instr = "SHL" -> e.op2 <= Bits /\ Bit(e.op1, Bits - e.op2)
    [] OTHER -> FALSE

get_AFLazy(e) ==
  CASE e.instr \in {"ADD", "ADC", "SUB", "SBB"} -> Crossed(e, HalfBit)
    [] e.instr = "NEG" -> e.op1 % Half > 0
    [] e.instr = "INC" -> e.result % Half = 0
    [] e.instr = "DEC" -> e.result % Half = Half - 1
    [] OTHER -> FALSE

\* For a shift by more than one, OF is the bit that is in eflags.
get_OFLazy(e, old) ==
  CASE e.instr \in {"ADD", "ADC"} -> Top(e.op1) = Top(e.op2) /\ Top(e.result) # Top(e.op2)
    [] e.instr \in {"SUB", "SBB"} -> Top(e.op1) # Top(e.op2) /\ Top(e.op1) # Top(e.result)
    [] e.instr = "NEG" -> e.op1 = Size \div 2
    [] e.instr = "SHR" -> IF e.op2 = 1 THEN Top(e.op1) ELSE old
    [] e.instr = "SHL" -> IF e.op2 = 1 THEN Top(e.op1) # Top(e.result) ELSE old
    [] e.instr = "INC" -> e.result = Size \div 2
    [] e.instr = "DEC" -> e.result = Size \div 2 - 1
    [] OTHER -> FALSE

get_ZFLazy(e) == e.result = 0
get_SFLazy(e) == Top(e.result)
get_PFLazy(e) == Parity(e.result)

get(k, x) ==
  LET e == IF k.status[x] = "oszapc" THEN k.oszapc ELSE k.oszap
  IN  IF k.status[x] = "known" THEN k.eflags[x]
      ELSE CASE x = "CF" -> get_CFLazy(e)
             [] x = "PF" -> get_PFLazy(e)
             [] x = "AF" -> get_AFLazy(e)
             [] x = "ZF" -> get_ZFLazy(e)
             [] x = "SF" -> get_SFLazy(e)
             [] x = "OF" -> get_OFLazy(e, k.eflags["OF"])

\* Reading a flag keeps what was computed.
Read(k, x) == [k EXCEPT !.eflags[x] = get(k, x), !.status[x] = "known"]
read_eflags(k) == FoldSet(LAMBDA x, r : Read(r, x), k, Flag)

-----------------------------------------------------------------------------
(* What instructions do to the flags. *)

SET_FLAGS_OSZAPC(k, instr, op1, op2, result, prev) ==
  [k EXCEPT !.oszapc = [instr |-> instr, op1 |-> op1, op2 |-> op2, result |-> result, prev_CF |-> prev],
            !.status = [x \in Flag |-> "oszapc"]]

AllInOszap(k, instr, result) ==
  [k EXCEPT !.oszap = [Blank EXCEPT !.instr = instr, !.result = result],
            !.status = [x \in Flag |-> "oszap"]]
SET_FLAGS_OSZAP(k, instr, result) ==
  [k EXCEPT !.oszap = [Blank EXCEPT !.instr = instr, !.result = result],
            !.status = [x \in Flag |-> IF x = "CF" THEN k.status[x] ELSE "oszap"]]

\* set_CF, set_AF, ..., of several flags.
StillPending(k, new) == [k EXCEPT !.eflags = [x \in Flag |-> IF x \in DOMAIN new THEN new[x] ELSE @[x]]]
SetFlags(k, new) ==
  [k EXCEPT !.eflags = [x \in Flag |-> IF x \in DOMAIN new THEN new[x] ELSE @[x]],
            !.status = [x \in Flag |-> IF x \in DOMAIN new THEN "known" ELSE @[x]]]

WithOF(count, new, of) ==
  [x \in DOMAIN new \union (IF count = 1 THEN {"OF"} ELSE {}) |-> IF x = "OF" THEN of ELSE new[x]]

ByResult(r) == [x \in {"ZF", "SF", "PF"} |-> CASE x = "ZF" -> r = 0 [] x = "SF" -> Top(r) [] x = "PF" -> Parity(r)]

-----------------------------------------------------------------------------
(* The manual. *)

Signed(v) == IF Top(v) THEN v - Size ELSE v
Fits(n) == n \in -(Size \div 2) .. Size \div 2 - 1

OfSum(a, b, c) ==
  [x \in Flag |->
     CASE x = "CF" -> a + b + c >= Size
       [] x = "AF" -> (a % Half) + (b % Half) + c >= Half
       [] x = "OF" -> ~Fits(Signed(a) + Signed(b) + c)
       [] OTHER -> ByResult((a + b + c) % Size)[x]]

OfDifference(a, b, c) ==
  [x \in Flag |->
     CASE x = "CF" -> a < b + c
       [] x = "AF" -> (a % Half) < (b % Half) + c
       [] x = "OF" -> ~Fits(Signed(a) - Signed(b) - c)
       [] OTHER -> ByResult((a - b - c) % Size)[x]]

\* Shifts and rotations by one, of a value and the carry, and their repetition.
One_SHL(w, x) == [v |-> (2 * x.v) % Size, c |-> Top(x.v)]
One_SHR(w, x) == [v |-> x.v \div 2, c |-> Bit(x.v, 0)]
One_SAR(w, x) == [v |-> (x.v \div 2) + (IF Top(x.v) THEN Size \div 2 ELSE 0), c |-> Bit(x.v, 0)]
One_ROL(w, x) == [v |-> ((2 * x.v) % Size) + One(Top(x.v)), c |-> Top(x.v)]
One_ROR(w, x) == [v |-> (x.v \div 2) + (IF Bit(x.v, 0) THEN Size \div 2 ELSE 0), c |-> Bit(x.v, 0)]
One_RCL(w, x) == [v |-> ((2 * x.v) % Size) + One(x.c), c |-> Top(x.v)]
One_RCR(w, x) == [v |-> (x.v \div 2) + (IF x.c THEN Size \div 2 ELSE 0), c |-> Bit(x.v, 0)]

Repeated(Step(_, _), v, c, count) == FoldSet(Step, [v |-> v, c |-> c], 1 .. count)

-----------------------------------------------------------------------------
(* An instruction: the new flags, the result, the exact values of flags and *)
(* the flags left undefined.  All other flags keep the values they have.    *)

Operands == IF done = 0 THEN Byte ELSE Few
Counts == IF done = 0 THEN 0 .. 4 * Bits - 1 ELSE {1, 2, Bits}

Exactly(exact, free) ==
  ref' = [x \in Flag |-> IF x \in DOMAIN exact THEN {exact[x]} ELSE IF x \in free THEN BOOLEAN ELSE ref[x]]

Performs(k, exact, free) ==
  /\ done < MaxInstructions /\ done' = done + 1
  /\ f' = k /\ Exactly(exact, free)

Completes(k, exact, free) ==
  /\ Performs(k, exact, free)
  /\ turned' = IF "CF" \in DOMAIN exact \union free THEN {} ELSE turned

Plain == right' = TRUE /\ digits' = -1
Carry == get(f, "CF")

Decimal(v) == v \div Half < Base /\ v % Half < Base
Digits(v) == (v \div Half) * Base + (v % Half)

ADD == \E a \in Operands, b \in Operands :
  LET r == (a + b) % Size
  IN  /\ Completes(SET_FLAGS_OSZAPC(f, "ADD", a, b, r, f.oszapc.prev_CF), OfSum(a, b, 0), {})
      /\ right' = TRUE /\ digits' = IF Decimal(a) /\ Decimal(b) THEN Digits(a) + Digits(b) ELSE -1

ADC == \E a \in Operands, b \in Operands :
  LET r == (a + b + One(Carry)) % Size
  IN  Completes(SET_FLAGS_OSZAPC(Read(f, "CF"), "ADC", a, b, r, Carry), OfSum(a, b, One(Carry)), {}) /\ Plain

\* SUB, CMP, CMPS and SCAS.
SUB == \E a \in Operands, b \in Operands :
  LET r == (a - b) % Size
  IN  /\ Completes(SET_FLAGS_OSZAPC(f, "SUB", a, b, r, f.oszapc.prev_CF), OfDifference(a, b, 0), {})
      /\ right' = TRUE
      /\ digits' = IF Decimal(a) /\ Decimal(b) THEN ((Digits(a) - Digits(b)) % (Base * Base)) + (IF a < b THEN Base * Base ELSE 0) ELSE -1

SBB == \E a \in Operands, b \in Operands :
  LET r == (a - b - One(Carry)) % Size
  IN  Completes(SET_FLAGS_OSZAPC(Read(f, "CF"), "SBB", a, b, r, Carry), OfDifference(a, b, One(Carry)), {}) /\ Plain

NEG == \E a \in Operands :
  LET r == (-a) % Size
  IN  Completes(SET_FLAGS_OSZAPC(f, "NEG", a, 0, r, f.oszapc.prev_CF), OfDifference(0, a, 0), {}) /\ Plain

\* AND, OR, XOR and TEST.
Logical == \E r \in Operands :
  Completes(SET_FLAGS_OSZAPC(f, "LOGIC", 0, 0, r, f.oszapc.prev_CF),
            [x \in Flag \ {"AF"} |-> IF x \in {"CF", "OF"} THEN FALSE ELSE ByResult(r)[x]], {"AF"}) /\ Plain

WithoutCF(exact) == [x \in Flag \ {"CF"} |-> exact[x]]

INC == \E a \in Operands :
  LET r == (a + 1) % Size
  IN  Completes(SET_FLAGS_OSZAP(f, "INC", r), WithoutCF(OfSum(a, 1, 0)), {}) /\ Plain
DEC == \E a \in Operands :
  LET r == (a - 1) % Size
  IN  Completes(SET_FLAGS_OSZAP(f, "DEC", r), WithoutCF(OfDifference(a, 1, 0)), {}) /\ Plain

CMPXCHG == \E a \in Operands, b \in Operands :
  LET r == (a - b) % Size
  IN  Completes(SetFlags(SET_FLAGS_OSZAPC(f, "SUB", a, b, r, f.oszapc.prev_CF), [x \in {"ZF"} |-> r = 0]),
                OfDifference(a, b, 0), {}) /\ Plain

-----------------------------------------------------------------------------
(* Shifts and rotations.  A count of 0 does nothing. *)

Shifted(want, r) == right' = (want.v = r) /\ digits' = -1

\* OF is defined for a count of one only.
OfShift(want, count, a) ==
  LET all == [x \in {"CF", "ZF", "SF", "PF"} |-> IF x = "CF" THEN want.c ELSE ByResult(want.v)[x]]
  IN  WithOF(count, all, Top(a) # Top(want.v))
OfRotation(want, count, a) == WithOF(count, [x \in {"CF"} |-> want.c], Top(a) # Top(want.v))

SHL == \E a \in Operands, count \in Counts \ {0} :
  LET r == (a * 2 ^ count) % Size
      want == Repeated(One_SHL, a, Carry, count)
  IN  /\ Completes(SET_FLAGS_OSZAPC(f, "SHL", a, count, r, f.oszapc.prev_CF), OfShift(want, count, a), {"OF", "AF"})
      /\ Shifted(want, r)

SHR == \E a \in Operands, count \in Counts \ {0} :
  LET r == a \div 2 ^ count
      want == Repeated(One_SHR, a, Carry, count)
  IN  /\ Completes(SET_FLAGS_OSZAPC(f, "SHR", a, count, r, f.oszapc.prev_CF), OfShift(want, count, a), {"OF", "AF"})
      /\ Shifted(want, r)

SAR == \E a \in Operands, count \in Counts \ {0} :
  LET sign == IF Top(a) THEN Size - 1 ELSE 0
      r == IF count < Bits THEN (a \div 2 ^ count) + sign - (sign \div 2 ^ count) ELSE sign
      new == [x \in {"CF", "ZF", "SF", "PF"} |->
                IF x # "CF" THEN ByResult(r)[x] ELSE IF count < Bits THEN Bit(a, count - 1) ELSE Top(a)]
      want == Repeated(One_SAR, a, Carry, count)
  IN  /\ Completes(SetFlags(f, WithOF(count, new, FALSE)), OfShift(want, count, a), {"OF", "AF"})
      /\ Shifted(want, r)

\* How far a rotation goes, without CF or with it.
TurnsCount(count) == count % Bits
ThroughCarryCount(count) == count % (Bits + 1)

\* The count is taken modulo the width.  A rotation by whole turns does not even
\* set CF, which the manual has be the bit that is moved last.
Turns(k, a, r, carry, n, want) ==
  /\ IF n = 0
     THEN /\ Performs(k, [x \in {"CF"} |-> want.c], {"OF"})
          /\ turned' = ref["CF"] \union turned
     ELSE Completes(SetFlags(k, WithOF(n, [x \in {"CF"} |-> carry], Top(a) # Top(r))), OfRotation(want, n, a), {"OF"})
  /\ Shifted(want, r)

ROL == \E a \in Operands, count \in Counts \ {0} :
  LET n == TurnsCount(count)
      r == ((a * 2 ^ n) % Size) + (a \div 2 ^ (Bits - n))
  IN  Turns(f, a, r, Bit(r, 0), n, Repeated(One_ROL, a, Carry, count))

ROR == \E a \in Operands, count \in Counts \ {0} :
  LET n == TurnsCount(count)
      r == (a \div 2 ^ n) + ((a * 2 ^ (Bits - n)) % Size)
  IN  Turns(f, a, r, Top(r), n, Repeated(One_ROR, a, Carry, count))

\* Modulo the width and the carry.
ThroughCarry(k, a, r, carry, n, want) ==
  /\ Completes(IF n = 0 THEN f ELSE SetFlags(k, WithOF(n, [x \in {"CF"} |-> carry], Top(a) # Top(r))),
               IF n = 0 THEN [x \in {} |-> FALSE] ELSE OfRotation(want, n, a), {"OF"})
  /\ Shifted(want, r)

RCL == \E a \in Operands, count \in Counts \ {0} :
  LET n == ThroughCarryCount(count)
      r == IF n = 0 THEN a
           ELSE ((a * 2 ^ n) % Size) + One(Carry) * 2 ^ (n - 1) + (a \div 2 ^ (Bits + 1 - n))
  IN  ThroughCarry(Read(f, "CF"), a, r, n # 0 /\ Bit(a, Bits - n), n, Repeated(One_RCL, a, Carry, count))

RCR == \E a \in Operands, count \in Counts \ {0} :
  LET n == ThroughCarryCount(count)
      r == IF n = 0 THEN a
           ELSE (a \div 2 ^ n) + One(Carry) * 2 ^ (Bits - n) + ((a * 2 ^ (Bits + 1 - n)) % Size)
  IN  ThroughCarry(Read(f, "CF"), a, r, n # 0 /\ Bit(a, n - 1), n, Repeated(One_RCR, a, Carry, count))

\* Of two operands; the manual defines counts up to the width.
Doubles(a, r, carry, count, want) ==
  LET new == [x \in {"CF", "ZF", "SF", "PF"} |-> IF x = "CF" THEN carry ELSE ByResult(r)[x]]
  IN  /\ Completes(SetFlags(f, WithOF(count, new, Top(a) # Top(r))), OfShift(want, count, a), {"OF", "AF"})
      /\ Shifted(want, r)

SHLD == \E a \in Operands, b \in Operands, count \in (Counts \intersect 1 .. Bits) :
  LET double == a * Size + b
      r == (((double * 2 ^ count) \div Size) % Size)
  IN  Doubles(a, r, Bit(double, 2 * Bits - count), count, [v |-> ((a * 2 ^ count) + (b \div 2 ^ (Bits - count))) % Size, c |-> Bit(a, Bits - count)])

SHRD == \E a \in Operands, b \in Operands, count \in (Counts \intersect 1 .. Bits) :
  LET double == b * Size + a
      r == (double \div 2 ^ count) % Size
  IN  Doubles(a, r, Bit(double, count - 1), count, [v |-> (a \div 2 ^ count) + ((b * 2 ^ (Bits - count)) % Size), c |-> Bit(a, count - 1)])

-----------------------------------------------------------------------------
(* The others. *)

\* CF and OF tell whether the high half of the product matters.
Product(high) ==
  Completes(SetFlags(f, [x \in {"CF", "OF"} |-> high]), [x \in {"CF", "OF"} |-> high], Flag \ {"CF", "OF"}) /\ Plain
MUL == \E a \in Operands, b \in Operands : Product((a * b) \div Size # 0)
IMUL == \E a \in Operands, b \in Operands :
  LET p == Signed(a) * Signed(b)
      upper == (p % (Size * Size)) \div (Size \div 2)
  IN  Product(upper \notin {0, 2 * Size - 1})

SAHF == \E bit \in BOOLEAN : LET new == [x \in Flag \ {"OF"} |-> bit] IN
  Completes(SetFlags(f, new), new, {}) /\ Plain
writeEFlags == \E bit \in BOOLEAN : LET new == [x \in Flag |-> bit] IN
  Completes(SetFlags(f, new), new, {}) /\ Plain
CMC ==
  /\ ref["CF"] # BOOLEAN
  /\ Performs(SetFlags(f, [x \in {"CF"} |-> ~Carry]), [x \in {"CF"} |-> TRUE \notin ref["CF"]], {})
  /\ turned' = {~b : b \in turned} /\ Plain

\* The first addition keeps to the size of a byte, and what it carries is lost.
DAA ==
  LET AL == f.oszapc.result
      low == AL % Half >= Base \/ get(f, "AF")
      a == IF low THEN (AL + (Half - Base)) % Size ELSE AL
      high == a > (Base - 1) * Half + Half - 1 \/ Carry
      r == IF high THEN (a + (Half - Base) * Half) % Size ELSE a
      new == [x \in Flag \ {"OF"} |-> CASE x = "AF" -> low [] x = "CF" -> high [] OTHER -> ByResult(r)[x]]
  IN  /\ digits >= 0 /\ f.oszapc.instr = "ADD" /\ f.status["AF"] = "oszapc"
      /\ Completes(SetFlags(f, new), new, {"OF"})
      /\ right' = ((low /\ AL + (Half - Base) >= Size) \/ (Digits(r) + One(high) * Base * Base = digits /\ Decimal(r)))
      /\ digits' = -1

DAS ==
  LET AL == f.oszapc.result
      low == AL % Half >= Base \/ get(f, "AF")
      borrow == low /\ (AL < Half - Base \/ Carry)
      a == IF low THEN (AL - (Half - Base)) % Size ELSE AL
      high == AL > (Base - 1) * Half + Base - 1 \/ Carry
      r == IF high THEN (a - (Half - Base) * Half) % Size ELSE a
      new == [x \in Flag \ {"OF"} |-> CASE x = "AF" -> low [] x = "CF" -> high \/ borrow [] OTHER -> ByResult(r)[x]]
  IN  /\ digits >= 0 /\ f.oszapc.instr = "SUB" /\ f.status["AF"] = "oszapc"
      /\ Completes(SetFlags(f, new), new, {"OF"})
      /\ right' = (Digits(r) + One(new["CF"]) * Base * Base = digits /\ Decimal(r)) /\ digits' = -1

\* A conditional instruction, LAHF or PUSHF.
\* What is undefined is settled when it is read.
Settled(x) == IF get(f, x) \in ref[x] THEN {get(f, x)} ELSE ref[x]
ReadsOne == \E x \in Separately :
  /\ done < MaxInstructions /\ f.status[x] # "known"
  /\ f' = Read(f, x) /\ ref' = [ref EXCEPT ![x] = Settled(x)] /\ UNCHANGED <<turned, right, digits, done>>
ReadsAll ==
  /\ done < MaxInstructions
  /\ \E x \in Flag : f.status[x] # "known"
  /\ f' = read_eflags(f) /\ ref' = [x \in Flag |-> Settled(x)] /\ UNCHANGED <<turned, right, digits, done>>

Next ==
  \/ ADD \/ ADC \/ SUB \/ SBB \/ NEG \/ Logical \/ INC \/ DEC \/ CMPXCHG
  \/ SHL \/ SHR \/ SAR \/ ROL \/ ROR \/ RCL \/ RCR \/ SHLD \/ SHRD
  \/ MUL \/ IMUL \/ SAHF \/ writeEFlags \/ CMC \/ DAA \/ DAS \/ ReadsOne \/ ReadsAll

Spec == Init /\ [][Next]_vars

-----------------------------------------------------------------------------
\* Whenever a flag is read, however many instructions after the one that
\* defined it and whatever was read in between, it has the value that the
\* manual gives it.  The one exception is CF after a rotation by whole turns, ROL
\* and ROR of a byte or a word: it may be what it was before (shift8.cc:53, 103).
FlagsAreExact ==
  \A x \in Flag : get(f, x) \in ref[x] \union (IF x = "CF" THEN turned ELSE {})

\* Shifts, rotations and decimal adjustments give the manual's result, but for
\* sums of which the adjustment of the low digit carries out of the byte.
OnlyWrappedSumsAreWrong == right
=============================================================================
