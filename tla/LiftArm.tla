------------------------------- MODULE LiftArm -------------------------------
(***************************************************************************)
(* What the two instruction sets of ARM share: the barrel shifter, the     *)
(* carry kept in x86 polarity, the data-processing instructions.  The      *)
(* processor is written after the manual's pseudocode, the lifter after    *)
(* its source.                                                             *)
(***************************************************************************)
EXTENDS LiftMachine, TLC

CONSTANTS
    Arm32,         \* whether the set is AArch32
    AmountMask     \* the low byte of a register that holds a shift amount

NoSpec == [kind |-> "none"]
Rrx == [kind |-> "rrx"]
By(op, amount) == [kind |-> "by", op |-> op, amount |-> amount]
Extend(bits, signed, amount) ==
    [kind |-> "extend", bits |-> bits, signed |-> signed, amount |-> amount]
Insn(op, s, operands) ==
    [op |-> op, s |-> s, operands |-> operands, spec |-> NoSpec, cond |-> "al",
     at |-> 0, thumb |-> FALSE]
Spec2(x, spec) == [x EXCEPT !.spec = spec]
Mem(base, off, mode) == [kind |-> "memory", base |-> base, off |-> off, mode |-> mode]

----------------------------------------------------------------------------
\* The processor: ConditionPassed, Shift_C, AddWithCarry.

C(s) == 1 - s.flags.CF
Passed(f, cond) ==
    LET c == f.CF = 0
        z == f.ZF = 1
        n == f.SF = 1
        v == f.OF = 1
    IN  CASE cond = "eq" -> z              [] cond = "ne" -> ~z
          [] cond = "hs" -> c              [] cond = "lo" -> ~c
          [] cond = "mi" -> n              [] cond = "pl" -> ~n
          [] cond = "vs" -> v              [] cond = "vc" -> ~v
          [] cond = "hi" -> c /\ ~z        [] cond = "ls" -> ~(c /\ ~z)
          [] cond = "ge" -> n = v          [] cond = "lt" -> n # v
          [] cond = "gt" -> n = v /\ ~z    [] cond = "le" -> ~(n = v /\ ~z)
          [] cond = "al" -> TRUE

\* A value shifted, and the last bit to leave it.
ShiftC(a, op, n, c, w) ==
    LET b == Bits[w]
        bit(i) ==
            CASE op = "lsl" -> IF i >= n THEN Bit(a, i - n) ELSE 0
              [] op = "lsr" -> IF i + n < b THEN Bit(a, i + n) ELSE 0
              [] op = "asr" -> IF i + n < b THEN Bit(a, i + n) ELSE Bit(a, b - 1)
              [] op = "ror" -> Bit(a, (i + n) % b)
        out ==
            CASE op = "lsl" -> IF n <= b THEN Bit(a, b - n) ELSE 0
              [] op = "lsr" -> IF n <= b THEN Bit(a, n - 1) ELSE 0
              [] op = "asr" -> IF n <= b THEN Bit(a, n - 1) ELSE Bit(a, b - 1)
              [] op = "ror" -> Bit(a, (n - 1) % b)
    IN  IF n = 0 THEN [v |-> a, c |-> c] ELSE [v |-> FromBits(bit, b), c |-> out]
AddWithCarry(a, b, c, w) ==
    [v |-> (a + b + c) % Modulus(w), c |-> (a + b + c) \div Modulus(w),
     o |-> Overflows(Signed(a, w) + Signed(b, w) + c, w)]

RealAt(s, o, w) ==
    CASE o.kind = "immediate" -> o.n % Modulus(w)
      [] o.kind = "register" /\ o.r = "xzr" -> 0
      [] OTHER -> PartOf(s, o) % Modulus(w)
\* Whether a comparison subtracts the least integer there is.
IsLeast(s, x) ==
    LET w == OperandWidth(x.operands[1]) IN RealAt(s, x.operands[2], w) = Modulus(w) \div 2
\* The second operand of an instruction, with its carry-out.
Operand2Real(s, x, i, w) ==
    LET a == RealAt(s, x.operands[i], w)
        p == x.spec
    IN  CASE p.kind = "none" -> [v |-> a, c |-> C(s)]
          [] p.kind = "rrx" -> [v |-> C(s) * 2 ^ (Bits[w] - 1) + a \div 2, c |-> a % 2]
          [] p.kind = "by" ->
                ShiftC(a, p.op,
                       IF p.amount.kind = "immediate" THEN p.amount.n
                       ELSE RealAt(s, p.amount, w) % (AmountMask + 1), C(s), w)
          [] p.kind = "extend" ->
                LET low == a % Modulus(p.bits) IN
                ShiftC((IF p.signed THEN Signed(low, p.bits) ELSE low) % Modulus(w),
                       "lsl", p.amount, C(s), w)

Logical == {"and", "bic", "orr", "orn", "eor", "eon", "mov", "mvn"}
RoundTowardsZero(a, b) ==
    LET abs(n) == IF n < 0 THEN -n ELSE n IN
    IF (a < 0) = (b < 0) THEN abs(a) \div abs(b) ELSE -(abs(a) \div abs(b))
\* What an instruction computes; only arithmetic has a carry of its own.
DataReal(op, a, b, c, w) ==
    LET plain(n) == [v |-> n % Modulus(w), c |-> 0, o |-> 0] IN
    CASE op = "add" -> AddWithCarry(a, b, 0, w)
      [] op = "adc" -> AddWithCarry(a, b, c, w)
      [] op = "sub" -> AddWithCarry(a, Complement(b, w), 1, w)
      [] op = "sbc" -> AddWithCarry(a, Complement(b, w), c, w)
      [] op = "rsb" -> AddWithCarry(b, Complement(a, w), 1, w)
      [] op = "and" -> plain(a & b)            [] op = "bic" -> plain(a & Complement(b, w))
      [] op = "orr" -> plain(a | b)            [] op = "orn" -> plain(a | Complement(b, w))
      [] op = "eor" -> plain(a ^^ b)           [] op = "eon" -> plain(Complement(a ^^ b, w))
      [] op = "mov" -> plain(b)                [] op = "mvn" -> plain(Complement(b, w))
      [] op = "mul" -> plain(Signed(a, w) * Signed(b, w))
      [] op = "udiv" -> plain(IF b = 0 THEN 0 ELSE a \div b)
      [] op = "sdiv" -> plain(IF b = 0 THEN 0 ELSE RoundTowardsZero(Signed(a, w), Signed(b, w)))

\* The flags of an instruction with S: AArch64 clears C and V after a logical
\* one, AArch32 takes C from the shifter and leaves V.
FlagsReal(s, op, r, c, w) ==
    LET old == s.flags
        kept == op = "mul" /\ Arm32
        logical == op \in Logical
    IN  [s EXCEPT !.flags =
            [ZF |-> Flag(r.v = 0), SF |-> Msb(r.v, w), PF |-> 0,
             CF |-> IF kept THEN old.CF ELSE IF logical THEN 1 - (IF Arm32 THEN c ELSE 0) ELSE 1 - r.c,
             OF |-> IF kept \/ (logical /\ Arm32) THEN old.OF ELSE r.o]]
WriteReal(s, o, v) ==
    LET l == Layout(o.view)
        old == s.regs[o.r]
    IN  IF o.r = "xzr" THEN s
        ELSE [s EXCEPT !.regs[o.r] =
                IF l.zero THEN v ELSE (old - Extract(old, l.hi, l.lo) * 2 ^ l.lo) + v * 2 ^ l.lo]

----------------------------------------------------------------------------
\* The lifter.

\* ARM's carry out of the pipeline's, and back: the pipeline keeps a borrow.
ArmCarry(f) == U1(f, 1 - f)
StoredCarry(c) == U1(c, 1 - c)

\* BinOp::apply, with the division and the shifts of SMT-LIB.
ApplyBv(op, a, b, w) ==
    LET big == b >= Bits[w] IN
    CASE op = "add" -> (a + b) % Modulus(w)    [] op = "sub" -> (a - b) % Modulus(w)
      [] op = "mul" -> (Signed(a, w) * Signed(b, w)) % Modulus(w)
      [] op = "and" -> a & b
      [] op = "or" -> a | b                    [] op = "xor" -> a ^^ b
      [] op = "udiv" -> IF b = 0 THEN Modulus(w) - 1 ELSE a \div b
      [] op = "sdiv" ->
            IF b = 0 THEN (IF Msb(a, w) = 1 THEN 1 ELSE Modulus(w) - 1)
            ELSE RoundTowardsZero(Signed(a, w), Signed(b, w)) % Modulus(w)
      [] op = "lsl" -> IF big THEN 0 ELSE (a * 2 ^ b) % Modulus(w)
      [] op = "lsr" -> IF big THEN 0 ELSE a \div 2 ^ b
      [] op = "asr" -> IF big THEN (IF Msb(a, w) = 1 THEN Modulus(w) - 1 ELSE 0)
                       ELSE (Signed(a, w) \div 2 ^ b) % Modulus(w)
      [] op = "ror" -> LET n == b % Bits[w] IN
                       a \div 2 ^ n + (a % 2 ^ n) * 2 ^ (Bits[w] - n)
Apply(op, a, b, w) == IF a = Unk \/ b = Unk THEN Unk ELSE ApplyBv(op, a, b, w)

ShiftAmount(env, amount, w) ==
    IF amount.kind = "immediate" THEN amount.n % Modulus(w)
    ELSE LET n == ReadAt(env, amount, w) IN U1(n, n & AmountMask)
RotateThroughCarry(env, v, w) ==
    LET c == ArmCarry(env.flags.CF) IN U2(c, v, (c * Modulus(w) + v) \div 2)
Shifted(x) == x.spec.kind # "none"

\* read_source_with_shift.
ReadSourceWithShift(env, x, i, w) ==
    LET v == ReadAt(env, x.operands[i], w)
        p == x.spec
    IN  CASE p.kind = "none" -> v
          [] p.kind = "rrx" -> RotateThroughCarry(env, v, w)
          [] p.kind = "by" -> Apply(p.op, v, ShiftAmount(env, p.amount, w), w)
          [] p.kind = "extend" ->
                LET narrow == U1(v, Extract(v, Bits[p.bits] - 1, 0))
                    wide == U1(narrow, (IF p.signed THEN Signed(narrow, p.bits) ELSE narrow) % Modulus(w))
                IN  Apply("lsl", wide, p.amount, w)

\* Flags as an instruction leaves them when it writes these and no others.
WithFlags(env, f) == [env EXCEPT !.flags = f @@ env.flags]
LogicalCarry(x) == IF Shifted(x) THEN "CF" :> Unk ELSE <<>>
ZeroSign(r, w) == ("ZF" :> Zf(r)) @@ ("SF" :> Sf(r, w))

\* aarch64_set_arith_flags.
SetArithFlags(env, x, op, a, b, r, w) ==
    LET logical == op \in {"and", "or", "xor"}
        carry ==
            CASE op = "sub" -> ("CF" :> U2(a, b, Flag(a < b))) @@ ("OF" :> Unk)
              [] logical /\ Arm32 -> LogicalCarry(x)
              [] logical /\ ~Arm32 -> ("CF" :> StoredCarry(0)) @@ ("OF" :> 0)
              [] op = "mul" /\ Arm32 -> <<>>
              [] OTHER -> ("CF" :> Unk) @@ ("OF" :> Unk)
    IN  WithFlags(env, carry @@ ZeroSign(r, w) @@ ("PF" :> Unk))

\* The result goes to a temporary first: the flags read the operands as they were.
EmitArith3(env, x, op, a, b, w) ==
    LET r == Apply(op, a, b, w)
        flagged == IF x.s THEN SetArithFlags(env, x, op, a, b, r, w) ELSE env
    IN  WriteRegister(flagged, x.operands[1], r)

\* sbc subtracts the borrow that is stored, adc adds its complement.
EmitCarryArith(env, x, op, a, b, w) ==
    LET term == IF op = "sub" THEN env.flags.CF ELSE ArmCarry(env.flags.CF)
        r == Apply(op, Apply(op, a, b, w), term, w)
        all == ZeroSign(r, w) @@ ("CF" :> Unk) @@ ("OF" :> Unk)
    IN  WriteRegister(IF x.s THEN WithFlags(env, all) ELSE env, x.operands[1], r)

LiftMov(env, x) ==
    LET dst == x.operands[1] IN
    WriteRegister(env, dst, ReadAt(env, x.operands[2], OperandWidth(dst)))
CompareFlags(a, b, w) ==
    ZeroSign(Apply("sub", a, b, w), w) @@ ("CF" :> U2(a, b, Flag(a < b))) @@ ("OF" :> Unk) @@ ("PF" :> Unk)
LiftCmp(env, x) ==
    LET w == BinopWidth(x.operands[1], x.operands[2])
    IN  WithFlags(env, CompareFlags(ReadAt(env, x.operands[1], w), ReadSourceWithShift(env, x, 2, w), w))
LiftTst(env, x) ==
    LET w == BinopWidth(x.operands[1], x.operands[2])
        r == Apply("and", ReadAt(env, x.operands[1], w), ReadSourceWithShift(env, x, 2, w), w)
    IN  WithFlags(env, ZeroSign(r, w) @@ ("PF" :> Unk)
                       @@ (IF Arm32 THEN LogicalCarry(x)
                           ELSE ("CF" :> StoredCarry(0)) @@ ("OF" :> 0)))

\* The predicate of a condition, in the names of x86.
Predicate(cond) ==
    CASE cond = "eq" -> "e"   [] cond = "ne" -> "ne"  [] cond = "hs" -> "ae" [] cond = "lo" -> "b"
      [] cond = "mi" -> "s"   [] cond = "pl" -> "ns"  [] cond = "vs" -> "o"  [] cond = "vc" -> "no"
      [] cond = "hi" -> "a"   [] cond = "ls" -> "be"  [] cond = "ge" -> "ge" [] cond = "lt" -> "l"
      [] cond = "gt" -> "g"   [] cond = "le" -> "le"
ArmConditions == {"eq", "ne", "hs", "lo", "mi", "pl", "vs", "vc", "hi", "ls", "ge", "lt", "gt", "le"}

\* A transferred value, widened to the register.
Widen(v, from, to, signed) ==
    U1(v, IF Bits[from] < Bits[to] /\ signed THEN Signed(v, from) % Modulus(to) ELSE v)
\* emit_writeback.
Writeback(env, access) ==
    IF access.wb
    THEN [env EXCEPT !.regs[access.base] = Apply("add", env.regs[access.base], access.delta, Ptr)]
    ELSE env

----------------------------------------------------------------------------
\* The registers that an operand names.
RegistersIn(o) ==
    CASE o.kind = "register" -> {o.r}
      [] o.kind = "memory" ->
            {o.base} \cup (IF o.off.kind = "immediate" THEN {} ELSE {o.off.r})
      [] OTHER -> {}
SpecRegisters(x) ==
    IF x.spec.kind = "by" THEN RegistersIn(x.spec.amount) ELSE {}
UsesFrom(x, first) ==
    UNION {RegistersIn(x.operands[i]) : i \in first..Len(x.operands)} \cup SpecRegisters(x)
AnyMemory(x) == \E i \in DOMAIN x.operands : x.operands[i].kind = "memory"
=============================================================================
