----------------------------- MODULE VectorLanes -----------------------------
(***************************************************************************)
(* Vector registers, the views that operands have of them, the lanes that  *)
(* tile a view, and what is computed in a lane.                            *)
(*                                                                         *)
(* A register, and the memory an operand names, is a function from byte    *)
(* positions to bytes, and a byte has Byte bits.  A lane is k bytes, least *)
(* significant first.  An operand names its parent, the first byte of its  *)
(* view and how many bytes the view has.  Unk is a byte, or a lane, that   *)
(* the statements leave free.                                              *)
(***************************************************************************)
EXTENDS Integers, Sequences, FiniteSets, Bitwise

CONSTANTS
    Byte,          \* the bits of a byte
    AmountBits     \* how much of a lane a shift by register reads

Unk == -1
Bits(k) == k * Byte
Ones(w) == 2 ^ w - 1
Pattern(n, w) == n % 2 ^ w
Signed(x, w) == IF x >= 2 ^ (w - 1) THEN x - 2 ^ w ELSE x
Ext(x, w, signed) == IF signed THEN Signed(x, w) ELSE x
\* A number as a lane of that width holds it.
Held(n, wide) == Signed(Pattern(n, wide), wide)
Lowest(a, b) == IF a < b THEN a ELSE b
Highest(a, b) == IF a > b THEN a ELSE b

----------------------------------------------------------------------------
\* Views and lanes.

View(reg, lo, n) == [kind |-> "register", reg |-> reg, lo |-> lo, n |-> n]
General(reg, n) == [View(reg, 0, n) EXCEPT !.kind = "gpr"]
Memory(reg, lo, n) == [View(reg, lo, n) EXCEPT !.kind = "memory"]

\* extract_lane and concat_lanes.
Lane(v, k, i) ==
    LET byte(j) == v[k * i + j]
        sum[j \in 0..k] == IF j = 0 THEN 0 ELSE sum[j - 1] + byte(j - 1) * 2 ^ Bits(j - 1)
    IN  IF \E j \in 0..(k - 1) : byte(j) = Unk THEN Unk ELSE sum[k]
ByteOf(x, j) == IF x = Unk THEN Unk ELSE Pattern(x \div 2 ^ Bits(j), Byte)
Slice(v, lo, n) == [j \in 0..(n - 1) |-> v[lo + j]]
FromLane(x, k) == [j \in 0..(k - 1) |-> ByteOf(x, j)]
Concat(lane(_), k, count) ==
    LET lanes == [i \in 0..(count - 1) |-> lane(i)]
    IN  [j \in 0..(k * count - 1) |-> ByteOf(lanes[j \div k], j % k)]
Count(v, k) == Cardinality(DOMAIN v) \div k
ZeroExt(v, n) == [j \in 0..(n - 1) |-> IF j \in DOMAIN v THEN v[j] ELSE 0]

\* What a lane computes of unknown lanes is unknown.
Lanewise1(f(_), v, k) ==
    Concat(LAMBDA i : LET x == Lane(v, k, i) IN IF x = Unk THEN Unk ELSE f(x), k, Count(v, k))
Lanewise2(f(_, _), v, u, k) ==
    Concat(LAMBDA i : LET x == Lane(v, k, i)
                          y == Lane(u, k, i)
                      IN  IF x = Unk \/ y = Unk THEN Unk ELSE f(x, y), k, Count(v, k))
Lanewise3(f(_, _, _), v, u, t, k) ==
    Concat(LAMBDA i : LET x == Lane(v, k, i)
                          y == Lane(u, k, i)
                          z == Lane(t, k, i)
                      IN  IF Unk \in {x, y, z} THEN Unk ELSE f(x, y, z), k, Count(v, k))

----------------------------------------------------------------------------
\* Reading and writing operands.

OperandValue(s, o) == Slice(s.regs[o.reg], o.lo, o.n)
ViewWidth(ops) ==
    LET regs == {i \in DOMAIN ops : ops[i].kind = "register"}
    IN  IF regs = {} THEN ops[1].n ELSE ops[CHOOSE i \in regs : \A j \in regs : i <= j].n
Splice(parent, v, lo) ==
    [j \in DOMAIN parent |-> IF j - lo \in DOMAIN v THEN v[j - lo] ELSE parent[j]]
WriteLane(s, o, x, k, i) ==
    [s EXCEPT !.regs[o.reg] = Splice(s.regs[o.reg], FromLane(x, k), o.lo + k * i)]
WriteDst(s, o, v, zero_upper) ==
    LET parent == s.regs[o.reg] IN
    [s EXCEPT !.regs[o.reg] =
        IF o.kind = "gpr" \/ (o.kind = "register" /\ zero_upper) THEN ZeroExt(v, Cardinality(DOMAIN parent))
        ELSE Splice(parent, v, o.lo)]
Unsupported(s) == [s EXCEPT !.hole = TRUE]
NoFlags == [ZF |-> 0, PF |-> 0, CF |-> 0, OF |-> 0, SF |-> 0]
Set(s, flags) == [s EXCEPT !.flags = flags]
BitOf(b) == IF b THEN 1 ELSE 0

----------------------------------------------------------------------------
\* Integer lanes, as they are lowered: in a lane with two bits to spare.

Headroom == 2

LaneOp(f) == [f |-> f, signed |-> FALSE, sub |-> FALSE, round |-> FALSE]
SignedOp(f) == [LaneOp(f) EXCEPT !.signed = TRUE]
Subtracting(op) == [op EXCEPT !.sub = TRUE]
Rounding(op) == [op EXCEPT !.round = TRUE]

Least(signed, w) == IF signed THEN -(2 ^ (w - 1)) ELSE 0
Greatest(signed, w) == IF signed THEN 2 ^ (w - 1) - 1 ELSE Ones(w)
ClampToElement(n, narrow, signed) ==
    Pattern(Highest(Least(signed, narrow), Lowest(n, Greatest(signed, narrow))), narrow)
WideCombination(op, a, b, w) ==
    LET x == Ext(a, w, op.signed)
        y == Ext(b, w, op.signed)
    IN  IF op.sub THEN x - y ELSE x + y
SaturatingLane(op, a, b, w) ==
    ClampToElement(Held(WideCombination(op, a, b, w), w + Headroom), w, op.signed)
HalvingLane(op, a, b, w) ==
    LET raw == WideCombination(op, a, b, w) + (IF op.round THEN 1 ELSE 0)
    IN  Pattern(Held(raw, w + Headroom) \div 2, w)
MultiplyHighLane(op, a, b, w) ==
    Pattern(Ext(a, w, op.signed) * Ext(b, w, op.signed), 2 * w) \div 2 ^ w
MinMaxLane(op, a, b, w) ==
    LET below(x, y) == Ext(x, w, op.signed) < Ext(y, w, op.signed)
    IN  IF (op.f = "max" /\ below(b, a)) \/ (op.f = "min" /\ below(a, b)) THEN a ELSE b
\* A product modulo 2 ^ w, half of b at a time.
Times(a, b, w) ==
    LET h == 2 ^ (w \div 2)
    IN  Pattern(a * (b % h) + ((a * (b \div h)) % (2 ^ w \div h)) * h, w)
PackedIntLane(op, a, b, w) ==
    CASE op.f = "add" -> Pattern(a + b, w)          [] op.f = "sub" -> Pattern(a - b, w)
      [] op.f = "mul" -> Times(a, b, w)           [] op.f = "and" -> a & b
      [] op.f = "or" -> a | b                       [] op.f = "xor" -> a ^^ b
      [] op.f = "bic" -> a & (b ^^ Ones(w))         [] op.f = "not" -> a ^^ Ones(w)
      [] op.f = "orn" -> a | (b ^^ Ones(w))
      [] op.f = "copy" -> a                         [] op.f = "neg" -> Pattern(0 - a, w)
      [] op.f = "abs" -> IF Signed(a, w) < 0 THEN Pattern(0 - a, w) ELSE a
      [] op.f = "signflip" -> a ^^ (2 ^ (w - 1))      [] op.f = "signclear" -> a & Ones(w - 1)
      [] op.f \in {"max", "min"} -> MinMaxLane(op, a, b, w)
      [] op.f = "sat" -> SaturatingLane(op, a, b, w)
      [] op.f = "halve" -> HalvingLane(op, a, b, w)
      [] op.f = "mulhigh" -> MultiplyHighLane(op, a, b, w)
LaneIndependent == {"and", "or", "xor", "bic", "orn", "not", "copy"}
\* The bitwise family is applied to the whole view at once.
PackedInt(op, a, b, k) ==
    LET size == IF op.f \in LaneIndependent THEN 1 ELSE k
    IN  Lanewise2(LAMBDA x, y : PackedIntLane(op, x, y, Bits(size)), a, b, size)

CompareLane(kind, a, b, w) ==
    LET x == Ext(a, w, kind.signed)
        y == Ext(b, w, kind.signed)
        hit == CASE kind.f = "eq" -> a = b
                 [] kind.f = "gt" -> y < x
                 [] kind.f = "ge" -> y <= x
                 [] kind.f = "tst" -> (a & b) # 0
    IN  IF hit THEN Ones(w) ELSE 0

----------------------------------------------------------------------------
\* Shifts.

Shl(x, n, w) == IF n >= w THEN 0 ELSE Pattern(x, w - n) * 2 ^ n
Lshr(x, n, w) == IF n >= w THEN 0 ELSE x \div 2 ^ n
Ashr(x, n, w) == Pattern(Signed(x, w) \div 2 ^ Lowest(n, w), w)
ShiftRightLane(signed, x, n, w) == IF signed THEN Ashr(x, n, w) ELSE Lshr(x, n, w)
\* Half of what is shifted out is added first, in a lane one bit wider.
RoundingShiftRightLane(signed, x, n, w) ==
    LET wide == w + 1
        half == Shl(1, Pattern(n - 1, wide), wide)
        sum == Pattern(Pattern(Ext(x, w, signed), wide) + half, wide)
    IN  Pattern(ShiftRightLane(signed, sum, n, wide), w)
\* The low bits of the amount are read as signed, and a negative one shifts
\* right.
ShiftRegisterLane(signed, x, raw, w) ==
    LET amount == IF w > AmountBits
                  THEN Pattern(Signed(Pattern(raw, AmountBits), AmountBits), w) ELSE raw
    IN  IF Signed(amount, w) < 0
        THEN ShiftRightLane(signed, x, Pattern(0 - amount, w), w)
        ELSE Shl(x, amount, w)
SaturatingShiftLeftLane(signed, x, n, w) ==
    ClampToElement(Held(Ext(x, w, signed) * 2 ^ n, 2 * w + 1), w, signed)
ShiftImmediateLane(op, acc, x, n, w) ==
    LET shifted == CASE op.f = "shl" -> Shl(x, n, w)
                     [] op.f = "shr" /\ op.round -> RoundingShiftRightLane(op.signed, x, n, w)
                     [] op.f = "shr" /\ ~op.round -> ShiftRightLane(op.signed, x, n, w)
    IN  IF op.acc THEN Pattern(acc + shifted, w) ELSE shifted

----------------------------------------------------------------------------
\* The same lanes as the manuals define them: in exact arithmetic.

Within(n, signed, w) ==
    Pattern(CASE n < Least(signed, w) -> Least(signed, w)
              [] n > Greatest(signed, w) -> Greatest(signed, w)
              [] OTHER -> n, w)
ExactInt(op, a, b, w) ==
    LET x == Ext(a, w, op.signed)
        y == Ext(b, w, op.signed)
        exact == IF op.sub THEN x - y ELSE x + y
    IN  CASE op.f = "max" -> Pattern(Highest(x, y), w)
          [] op.f = "min" -> Pattern(Lowest(x, y), w)
          [] op.f = "abs" -> Pattern(Highest(Signed(a, w), -Signed(a, w)), w)
          [] op.f = "sat" -> Within(exact, op.signed, w)
          [] op.f = "halve" /\ op.round -> Pattern((exact + 1) \div 2, w)
          [] op.f = "halve" /\ ~op.round -> Pattern(exact \div 2, w)
          [] op.f = "mulhigh" -> Pattern((x * y) \div 2 ^ w, w)
          [] op.f = "signflip" -> Pattern(a + 2 ^ (w - 1), w)
          [] op.f = "signclear" -> a % 2 ^ (w - 1)
          [] op.f = "not" -> Ones(w) - a
          [] op.f = "bic" -> a - (a & b)
          [] op.f = "orn" -> Ones(w) - (b - (a & b))
          [] OTHER -> PackedIntLane(op, a, b, w)
ExactPacked(op, a, b, k) == Lanewise2(LAMBDA x, y : ExactInt(op, x, y, Bits(k)), a, b, k)
\* A shift to the right by n, rounded when asked.
ExactShiftRight(signed, round, x, n, w) ==
    LET v == Ext(x, w, signed) IN
    IF n = 0 THEN x
    ELSE Pattern((IF round THEN v + 2 ^ (n - 1) ELSE v) \div 2 ^ n, w)
ExactShiftRegister(signed, saturating, round, x, raw, w) ==
    LET n == Signed(Pattern(raw, Lowest(w, AmountBits)), Lowest(w, AmountBits))
        left == Ext(x, w, signed) * 2 ^ Lowest(n, w)
    IN  IF n < 0 THEN ExactShiftRight(signed, round, x, Lowest(-n, w + 1), w)
        ELSE IF saturating THEN Within(left, signed, w) ELSE Pattern(left, w)
=============================================================================
