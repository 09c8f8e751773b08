------------------------------ MODULE VectorArm ------------------------------
(***************************************************************************)
(* What the two ARM instruction sets share: the operands of a vector       *)
(* instruction, the lanes the lowerings compute and the lanes the manual   *)
(* defines.  An instruction is a record of its operation, an argument of   *)
(* it, an immediate, whether it is the form of the upper half, and its     *)
(* operands, destination first.                                            *)
(***************************************************************************)
EXTENDS VectorFloats

RegisterBytes == 16

\* A vector of lanes of k bytes, one of its elements, a scalar register, a
\* general register, an immediate, and a list of registers.
Vector(reg, lanes, k) ==
    [kind |-> "vector", reg |-> reg, lo |-> 0, n |-> lanes * k, k |-> k, index |-> 0, list |-> <<reg>>]
At(o, lo) == [o EXCEPT !.lo = lo]
Element(reg, k, i) == [Vector(reg, 1, k) EXCEPT !.kind = "element", !.index = i]
Scalar(reg, k) == [Vector(reg, 1, k) EXCEPT !.kind = "scalar"]
Gpr(reg, n) == [Vector(reg, 1, n) EXCEPT !.kind = "gpr"]
Constant == [Vector("none", 1, 0) EXCEPT !.kind = "immediate"]
List(regs, lanes, k) == [Vector(regs[1], lanes, k) EXCEPT !.kind = "list", !.list = regs]

Arm(op, arg, operands) == [op |-> op, arg |-> arg, imm |-> 0, upper |-> FALSE, operands |-> operands]
By(x, n) == [x EXCEPT !.imm = n]
Upper(x) == [x EXCEPT !.upper = TRUE]
Op(x, i) == x.operands[i]
Is(o, kind) == o.kind = kind
LanesIn(o) == o.n \div o.k
Full(o) == o.n = RegisterBytes
SameArrangement(o, p) == Is(o, "vector") /\ Is(p, "vector") /\ o.k = p.k /\ o.n = p.n
\* uniform_shape: so many operands, all of the arrangement of the first.
Uniform(x, count) ==
    Len(x.operands) = count /\ \A i \in 1..count : SameArrangement(Op(x, i), Op(x, 1))
FloatLane(k) == k \in FloatLanes

ValueOf(s, o) == OperandValue(s, IF Is(o, "element") THEN At(o, o.lo + o.index * o.k) ELSE o)
LaneOf(s, o) == Lane(ValueOf(s, o), o.k, 0)
Of1(f(_), x) == IF x = Unk THEN Unk ELSE f(x)
Of2(f(_, _), x, y) == IF Unk \in {x, y} THEN Unk ELSE f(x, y)
Of3(f(_, _, _), x, y, z) == IF Unk \in {x, y, z} THEN Unk ELSE f(x, y, z)

----------------------------------------------------------------------------
\* Lanes, as they are lowered.

\* The comparison follows the sign of the value, not that of the range.
Clamp(n, wide, narrow, to) ==
    LET s == Held(n, wide)
        p == Pattern(n, wide)
    IN  Pattern(CASE to = "signed" -> Highest(Least(TRUE, narrow), Lowest(s, Greatest(TRUE, narrow)))
                  [] to = "unsigned" -> Lowest(p, Ones(narrow))
                  [] to = "signed_to_unsigned" -> Highest(0, Lowest(s, Ones(narrow))), narrow)
\* What a lane is computed with so that it does not overflow.
SaturatingOp(f, to) ==
    [f |-> f, to |-> to, sub |-> FALSE, round |-> FALSE, signed |-> to # "unsigned"]
SaturatingAddSub(op, a, b, w) ==
    LET x == Ext(a, w, op.signed)
        y == Ext(b, w, op.signed)
    IN  Clamp(IF op.sub THEN x - y ELSE x + y, w + 1, w, op.to)
HalvingAdd(op, a, b, w) ==
    LET sum == Pattern(Ext(a, w, op.signed) + Ext(b, w, op.signed) + (IF op.round THEN 1 ELSE 0), w + 1)
    IN  Pattern(ShiftRightLane(op.signed, sum, 1, w + 1), w)
\* Half of what is shifted out is added in a lane one bit wider than the source.
ShiftNarrowLane(op, a, shift, w) ==
    LET wide == 2 * w + 1
        half == IF op.round THEN 2 ^ (shift - 1) ELSE 0
        sum == Pattern(Ext(a, 2 * w, op.signed) + half, wide)
        shifted == ShiftRightLane(op.signed, sum, shift, wide)
    IN  IF op.to = "none" THEN Pattern(shifted, w) ELSE Clamp(shifted, wide, w, op.to)
SaturatingUnary(op, a, w) ==
    LET x == Signed(a, w) IN Clamp(IF op.sub \/ x < 0 THEN -x ELSE x, w + 1, w, "signed")
DoublingMultiplyHigh(op, a, b, w) ==
    LET wide == 2 * w + 1
        doubled == 2 * Signed(a, w) * Signed(b, w) + (IF op.round THEN 2 ^ (w - 1) ELSE 0)
    IN  Clamp(Signed(Ashr(Pattern(doubled, wide), w, wide), wide), wide, w, "signed")
\* The doubled product saturates before it is accumulated.
DoublingLong(combine, acc, a, b, w) ==
    LET n == w \div 2
        product == Clamp(2 * Signed(a, n) * Signed(b, n), w + 1, w, "signed")
    IN  CASE combine = "none" -> product
          [] combine = "add" -> Clamp(Signed(acc, w) + Signed(product, w), w + 1, w, "signed")
          [] combine = "sub" -> Clamp(Signed(acc, w) - Signed(product, w), w + 1, w, "signed")

\* The intermediate has room for half of the largest shift there is.
RoundedShiftRight(signed, round, x, n, w, most) ==
    LET wide == Highest(w, most) + 1
        half == Shl(1, Pattern(n - 1, wide), wide)
    IN  IF ~round THEN ShiftRightLane(signed, x, n, w)
        ELSE Pattern(ShiftRightLane(signed, Pattern(Ext(x, w, signed) + half, wide), n, wide), w)
\* Overflow is what shifting back does not restore.
SaturatingShiftLeft(signed, x, n, w) ==
    LET shifted == Shl(x, n, w)
        restored == ShiftRightLane(signed, shifted, n, w)
        bound == CASE ~signed -> Ones(w)
                   [] signed /\ Signed(x, w) < 0 -> 2 ^ (w - 1)
                   [] signed /\ Signed(x, w) >= 0 -> 2 ^ (w - 1) - 1
    IN  IF restored = x THEN shifted ELSE bound
ShiftLeftUnsigned(x, n, w) == Clamp(Signed(x, w) * 2 ^ n, w + n + 1, w, "signed_to_unsigned")
RegisterShiftMax == 2 ^ (Byte - 1)
ShiftByRegister(op, x, raw, w) ==
    LET amount == IF w > Byte THEN Pattern(Signed(Pattern(raw, Byte), Byte), w) ELSE raw
        left == IF op.saturate THEN SaturatingShiftLeft(op.signed, x, amount, w) ELSE Shl(x, amount, w)
    IN  IF Signed(amount, w) < 0
        THEN RoundedShiftRight(op.signed, op.round, x, Pattern(0 - amount, w), w, RegisterShiftMax)
        ELSE left
\* The bits of the destination that the shift vacates stay.
ShiftInsertLane(left, acc, x, n, w) ==
    LET kept == IF left THEN Ones(n) ELSE Ones(w) ^^ Ones(w - n)
        shifted == IF left THEN Shl(x, n, w) ELSE Lshr(x, n, w)
    IN  shifted | (acc & kept)

BitSet(x, i) == (x \div 2 ^ i) % 2 = 1
LeadingZeros(x, w) ==
    LET below[i \in 0..w] == IF i = 0 THEN w ELSE IF BitSet(x, i - 1) THEN w - i ELSE below[i - 1]
    IN  below[w]
BitwiseUnaryLane(f, x, w) ==
    LET count[i \in 0..w] == IF i = 0 THEN 0 ELSE count[i - 1] + ((x \div 2 ^ (i - 1)) % 2)
        reversed[i \in 0..w] ==
            IF i = 0 THEN 0 ELSE 2 * reversed[i - 1] + ((x \div 2 ^ (i - 1)) % 2)
    IN  CASE f = "cnt" -> Pattern(count[w], w)
          [] f = "clz" -> LeadingZeros(x, w)
          [] f = "cls" -> LeadingZeros((x \div 2) ^^ (x % 2 ^ (w - 1)), w - 1)
          [] f = "rbit" -> reversed[w]
\* A fold of two lanes; the folds of floats are those of the manual.
Fold(f) == [f |-> f, signed |-> FALSE, number_wins |-> FALSE]
PairLane(op, a, b, k) ==
    CASE op.f = "add" -> Pattern(a + b, Bits(k))
      [] op.f = "fadd" -> FpLane("fadd", a, b, k)
      [] op.f \in {"max", "min"} -> MinMaxLane(op, a, b, Bits(k))
      [] op.f \in {"fmax", "fmin"} -> PropagatingMaxMin(op.f, op.number_wins, a, b, k)
AbsoluteDifferenceLane(signed, a, b, w) ==
    Pattern(IF Ext(a, w, signed) < Ext(b, w, signed) THEN b - a ELSE a - b, w)
FloatDifferenceLane(a, b, k) ==
    Of1(LAMBDA d : d & Ones(Bits(k) - 1), FpLane("fsub", a, b, k))
HighNarrowLane(sub, round, a, b, w) ==
    Pattern((IF sub THEN a - b ELSE a + b) + (IF round THEN 2 ^ (w - 1) ELSE 0), 2 * w) \div 2 ^ w
PolynomialProduct(a, b, n) ==
    LET sum[i \in 0..n] ==
            IF i = 0 THEN 0 ELSE sum[i - 1] ^^ (IF BitSet(b, i - 1) THEN a * 2 ^ (i - 1) ELSE 0)
    IN  sum[n]

\* A float rounded to an integer of its own format; the forms that saturate
\* give the most negative integer for what does not fit in so many bits.
RoundedTo(v, mode, k) ==
    CASE v.kind = "finite" /\ v.q >= 0 -> v
      [] v.kind = "finite" /\ v.q < 0 -> Finite(v.sign, RoundAt(v, 0, mode), 0)
      [] OTHER -> v
RoundToIntegralLane(x, k, mode, bits) ==
    LET v == Value(x, k)
        rounded == RoundedTo(v, mode, k)
        least == Finite(1, 2 ^ (bits - 1), 0)
    IN  IF bits = 0 THEN Pinned(Pack(rounded, "even", k))
        ELSE IF v.kind = "nan" \/ Below(rounded, least) \/ ~Below(rounded, Negated(least))
        THEN Pack(least, "even", k) ELSE Pack(rounded, "even", k)
\* The fraction bits are taken out, or put in, in the format of the lane.
Scaled(v, fbits, k, out) ==
    IF fbits = 0 \/ v.kind # "finite" THEN v
    ELSE Value(Pack([v EXCEPT !.q = v.q + (IF out THEN -fbits ELSE fbits)], "even", k), k)
IntToFloatLane(x, signed, from, fbits, k) ==
    LET v == Value(Pack(FloatOf(Ext(x, Bits(from), signed)), "even", k), k)
    IN  Pack(Scaled(v, fbits, k, TRUE), "even", k)
FloatToIntLane(x, signed, k, fbits, mode, w) == FloatToInt(Scaled(Value(x, k), fbits, k, FALSE), signed, mode, w)

----------------------------------------------------------------------------
\* Lanes, as the manual defines them.

RealFp(f, a, b, k) == OrNan(Fp(f, a, b, k), ArmNan(<<a, b>>, k))
\* FPMulX, FPMax, FPMin and the forms where a number wins over a quiet NaN.
RealMulx(a, b, k) ==
    IF (IsInfinite(a, k) /\ IsZero(b, k)) \/ (IsZero(a, k) /\ IsInfinite(b, k))
    THEN Pack(Finite((SignOf(a, k) + SignOf(b, k)) % 2, 2, 0), "even", k) ELSE RealFp("fmul", a, b, k)
RealMaxMin(f, number_wins, a, b, k) ==
    LET quiet(x) == IsNan(x, k) /\ ~Signalling(x, k)
        key(x) == IF SignOf(x, k) = 1 THEN -Magnitude(x, k) - 1 ELSE Magnitude(x, k)
        first == IF f = "fmax" THEN key(a) >= key(b) ELSE key(a) <= key(b)
    IN  CASE number_wins /\ quiet(a) /\ ~IsNan(b, k) -> b
          [] number_wins /\ quiet(b) /\ ~IsNan(a, k) -> a
          [] ~IsNan(a, k) /\ ~IsNan(b, k) -> IF first THEN a ELSE b
          [] OTHER -> ArmNan(<<a, b>>, k)
RealPair(op, a, b, k) ==
    CASE op.f = "add" -> Pattern(a + b, Bits(k))
      [] op.f = "fadd" -> RealFp("fadd", a, b, k)
      [] op.f \in {"max", "min"} -> ExactInt([LaneOp(op.f) EXCEPT !.signed = op.signed], a, b, Bits(k))
      [] op.f \in {"fmax", "fmin"} -> RealMaxMin(op.f, op.number_wins, a, b, k)
\* One rounding of the exact result; FPMulAdd takes the NaN of the addend
\* first, and the steps of Newton's method give 2 and 3/2 for 0 * infinity.
RealFused(f, acc, a, b, k) ==
    LET product == Product(Value(a, k), Value(b, k))
        minus == Negated(product)
        invalid == product.kind = "nan" /\ ~IsNan(a, k) /\ ~IsNan(b, k)
        value == CASE f = "fmla" -> Sum(Value(acc, k), product)
                   [] f = "fmls" -> Sum(Value(acc, k), minus)
                   [] f = "frecps" -> Sum(FloatOf(2), minus)
                   [] f = "frsqrts" -> Quotient(Sum(FloatOf(3), minus), FloatOf(2))
        flipped == IF f = "fmla" THEN a ELSE (a + 2 ^ (Bits(k) - 1)) % 2 ^ Bits(k)
    IN  CASE invalid /\ f = "frecps" -> Pack(FloatOf(2), "even", k)
          [] invalid /\ f = "frsqrts" -> Pack(Quotient(FloatOf(3), FloatOf(2)), "even", k)
          [] invalid /\ f \in {"fmla", "fmls"} /\ ~Signalling(acc, k) -> DefaultNan(0, k)
          [] OTHER -> OrNan(Pack(value, "even", k),
                            ArmNan(IF f \in {"fmla", "fmls"} THEN <<acc, flipped, b>> ELSE <<flipped, b>>, k))
RealRound(x, k, mode, bits) ==
    LET v == Value(x, k)
        n == IF v.kind = "finite" THEN IntegralOf(v, mode) ELSE 0
        rounded == IF n = 0 /\ v.kind = "finite" THEN v.sign * 2 ^ (Bits(k) - 1) ELSE Pack(FloatOf(n), "even", k)
    IN  CASE bits = 0 /\ IsNan(x, k) -> Quieted(x, k)
          [] bits = 0 /\ v.kind = "infinite" -> x
          [] bits = 0 /\ v.kind = "finite" -> rounded
          [] OTHER -> IF v.kind # "finite" \/ n < Least(TRUE, bits) \/ n > Greatest(TRUE, bits)
                      THEN Pack(FloatOf(Least(TRUE, bits)), "even", k) ELSE rounded
\* One rounding, of the number with its fraction bits.
RealIntToFloat(x, signed, from, fbits, k) ==
    LET v == FloatOf(Ext(x, Bits(from), signed)) IN Pack([v EXCEPT !.q = v.q - fbits], "even", k)
RealFloatToInt(x, signed, k, fbits, mode, w) ==
    LET v == Value(x, k) IN ArmFloatToInt([v EXCEPT !.q = v.q + fbits], signed, mode, w)
\* A NaN keeps the high bits of its payload.
RealFpToFp(x, from, to) ==
    LET payload == Quieted(x, from) % 2 ^ Fraction(from)
        moved == IF Fraction(to) > Fraction(from) THEN payload * 2 ^ (Fraction(to) - Fraction(from))
                 ELSE payload \div 2 ^ (Fraction(from) - Fraction(to))
    IN  IF IsNan(x, from) THEN SignOf(x, from) * 2 ^ (Bits(to) - 1) + InfinityOf(to) + moved
        ELSE Pack(Value(x, from), "even", to)
RealSaturating(op, a, b, shift, w) ==
    LET x == Ext(a, w, op.signed)
        y == Ext(b, w, op.signed)
        into(n) == Within(n, op.to # "unsigned" /\ op.to # "signed_to_unsigned", w)
        wide == Ext(a, 2 * w, op.signed)
        shifted == ((wide + (IF op.round THEN 2 ^ (shift - 1) ELSE 0)) \div 2 ^ shift)
    IN  CASE op.f = "addsub" -> into(IF op.sub THEN x - y ELSE x + y)
          [] op.f = "halve" -> Pattern((x + y + (IF op.round THEN 1 ELSE 0)) \div 2, w)
          [] op.f = "unary" -> into(IF op.sub THEN -x ELSE Highest(x, -x))
          [] op.f = "dmulh" -> into((2 * x * y + (IF op.round THEN 2 ^ (w - 1) ELSE 0)) \div 2 ^ w)
          [] op.f = "narrow" -> into(wide)
          [] op.f = "shiftnarrow" -> IF op.to = "none" THEN Pattern(shifted, w) ELSE into(shifted)
RealDoublingLong(combine, acc, a, b, w) ==
    LET n == w \div 2
        product == Signed(Within(2 * Signed(a, n) * Signed(b, n), TRUE, w), w)
        prior == Signed(acc, w)
    IN  Within(CASE combine = "none" -> product [] combine = "add" -> prior + product
                 [] combine = "sub" -> prior - product, TRUE, w)
RealBitwiseUnary(f, x, w) ==
    LET set == {i \in 0..(w - 1) : BitSet(x, i)}
        repeats(m) == \A i \in (w - 1 - m)..(w - 1) : BitSet(x, i) = BitSet(x, w - 1)
    IN  CASE f = "cnt" -> Cardinality(set)
          [] f = "clz" -> IF set = {} THEN w ELSE w - 1 - CHOOSE i \in set : \A j \in set : j <= i
          [] f = "cls" -> CHOOSE m \in 0..(w - 1) : repeats(m) /\ (m = w - 1 \/ ~repeats(m + 1))
          [] f = "rbit" -> CHOOSE y \in 0..Ones(w) : \A i \in 0..(w - 1) : BitSet(y, i) <=> BitSet(x, w - 1 - i)
\* The product of two polynomials with coefficients 0 and 1, modulo 2.
RealPolynomial(a, b, n) ==
    LET terms(i) == Cardinality({j \in 0..i : j < n /\ i - j < n /\ BitSet(a, j) /\ BitSet(b, i - j)})
        sum[i \in 0..(2 * n)] == IF i = 0 THEN 0 ELSE sum[i - 1] + (terms(i - 1) % 2) * 2 ^ (i - 1)
    IN  sum[2 * n]
=============================================================================
