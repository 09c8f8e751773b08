------------------------------ MODULE VectorX86 ------------------------------
(***************************************************************************)
(* The vector instructions of x86-64: what the processor does and what     *)
(* lift/x86/simd.rs lowers them to.  An instruction is a record of its     *)
(* operation, the bytes of a lane, whether it is a VEX form, an argument   *)
(* of the operation, an immediate, and its operands, destination first.    *)
(***************************************************************************)
EXTENDS VectorFloats

CONSTANTS Block        \* the bytes of a permute block: 128 bits

Insn(op, k, vex, arg, operands) ==
    [op |-> op, k |-> k, vex |-> vex, arg |-> arg, imm |-> 0, operands |-> operands]
WithImm(x, n) == [x EXCEPT !.imm = n]
Dst(x) == x.operands[1]
\* The two-operand form reads its destination.
First(x) == x.operands[IF Len(x.operands) = 3 THEN 2 ELSE 1]
Second(x) == x.operands[Len(x.operands)]
Half == Byte - 1                    \* the bit of a byte that is its sign

----------------------------------------------------------------------------
\* The processor.

\* A legacy form leaves what is above the view alone, a VEX form clears it.
RealWrite(s, x, v) ==
    LET o == Dst(x)
        keep == [j \in DOMAIN s.regs[o.reg] |->
                    IF j < o.lo THEN s.regs[o.reg][j]
                    ELSE IF j - o.lo \in DOMAIN v THEN v[j - o.lo]
                    ELSE IF o.kind = "gpr" THEN 0
                    ELSE IF o.kind = "register" /\ (x.vex \/ j < o.lo + o.n) THEN 0
                    ELSE s.regs[o.reg][j]]
    IN  [s EXCEPT !.regs[o.reg] = keep]
RealLow(s, x, v) == [s EXCEPT !.regs[Dst(x).reg] = Splice(s.regs[Dst(x).reg], v, Dst(x).lo)]

BytesFrom(byte(_), n) == [j \in 0..(n - 1) |-> byte(j)]
ShuffledReal(x, a, n) ==
    LET per == Block \div x.k
        field(i) == (x.imm \div 4 ^ i) % 4
        lane(l) == LET i == l % per IN
                   l - i + (CASE x.arg = "all" -> field(i)
                              [] x.arg = "low" -> IF i < 4 THEN field(i) ELSE i
                              [] x.arg = "high" -> IF i >= 4 THEN 4 + field(i - 4) ELSE i)
    IN  BytesFrom(LAMBDA j : a[lane(j \div x.k) * x.k + (j % x.k)], n)
UnpackedReal(x, a, b, n) ==
    LET per == Block \div x.k
        from(l) == l - (l % per) + (IF x.arg = "high" THEN per \div 2 ELSE 0) + ((l % per) \div 2)
        lane(j) == j \div x.k
    IN  BytesFrom(LAMBDA j : (IF lane(j) % 2 = 0 THEN a ELSE b)[from(lane(j)) * x.k + (j % x.k)], n)
AlignedReal(x, a, b, n) ==
    LET byte(j) == LET i == (j % Block) + x.imm
                       base == j - (j % Block)
                   IN  CASE i < Block -> b[base + i]
                         [] i >= Block /\ i < 2 * Block -> a[base + i - Block]
                         [] OTHER -> 0
    IN  BytesFrom(byte, n)
ShuffledBytesReal(a, b, n) ==
    BytesFrom(LAMBDA j : IF b[j] >= 2 ^ Half THEN 0 ELSE a[j - (j % Block) + (b[j] % Block)], n)
PackedReal(x, a, b, n) ==
    LET per == Block \div x.k
        lane(l) == LET block == l \div (2 * per)
                       i == l % (2 * per)
                   IN  Within(Signed(Lane(IF i < per THEN a ELSE b, x.k, block * per + (i % per)),
                                     Bits(x.k)), x.arg, Bits(x.k) \div 2)
    IN  Concat(lane, x.k \div 2, (2 * n) \div x.k)
ShiftedBytesReal(x, a, n) ==
    LET byte(j) == LET i == IF x.arg = "left" THEN j - x.imm ELSE j + x.imm IN
                   IF i \div Block = j \div Block /\ i >= 0 THEN a[i] ELSE 0
    IN  BytesFrom(byte, n)
MaddReal(a, b, n) ==
    LET term(i) == Signed(Lane(a, 2, i), Bits(2)) * Signed(Lane(b, 2, i), Bits(2))
    IN  Concat(LAMBDA i : Pattern(term(2 * i) + term(2 * i + 1), Bits(4)), 4, n \div 4)
FpReal(f, a, b, k) ==
    CASE f = "fmax" -> IF IsNan(a, k) \/ IsNan(b, k) \/ ~Less(b, a, k) THEN b ELSE a
      [] f = "fmin" -> IF IsNan(a, k) \/ IsNan(b, k) \/ ~Less(a, b, k) THEN b ELSE a
      [] OTHER -> OrNan(Fp(f, a, b, k), X86Nan(a, b, k))
\* A NaN keeps the high bits of its payload.
ConvertReal(p, from, to, mode) ==
    IF ~IsNan(p, from) THEN Pack(Value(p, from), mode, to)
    ELSE LET payload == Quieted(p, from) % 2 ^ Fraction(from)
             moved == IF Fraction(to) > Fraction(from)
                      THEN payload * 2 ^ (Fraction(to) - Fraction(from))
                      ELSE payload \div 2 ^ (Fraction(from) - Fraction(to))
         IN  SignOf(p, from) * 2 ^ (Bits(to) - 1) + InfinityOf(to) + moved
MaskReal(arg, a, b, k) ==
    LET unordered == IsNan(a, k) \/ IsNan(b, k)
        hit == CASE arg.pred = "eq" -> Equal(a, b, k)
                 [] arg.pred = "lt" -> Less(a, b, k)
                 [] arg.pred = "le" -> Less(a, b, k) \/ Equal(a, b, k)
                 [] arg.pred = "unord" -> unordered
    IN  IF hit # arg.negated THEN Ones(Bits(k)) ELSE 0
\* The value of the destination's view.
PackedValue(x, a, b, n) ==
    CASE x.op = "move" -> b
      [] x.op = "bits" /\ x.arg # "andnot" -> ExactPacked(LaneOp(x.arg), a, b, 1)
      [] x.op = "bits" /\ x.arg = "andnot" -> Lanewise2(LAMBDA p, q : q - (p & q), a, b, 1)
      [] x.op \in {"int", "int1"} -> ExactPacked(x.arg, IF x.op = "int" THEN a ELSE b, b, x.k)
      [] x.op = "madd" -> MaddReal(a, b, n)
      [] x.op = "compare" -> Lanewise2(LAMBDA p, q : CompareLane(x.arg, p, q, Bits(x.k)), a, b, x.k)
      [] x.op = "shuffle" -> ShuffledReal(x, b, n)
      [] x.op = "unpack" -> UnpackedReal(x, a, b, n)
      [] x.op = "align" -> AlignedReal(x, a, b, n)
      [] x.op = "shuffleb" -> ShuffledBytesReal(a, b, n)
      [] x.op = "pack" -> PackedReal(x, a, b, n)
      [] x.op = "byteshift" -> ShiftedBytesReal(x, b, n)
      [] x.op = "laneshift" ->
            LET w == Bits(x.k)
                by == Lowest(x.imm, w)
            IN  Lanewise1(LAMBDA p : CASE x.arg = "shl" -> (p % 2 ^ (w - by)) * 2 ^ by
                                       [] x.arg = "shr" -> p \div 2 ^ by
                                       [] x.arg = "sar" -> Pattern(Signed(p, w) \div 2 ^ by, w),
                          b, x.k)
      [] x.op = "fp" -> Lanewise2(LAMBDA p, q : FpReal(x.arg, p, q, x.k), a, b, x.k)
      [] x.op = "fmask" -> Lanewise2(LAMBDA p, q : MaskReal(x.arg, p, q, x.k), a, b, x.k)
      [] x.op = "sqrt" -> Lanewise1(LAMBDA p : FpReal("fsqrt", p, p, x.k), b, x.k)
      [] x.op = "widen" ->
            Concat(LAMBDA i : ConvertReal(Lane(b, x.k, i), x.k, 2 * x.k, "even"), 2 * x.k, n \div (2 * x.k))
      [] x.op = "narrow" -> Concat(LAMBDA i : ConvertReal(Lane(b, x.k, i), x.k, x.k \div 2, x.arg), x.k \div 2, Count(b, x.k))
Packed == {"move", "bits", "int", "int1", "madd", "compare", "shuffle", "unpack", "align",
           "shuffleb", "pack", "byteshift", "laneshift", "fp", "fmask", "sqrt", "widen", "narrow"}
\* One lane of the destination changes; the VEX form with three operands takes
\* the others from the first source.
ScalarReal(s, x, lane) ==
    IF x.vex THEN RealWrite(s, x, Splice(OperandValue(s, First(x)), FromLane(lane, x.k), 0))
    ELSE RealLow(s, x, FromLane(lane, x.k))
LowLane(s, o, k) == Lane(Slice(s.regs[o.reg], o.lo, k), k, 0)
SignMask(v) ==
    LET n == Cardinality(DOMAIN v)
        sum[j \in 0..n] == IF j = 0 THEN 0 ELSE sum[j - 1] + (v[j - 1] \div 2 ^ Half) * 2 ^ (j - 1)
    IN  sum[n]
Execute(s, x) ==
    LET a == OperandValue(s, First(x))
        b == OperandValue(s, Second(x))
        p == LowLane(s, First(x), x.k)
        q == LowLane(s, Second(x), x.k)
        unordered == IsNan(p, x.k) \/ IsNan(q, x.k)
        w == Bits(Dst(x).n)
        v == Value(q, x.k)
        n == IF v.kind = "finite" THEN IntegralOf(v, x.arg) ELSE 2 ^ w
    IN  CASE x.op \in Packed -> RealWrite(s, x, PackedValue(x, a, b, Dst(x).n))
          [] x.op = "smove" ->
                IF Len(x.operands) = 2 /\ Second(x).kind = "memory" THEN RealWrite(s, x, FromLane(q, x.k))
                ELSE ScalarReal(s, x, q)
          [] x.op = "sfp" -> ScalarReal(s, x, FpReal(x.arg, p, q, x.k))
          [] x.op = "smask" -> ScalarReal(s, x, MaskReal(x.arg, p, q, x.k))
          [] x.op = "ssqrt" -> ScalarReal(s, x, FpReal("fsqrt", q, q, x.k))
          [] x.op = "movemask" -> RealWrite(s, x, FromLane(SignMask(b), Dst(x).n))
          [] x.op = "transfer" -> RealWrite(s, x, Slice(s.regs[Second(x).reg], Second(x).lo, x.k))
          [] x.op = "ptest" ->
                Set(s, [NoFlags EXCEPT !.ZF = BitOf(\A j \in DOMAIN b : (a[j] & b[j]) = 0),
                                       !.CF = BitOf(\A j \in DOMAIN b : b[j] = (a[j] & b[j]))])
          [] x.op = "fcompare" ->
                Set(s, [NoFlags EXCEPT !.ZF = BitOf(unordered \/ Equal(p, q, x.k)),
                                       !.PF = BitOf(unordered),
                                       !.CF = BitOf(unordered \/ Less(p, q, x.k))])
          [] x.op = "int2fp" ->
                RealLow(s, x, FromLane(Pack(FloatOf(Signed(Lane(b, Second(x).n, 0), Bits(Second(x).n))), "even", x.k), x.k))
          [] x.op = "fp2int" ->
                RealWrite(s, x, FromLane(IF n < Least(TRUE, w) \/ n > Greatest(TRUE, w)
                                         THEN 2 ^ (w - 1) ELSE Pattern(n, w), Dst(x).n))
          [] x.op = "fp2fp" ->
                RealLow(s, x, FromLane(ConvertReal(q, x.k, x.arg, "even"), x.arg))

----------------------------------------------------------------------------
\* What the instructions are lowered to.

\* Where the lanes of a permute come from: the first source, the second, or
\* nowhere.  A permute never leaves its block.
Pick(source, index) == [source |-> source, index |-> index]
PermuteBlocks(view) == view \div Block
PerBlock(k) == Block \div k
\* The picks of one block after the other.
Blocks(pick(_, _), k, view) ==
    [l \in 0..(PermuteBlocks(view) * PerBlock(k) - 1) |->
        pick((l \div PerBlock(k)) * PerBlock(k), l % PerBlock(k))]
FirstSelected(form) == IF form = "high" THEN 4 ELSE 0
ShufflePicks(form, selector, k, view) ==
    LET first == FirstSelected(form)
        within(lane) == IF lane >= first /\ lane - first < 4
                        THEN first + ((selector \div 4 ^ (lane - first)) % 4) ELSE lane
    IN  Blocks(LAMBDA base, lane : Pick("first", base + within(lane)), k, view)
AlignRightPicks(offset, view) ==
    Blocks(LAMBDA base, byte :
              IF byte + offset >= 2 * Block THEN Pick("zero", 0)
              ELSE Pick(IF byte + offset >= Block THEN "second" ELSE "first", base + ((byte + offset) % Block)),
           1, view)
UnpackPicks(high, k, view) ==
    Blocks(LAMBDA base, lane :
              Pick(IF lane % 2 = 0 THEN "first" ELSE "second",
                   base + (IF high THEN PerBlock(k) \div 2 ELSE 0) + (lane \div 2)), k, view)
PermutedValue(a, b, k, picks) ==
    [j \in 0..(k * Cardinality(DOMAIN picks) - 1) |->
        LET pick == picks[j \div k]
            at == pick.index * k + (j % k)
        IN  CASE pick.source = "first" -> a[at] [] pick.source = "second" -> b[at] [] OTHER -> 0]

\* Every byte chooses among those of its block by the low bits of its index.
ShuffledBytes(a, b, view) ==
    LET chosen(byte) ==
            LET base == (byte \div Block) * Block
                selector == b[byte] & (Block - 1)
            IN  CASE b[byte] = Unk -> Unk
                  [] b[byte] # Unk /\ (b[byte] \div 2 ^ Half) % 2 = 1 -> 0
                  [] OTHER -> a[base + selector]
    IN  [byte \in 0..(view - 1) |-> chosen(byte)]
PackedNarrow(a, b, k, view, signed) ==
    LET narrowed(l) ==
            LET per == PerBlock(k)
                block == l \div (2 * per)
                within == l % (2 * per)
                element == Lane(IF within < per THEN a ELSE b, k, block * per + (within % per))
            IN  IF element = Unk THEN Unk
                ELSE ClampToElement(Signed(element, Bits(k)), Bits(k) \div 2, signed)
    IN  [j \in 0..(view - 1) |-> ByteOf(narrowed(j \div (k \div 2)), j % (k \div 2))]
LiftPmaddwd(a, b, view) ==
    LET term(i) == Held(Signed(Lane(a, 2, i), Bits(2)) * Signed(Lane(b, 2, i), Bits(2)), Bits(4))
        unknown(i) == Unk \in {Lane(a, 2, i), Lane(b, 2, i)}
    IN  Concat(LAMBDA i : IF unknown(2 * i) \/ unknown(2 * i + 1) THEN Unk
                          ELSE Pattern(term(2 * i) + term(2 * i + 1), Bits(4)), 4, view \div 4)
SimdByteShift(left, v, bytes, view) ==
    [j \in 0..(view - 1) |->
        LET i == IF left THEN j - bytes ELSE j + bytes IN IF i \in 0..(view - 1) THEN v[i] ELSE 0]
SimdLaneShift(f, v, amount, k) ==
    LET w == Bits(k) IN
    Lanewise1(LAMBDA lane :
                IF amount >= w THEN (IF f = "sar" THEN Ashr(lane, w - 1, w) ELSE 0)
                ELSE CASE f = "shl" -> Shl(lane, amount, w) [] f = "shr" -> Lshr(lane, amount, w)
                       [] f = "sar" -> Ashr(lane, amount, w), v, k)
SimdBitwise(f, x, a, b) ==
    IF f = "xor" /\ First(x) = Second(x) THEN [j \in DOMAIN a |-> 0]
    ELSE IF f = "andnot" THEN Lanewise2(LAMBDA p, q : (p ^^ Ones(Byte)) & q, a, b, 1)
    ELSE PackedInt(LaneOp(f), a, b, 1)
FpMaskLane(arg, a, b, k) ==
    LET base == CASE arg.pred = "eq" -> Equal(a, b, k)
                  [] arg.pred = "lt" -> Less(a, b, k)
                  [] arg.pred = "le" -> Less(a, b, k) \/ Equal(a, b, k)
                  [] arg.pred = "unord" -> IsNan(a, k) \/ IsNan(b, k)
    IN  IF base # arg.negated THEN Ones(Bits(k)) ELSE 0
F16cLanes(v, from, to, view, mode) ==
    Concat(LAMBDA i : LET raw == Lane(v, from, i) IN
                      IF raw = Unk THEN Unk ELSE FpToFp(raw, from, to, mode),
           to, view \div Highest(from, to))

\* The operations whose result is the view of the destination.
LiftPackedInt(x, a, b, view) ==
    CASE x.op = "move" -> b
      [] x.op = "bits" -> SimdBitwise(x.arg, x, a, b)
      [] x.op = "int" -> PackedInt(x.arg, a, b, x.k)
      [] x.op = "int1" -> PackedInt(x.arg, b, b, x.k)
      [] x.op = "madd" -> LiftPmaddwd(a, b, view)
      [] x.op = "compare" -> Lanewise2(LAMBDA p, q : CompareLane(x.arg, p, q, Bits(x.k)), a, b, x.k)
      [] x.op = "shuffle" -> PermutedValue(b, b, x.k, ShufflePicks(x.arg, x.imm, x.k, view))
      [] x.op = "unpack" -> PermutedValue(a, b, x.k, UnpackPicks(x.arg = "high", x.k, view))
      [] x.op = "align" -> PermutedValue(b, a, 1, AlignRightPicks(x.imm, view))
      [] x.op = "shuffleb" -> ShuffledBytes(a, b, view)
      [] x.op = "pack" -> PackedNarrow(a, b, x.k, view, x.arg)
      [] x.op = "byteshift" -> SimdByteShift(x.arg = "left", b, x.imm, view)
      [] x.op = "laneshift" -> SimdLaneShift(x.arg, b, x.imm, x.k)
LiftPackedFp(x, a, b, view) ==
    CASE x.op = "fp" -> Lanewise2(LAMBDA p, q : FpLane(x.arg, p, q, x.k), a, b, x.k)
      [] x.op = "fmask" -> Lanewise2(LAMBDA p, q : FpMaskLane(x.arg, p, q, x.k), a, b, x.k)
      [] x.op = "sqrt" -> Lanewise1(LAMBDA p : FpLane("fsqrt", p, p, x.k), b, x.k)
      [] x.op = "widen" -> F16cLanes(b, x.k, 2 * x.k, view, "even")
      [] x.op = "narrow" -> F16cLanes(b, x.k, x.k \div 2, Second(x).n, x.arg)

\* The low lane from the second source and the rest of the view from the first.
VexMergeScalar(s, x, lane) == Splice(OperandValue(s, First(x)), FromLane(lane, x.k), 0)
LiftSseScalarMove(s, x, q) ==
    CASE Len(x.operands) = 3 -> WriteDst(s, Dst(x), VexMergeScalar(s, x, q), TRUE)
      [] Len(x.operands) = 2 /\ x.vex /\ Second(x).kind # "memory" -> Unsupported(s)
      [] OTHER -> IF Second(x).kind = "memory" /\ Dst(x).kind = "register"
                  THEN WriteDst(s, Dst(x), FromLane(q, x.k), TRUE)
                  ELSE WriteLane(s, Dst(x), q, x.k, 0)
\* A scalar result merges, or takes the rest of the view from its first source.
LiftScalar(s, x, lane) ==
    IF x.vex THEN WriteDst(s, Dst(x), VexMergeScalar(s, x, lane), TRUE)
    ELSE WriteLane(s, Dst(x), lane, x.k, 0)
LiftSimdFpCompare(s, p, q, k) ==
    LET unordered == IsNan(p, k) \/ IsNan(q, k) IN
    IF Unk \in {p, q} THEN Set(s, [NoFlags EXCEPT !.ZF = Unk, !.PF = Unk, !.CF = Unk])
    ELSE Set(s, [NoFlags EXCEPT !.ZF = BitOf(unordered \/ Equal(p, q, k)), !.PF = BitOf(unordered),
                                !.CF = BitOf(unordered \/ Less(p, q, k))])
LiftSimdVectorTest(s, dst, src) ==
    LET known == \A j \in DOMAIN src : Unk \notin {src[j], dst[j]} IN
    Set(s, [NoFlags EXCEPT
        !.ZF = IF known THEN BitOf(\A j \in DOMAIN src : (src[j] & dst[j]) = 0) ELSE Unk,
        !.CF = IF known THEN BitOf(\A j \in DOMAIN src : (src[j] & (dst[j] ^^ Ones(Byte))) = 0) ELSE Unk])
\* The sign bits of the bytes; an unknown one frees the register.
LiftSimdMoveMask(s, x, v) ==
    WriteDst(s, Dst(x), FromLane(IF \E j \in DOMAIN v : v[j] = Unk THEN Unk ELSE SignMask(v), Dst(x).n), TRUE)
\* Between a vector and a general register: what is copied is extended with
\* zeros to the view it goes to.
LiftSimdGprTransfer(s, x) ==
    LET whole == OperandValue(s, Second(x))
        value == IF Second(x).n <= x.k THEN whole ELSE Slice(whole, 0, x.k)
    IN  WriteDst(s, Dst(x), ZeroExt(value, Highest(x.k, Dst(x).n)), x.vex)
LiftFpToInt(s, x, q) ==
    WriteDst(s, Dst(x), FromLane(IF q = Unk THEN Unk
                                 ELSE FpToSbv(Value(q, x.k), x.arg, Bits(Dst(x).n)), Dst(x).n), TRUE)
LiftIntToFp(s, x, b) ==
    LET int == Lane(b, Second(x).n, 0) IN
    WriteLane(s, Dst(x), IF int = Unk THEN Unk
                         ELSE Pack(FloatOf(Signed(int, Bits(Second(x).n))), "even", x.k), x.k, 0)
LiftFpToFp(s, x, q) == WriteLane(s, Dst(x), IF q = Unk THEN Unk ELSE FpToFp(q, x.k, x.arg, "even"), x.arg, 0)

LiftInstruction(s, x) ==
    LET view == ViewWidth(x.operands)
        a == OperandValue(s, First(x))
        b == OperandValue(s, Second(x))
        p == LowLane(s, First(x), x.k)
        q == LowLane(s, Second(x), x.k)
        both(v) == IF Unk \in {p, q} THEN Unk ELSE v
    IN  CASE x.op \in {"fp", "fmask", "sqrt"} -> WriteDst(s, Dst(x), LiftPackedFp(x, a, b, view), x.vex)
          [] x.op \in {"widen", "narrow"} -> WriteDst(s, Dst(x), LiftPackedFp(x, a, b, view), TRUE)
          [] x.op \in Packed \ {"fp", "fmask", "sqrt", "widen", "narrow"} ->
                WriteDst(s, Dst(x), LiftPackedInt(x, a, b, view), x.vex)
          [] x.op = "smove" -> LiftSseScalarMove(s, x, q)
          [] x.op = "sfp" -> LiftScalar(s, x, both(FpLane(x.arg, p, q, x.k)))
          [] x.op = "smask" -> LiftScalar(s, x, both(FpMaskLane(x.arg, p, q, x.k)))
          [] x.op = "ssqrt" -> LiftScalar(s, x, IF q = Unk THEN Unk ELSE FpLane("fsqrt", q, q, x.k))
          [] x.op = "movemask" -> LiftSimdMoveMask(s, x, b)
          [] x.op = "transfer" -> LiftSimdGprTransfer(s, x)
          [] x.op = "ptest" -> LiftSimdVectorTest(s, a, b)
          [] x.op = "fcompare" -> LiftSimdFpCompare(s, p, q, x.k)
          [] x.op = "int2fp" -> LiftIntToFp(s, x, b)
          [] x.op = "fp2int" -> LiftFpToInt(s, x, q)
          [] x.op = "fp2fp" -> LiftFpToFp(s, x, q)
=============================================================================
