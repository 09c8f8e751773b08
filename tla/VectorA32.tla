------------------------------ MODULE VectorA32 ------------------------------
(***************************************************************************)
(* Advanced SIMD and VFP of AArch32.  The element is named by the          *)
(* mnemonic, the lanes by the registers: d is half of a vector register,   *)
(* q the whole and s a quarter.  A write keeps what is outside its view.   *)
(* Advanced SIMD is taken to treat subnormals and NaNs as VFP does.        *)
(***************************************************************************)
EXTENDS VectorA64Scalar

D32(n, k) == At(Vector(RegisterFile[(n \div 2) + 1], 8 \div k, k), 8 * (n % 2))
Q32(n, k) == Vector(RegisterFile[n + 1], 16 \div k, k)
S32(n, k) == At(Vector(RegisterFile[(n \div 4) + 1], 4 \div k, k), 4 * (n % 4))
\* An element of a d register, of which n is the bytes of that element.
Element32(n, k, i) == [D32(n, k) EXCEPT !.kind = "element", !.n = k, !.index = i]
IsD(o) == Is(o, "vector") /\ o.n = 8
IsQ(o) == Is(o, "vector") /\ o.n = 16
IsS(o) == Is(o, "vector") /\ o.n = 4
\* A number a list writes once for each of its d registers.
Doublewords(numbers, k) == [D32(numbers[1], k) EXCEPT !.kind = "list", !.list = numbers]
DoublewordValue(s, n) == OperandValue(s, D32(n, 1))
Merge(s, o, v) == WriteDst(s, o, v, FALSE)

\* uniform_vector_view.
UniformView(x, count) ==
    /\ Len(x.operands) >= count
    /\ \A i \in 1..count : Is(Op(x, i), "vector") /\ Op(x, i).n = Dest(x).n
HasOperands(x, count) == Len(x.operands) = count
Indexed(o, k) == Is(o, "element") /\ o.k = k /\ o.index < 8 \div k

----------------------------------------------------------------------------
\* Shapes: permute.rs, select.rs, table.rs.

ExtractShape32(x) == UniformView(x, 3) /\ x.imm < Dest(x).n
ReverseShape32(x) ==
    /\ HasOperands(x, 2) /\ UniformView(x, 2)
    /\ x.arg.n > Dest(x).k /\ x.arg.n % Dest(x).k = 0 /\ Dest(x).n % x.arg.n = 0
DuplicateShape32(x) ==
    HasOperands(x, 2) /\ Is(Dest(x), "vector") /\ Is(Op(x, 2), "gpr") /\ Dest(x).k <= 4
\* Mutant: zip and uzp of two lanes, which are encodings of trn, are accepted.
PermutePairShapeMutant(x) == HasOperands(x, 2) /\ UniformView(x, 2) /\ Dest(x).k # 8 /\ LanesIn(Dest(x)) >= 2
PermutePairShape(x) ==
    /\ HasOperands(x, 2) /\ UniformView(x, 2)
    /\ Dest(x).k # 8 /\ LanesIn(Dest(x)) >= 2
    /\ LanesIn(Dest(x)) = 2 => x.arg.f = "trn"
BitwiseSelectShape32(x) == HasOperands(x, 3) /\ UniformView(x, 3)
ShiftInsertShape32(x) ==
    /\ HasOperands(x, 3) /\ UniformView(x, 2) /\ Is(Op(x, 3), "immediate")
    /\ IF x.arg.left THEN x.imm < Width(x) ELSE x.imm \in 1..Width(x)
TableLookupShape32(x) ==
    LET table == Op(x, 2) IN
    /\ HasOperands(x, 3) /\ IsD(Dest(x)) /\ IsD(Op(x, 3)) /\ Dest(x).k = 1
    /\ Is(table, "list") /\ Len(table.list) \in 1..4
    /\ \A i \in DOMAIN table.list : table.list[i] = table.list[1] + i - 1

----------------------------------------------------------------------------
\* Shapes: width.rs, fused.rs, saturate.rs.

WidenLongShape(x) ==
    LET k == Dest(x).k IN
    /\ IsQ(Dest(x)) /\ k \in {2, 4, 8}
    /\ HasOperands(x, IF x.arg.f = "extend" THEN 2 ELSE 3)
    /\ IF x.arg.wide_first THEN IsQ(Op(x, 2)) ELSE IsD(Op(x, 2))
    /\ x.arg.f # "extend" => IsD(Op(x, 3))
ShiftsInElement(x, count) == HasOperands(x, count) /\ (count = 3 => x.imm \in 1..Width(x))
NarrowShape(x) ==
    IsD(Dest(x)) /\ IsQ(Op(x, 2)) /\ Dest(x).k <= 4 /\ ShiftsInElement(x, IF x.arg.shifts THEN 3 ELSE 2)
\* The forms into an unsigned element have a signed source.
SaturatingNarrowShape(x) == NarrowShape(x) /\ (x.arg.to_unsigned => x.arg.signed)
HighNarrowShape32(x) ==
    HasOperands(x, 3) /\ IsD(Dest(x)) /\ IsQ(Op(x, 2)) /\ IsQ(Op(x, 3)) /\ Dest(x).k <= 4
\* An s register has one element, however narrow.
FusedStepShape32(x) ==
    /\ HasOperands(x, 3) /\ UniformView(x, 3) /\ FusedStepIsEmulable(Dest(x).k)
    /\ ~(IsS(Dest(x)) /\ Dest(x).k < 4)
SaturatingUnaryShape(x) == HasOperands(x, 2) /\ UniformView(x, 2) /\ Dest(x).k <= 4
\* A second source is a vector of the first's view, or one element.
SecondSource(o, k, n) == Indexed(o, k) \/ (Is(o, "vector") /\ o.n = n)
SameWidthDoublingShape(x) ==
    /\ HasOperands(x, 3) /\ UniformView(x, 2) /\ Dest(x).k \in {2, 4}
    /\ SecondSource(Op(x, 3), Dest(x).k, Dest(x).n)
DoublingMultiplyLongShape(x) ==
    /\ HasOperands(x, 3) /\ IsQ(Dest(x)) /\ Dest(x).k \in {4, 8}
    /\ IsD(Op(x, 2)) /\ SecondSource(Op(x, 3), Dest(x).k \div 2, 8)
\* Floats and integers of one width, and the two narrow formats.
ConvertShape32(x) ==
    /\ Len(x.operands) \in {2, 3}
    /\ CASE x.arg.f = "widen" -> Dest(x).k = 4 /\ Op(x, 2).k = 2 /\ Dest(x).n = 2 * Op(x, 2).n
         [] x.arg.f = "narrow" -> Dest(x).k = 2 /\ Op(x, 2).k = 4 /\ Op(x, 2).n = 2 * Dest(x).n
         [] OTHER -> UniformView(x, 2) /\ Dest(x).k = 4 /\ Op(x, 2).k = 4
    /\ HasOperands(x, 3) => x.arg.f \in {"int", "float"} /\ x.imm \in 1..Width(x)
RoundShape(x) == HasOperands(x, 2) /\ UniformView(x, 2) /\ Dest(x).k \in {2, 4} /\ LanesIn(Dest(x)) >= 2

----------------------------------------------------------------------------
\* Shapes: element.rs, accumulate.rs, lanewise.rs, estimate.rs.

ByElementFloatShape(x) ==
    /\ IsD(Dest(x)) \/ IsQ(Dest(x))
    /\ UniformView(x, 2) /\ Dest(x).k \in {2, 4} /\ Indexed(Op(x, 3), Dest(x).k)
ByElementShape32(x) ==
    LET long == x.arg.f = "long"
        k == IF long THEN Dest(x).k \div 2 ELSE Dest(x).k
    IN  IF x.arg.f = "float" THEN ByElementFloatShape(x)
        ELSE /\ HasOperands(x, 3) /\ k \in {2, 4} /\ Indexed(Op(x, 3), k)
             /\ IF long THEN IsQ(Dest(x)) /\ IsD(Op(x, 2)) ELSE UniformView(x, 2)
             /\ LanesIn(Dest(x)) >= 2
AbsoluteDifferenceShape32(x) == HasOperands(x, 3) /\ UniformView(x, 3) /\ Dest(x).k <= 4
PairwiseLongShape32(x) == HasOperands(x, 2) /\ UniformView(x, 2) /\ Dest(x).k \in {2, 4, 8}
CompareShape32(x) ==
    /\ HasOperands(x, 3)
    /\ IF Is(Op(x, 3), "immediate") THEN x.arg.f # "tst" /\ x.imm = 0 /\ UniformView(x, 2) ELSE UniformView(x, 3)
    /\ x.op = "fcompare" => FloatLane(Dest(x).k)
PairwiseShape32(x) ==
    /\ HasOperands(x, 3) /\ UniformView(x, 3) /\ IsD(Dest(x)) /\ LanesIn(Dest(x)) >= 2
    /\ x.arg.f \in {"fadd", "fmax", "fmin"} => Dest(x).k = 4
CountShape(x) ==
    /\ HasOperands(x, 2) /\ UniformView(x, 2)
    /\ IF x.arg = "cnt" THEN Dest(x).k = 1 ELSE Dest(x).k \in {1, 2, 4}
EstimateShape32(x) == HasOperands(x, 2) /\ UniformView(x, 2) /\ Dest(x).k \in (IF x.arg = "float" THEN {2, 4} ELSE {4})

\* neon_packed_shape: the operations that are shared with x86, and their
\* last operand.
PackedOps == {"int", "fp", "mla", "shiftimm", "qshl", "shiftreg"}
UnaryInts == {"not", "abs", "neg", "signflip", "signclear"}
LastOperandFits(x) ==
    LET last == Op(x, Len(x.operands)) IN
    CASE x.op \in {"shiftimm", "qshl"} -> Is(last, "immediate")
      [] x.op = "shiftreg" -> Is(last, "vector")
      [] OTHER -> TRUE
PackedShape32(x) ==
    /\ HasOperands(x, IF x.op = "int" /\ x.arg.f \in UnaryInts THEN 2 ELSE 3)
    /\ LastOperandFits(x) /\ LanesIn(Dest(x)) > 1

Shape32(x) ==
    CASE x.op \in PackedOps -> PackedShape32(x)
      [] x.op = "ext" -> ExtractShape32(x)          [] x.op = "rev" -> ReverseShape32(x)
      [] x.op = "dup" -> DuplicateShape32(x)        [] x.op = "pairperm" -> PermutePairShape(x)
      [] x.op = "widen" -> WidenLongShape(x)        [] x.op = "narrow" -> NarrowShape(x)
      [] x.op = "satnarrow" -> SaturatingNarrowShape(x)
      [] x.op = "highnarrow" -> HighNarrowShape32(x)
      [] x.op = "fused" -> FusedStepShape32(x)      [] x.op = "qunary" -> SaturatingUnaryShape(x)
      [] x.op \in {"dmulh", "dmla"} -> SameWidthDoublingShape(x)
      [] x.op = "dmull" -> DoublingMultiplyLongShape(x)
      [] x.op = "convert" -> ConvertShape32(x)      [] x.op = "round" -> RoundShape(x)
      [] x.op = "element" -> ByElementShape32(x)    [] x.op = "abd" -> AbsoluteDifferenceShape32(x)
      [] x.op = "pairlong" -> PairwiseLongShape32(x)
      [] x.op = "select" -> BitwiseSelectShape32(x) [] x.op = "shiftinsert" -> ShiftInsertShape32(x)
      [] x.op = "table" -> TableLookupShape32(x)
      [] x.op \in {"compare", "fcompare"} -> CompareShape32(x)
      [] x.op = "pairwise" -> PairwiseShape32(x)    [] x.op = "bits" -> CountShape(x)
      [] x.op = "estimate" -> EstimateShape32(x)

----------------------------------------------------------------------------
\* The lanes: the packed operations, permutes and selects.

PackedLane32(x, acc, a, b, k) ==
    LET w == Bits(k) IN
    CASE x.op = "fp" /\ x.arg \in {"fmax", "fmin"} -> PropagatingMaxMin(x.arg, FALSE, a, b, k)
      [] x.op = "fp" /\ x.arg \notin {"fmax", "fmin"} -> FpLane(x.arg, a, b, k)
      [] x.op = "mla" -> IF x.arg.float THEN AccumulateLane(IF x.arg.sub THEN "fmls" ELSE "fmla", acc, a, b, k)
                         ELSE Pattern(IF x.arg.sub THEN acc - Times(a, b, w) ELSE acc + Times(a, b, w), w)
      [] x.op = "shiftimm" -> ShiftImmediateLane(x.arg, acc, a, x.imm, w)
      [] x.op = "qshl" -> SaturatingShiftLeftLane(x.arg.signed, a, x.imm, w)
      [] x.op = "shiftreg" -> ShiftRegisterLane(x.arg.signed, a, b, w)
PackedLanes32(s, x) ==
    LET k == Dest(x).k
        a == First(s, x)
        b == IF Len(x.operands) = 3 /\ Is(Op(x, 3), "vector") THEN Second(s, x) ELSE a
    IN  IF x.op = "int" THEN PackedInt(x.arg, a, b, k)
        ELSE Lanewise3(LAMBDA acc, p, q : PackedLane32(x, acc, p, q, k), Prior(s, x), a, b, k)
ExtractWindow32(s, x) == ExtractWindow(s, x)
ReverseLanes32(s, x) ==
    LET k == Dest(x).k
        per == x.arg.n \div k
        from(i) == (i \div per) * per + (per - 1 - (i % per))
    IN  [j \in 0..(Dest(x).n - 1) |-> First(s, x)[from(j \div k) * k + (j % k)]]
DuplicateLanes32(s, x) ==
    [j \in 0..(Dest(x).n - 1) |-> OperandValue(s, Op(x, 2))[j % Dest(x).k]]
PairedSource(f, i, second, lanes) ==
    LET half == lanes \div 2
        off == IF second THEN 1 ELSE 0
    IN  CASE f = "zip" -> <<i % 2, (i \div 2) + off * half>>
          [] f = "uzp" -> <<IF i < half THEN 0 ELSE 1, 2 * (i % half) + off>>
          [] f = "trn" -> <<i % 2, 2 * (i \div 2) + off>>
PairedValue(s, x, second) ==
    LET k == Dest(x).k
        from(i) == PairedSource(x.arg.f, i, second, LanesIn(Dest(x)))
        value(which) == ValueOf(s, Op(x, which + 1))
    IN  [j \in 0..(Dest(x).n - 1) |-> value(from(j \div k)[1])[from(j \div k)[2] * k + (j % k)]]
\* Mutant: the second value is computed from what the first write left.
LiftPermutePairMutant(s, x) ==
    LET one == Merge(s, Dest(x), PairedValue(s, x, FALSE)) IN Merge(one, Op(x, 2), PairedValue(one, x, TRUE))
\* Both values are computed before either register is written.
LiftPermutePair(s, x) ==
    LET one == PairedValue(s, x, FALSE)
        two == PairedValue(s, x, TRUE)
    IN  Merge(Merge(s, Dest(x), one), Op(x, 2), two)
BitwiseSelect32(s, x) == BitwiseSelect(s, x)
KeptBitsMask(left, n, w) == IF left THEN Ones(n) ELSE Ones(n) * 2 ^ (w - n)
ShiftInsert32(s, x) ==
    LET w == Width(x)
        kept == KeptBitsMask(x.arg.left, x.imm, w)
    IN  Lanewise2(LAMBDA acc, p : (IF x.arg.left THEN Shl(p, x.imm, w) ELSE Lshr(p, x.imm, w)) | (acc & kept),
                  Prior(s, x), First(s, x), Dest(x).k)
TableLookupLanes32(s, x) ==
    LET numbers == Op(x, 2).list
        entry(i) == DoublewordValue(s, numbers[(i \div 8) + 1])[i % 8]
    IN  [j \in 0..7 |->
            LET index == Second(s, x)[j] IN
            IF index = Unk THEN Unk
            ELSE IF index < 8 * Len(numbers) THEN entry(index) ELSE IF x.arg.keep THEN Prior(s, x)[j] ELSE 0]

----------------------------------------------------------------------------
\* The lanes that widen, narrow, saturate and convert.

LongLanes(s, x) ==
    LET k == Dest(x).k
        narrow == k \div 2
        ext(p) == Pattern(Ext(p, Bits(narrow), x.arg.signed), Width(x))
        left(i) == IF x.arg.wide_first THEN Lane(First(s, x), k, i) ELSE Of1(ext, Lane(First(s, x), narrow, i))
    IN  Concat(LAMBDA i : IF x.arg.f = "extend" THEN left(i)
                          ELSE Of2(LAMBDA p, q : PackedIntLane(x.arg, p, ext(q), Width(x)),
                                   left(i), Lane(Second(s, x), narrow, i)), k, LanesIn(Dest(x)))
\* One bit wider than the source.
NarrowShifted(round, signed, p, n, w) ==
    LET wide == 2 * w + 1
        value == Pattern(Ext(p, 2 * w, signed) + (IF round /\ n > 0 THEN 2 ^ (n - 1) ELSE 0), wide)
    IN  ShiftRightLane(signed, value, n, wide)
NarrowOver(s, x, f(_)) ==
    Concat(LAMBDA i : Of1(f, Lane(First(s, x), 2 * Dest(x).k, i)), Dest(x).k, LanesIn(Dest(x)))
NarrowLanes(s, x) ==
    LET w == Width(x) IN
    NarrowOver(s, x, LAMBDA p : Pattern(IF x.arg.round THEN NarrowShifted(TRUE, FALSE, p, x.imm, w)
                                        ELSE Lshr(p, x.imm, 2 * w), w))
SaturatingNarrowLanes(s, x) ==
    LET w == Width(x)
        signed == x.arg.signed /\ ~x.arg.to_unsigned
        clamped(p) == LET v == Ext(NarrowShifted(x.arg.round, x.arg.signed, p, x.imm, w), 2 * w + 1, x.arg.signed)
                      IN  Highest(Least(signed, w), Lowest(v, Greatest(signed, w)))
    IN  NarrowOver(s, x, LAMBDA p : Pattern(clamped(p), w))
HighNarrowLanes32(s, x) ==
    Concat(LAMBDA i : Of2(LAMBDA p, q : HighNarrowLane(x.arg.sub, x.arg.round, p, q, Width(x)),
                          Lane(First(s, x), 2 * Dest(x).k, i), Lane(Second(s, x), 2 * Dest(x).k, i)),
           Dest(x).k, LanesIn(Dest(x)))
FusedStepLanes32(s, x) == FusedStepLanes(s, x)
SaturatingUnaryLanes(s, x) ==
    Lanewise1(LAMBDA p : LET v == Signed(p, Width(x)) IN
                         ClampToElement(Held(IF x.arg.negate \/ v < 0 THEN -v ELSE v, Width(x) + 1), Width(x), TRUE),
              First(s, x), Dest(x).k)
Multiplier(s, x, k, i) == IF Is(Op(x, 3), "element") THEN LaneOf(s, Op(x, 3)) ELSE Lane(Second(s, x), k, i)
DoublingMultiplyHighLanes(s, x) ==
    LET k == Dest(x).k
        w == Width(x)
        high(p, q) == Held(2 * Signed(p, w) * Signed(q, w) + (IF x.arg.round THEN 2 ^ (w - 1) ELSE 0), 2 * w + 1) \div 2 ^ w
    IN  Concat(LAMBDA i : Of2(LAMBDA p, q : ClampToElement(high(p, q), w, TRUE), Lane(First(s, x), k, i), Multiplier(s, x, k, i)),
               k, LanesIn(Dest(x)))
\* The accumulator joins the doubled product before the one clamp.
DoublingMultiplyAccumulateLanes(s, x) ==
    LET k == Dest(x).k
        w == Width(x)
        total(acc, p, q) ==
            LET doubled == 2 * Signed(p, w) * Signed(q, w)
                scaled == Signed(acc, w) * 2 ^ w
            IN  Held((IF x.arg.sub THEN scaled - doubled ELSE scaled + doubled) + 2 ^ (w - 1), 2 * w + 2) \div 2 ^ w
    IN  Concat(LAMBDA i : Of3(LAMBDA acc, p, q : ClampToElement(total(acc, p, q), w, TRUE),
                              Lane(Prior(s, x), k, i), Lane(First(s, x), k, i), Multiplier(s, x, k, i)), k, LanesIn(Dest(x)))
\* The doubled product is clamped, and then what it accumulates to.
DoublingMultiplyLongLanes(s, x) ==
    LET n == Dest(x).k \div 2
        w == Width(x)
        clamp(v) == Signed(ClampToElement(Held(v, w + 1), w, TRUE), w)
        product(p, q) == clamp(2 * Signed(p, Bits(n)) * Signed(q, Bits(n)))
        value(acc, p, q) == CASE x.arg = "none" -> product(p, q)
                              [] x.arg = "add" -> clamp(Signed(acc, w) + product(p, q))
                              [] x.arg = "sub" -> clamp(Signed(acc, w) - product(p, q))
    IN  Concat(LAMBDA i : Of3(LAMBDA acc, p, q : Pattern(value(acc, p, q), w),
                              Lane(Prior(s, x), Dest(x).k, i), Lane(First(s, x), n, i), Multiplier(s, x, n, i)),
               Dest(x).k, LanesIn(Dest(x)))
ConvertLanes32(s, x) ==
    LET k == Dest(x).k
        from == CASE x.arg.f = "widen" -> k \div 2 [] x.arg.f = "narrow" -> 2 * k [] OTHER -> k
    IN  Concat(LAMBDA i : Of1(LAMBDA p : ConvertLane(x, p, from, k), Lane(First(s, x), from, i)), k, LanesIn(Dest(x)))
RoundLanes32(s, x) ==
    Lanewise1(LAMBDA p : RoundToIntegralLane(p, Dest(x).k, x.arg.mode, 0), First(s, x), Dest(x).k)

----------------------------------------------------------------------------
\* The lanes: products by an element, differences, comparisons and counts.

ByElementFloatLanes(s, x) ==
    LET k == Dest(x).k
        lane(acc, p, q) == CASE x.arg.combine = "none" -> FpLane("fmul", p, q, k)
                             [] x.arg.combine = "add" -> AccumulateLane("fmla", acc, p, q, k)
                             [] x.arg.combine = "sub" -> AccumulateLane("fmls", acc, p, q, k)
    IN  Concat(LAMBDA i : Of3(lane, Lane(Prior(s, x), k, i), Lane(First(s, x), k, i), LaneOf(s, Op(x, 3))), k, LanesIn(Dest(x)))
ByElementLanes32(s, x) ==
    LET k == Op(x, 3).k
        ext(p) == IF x.arg.f = "long" THEN Ext(p, Bits(k), x.arg.signed) ELSE p
    IN  Concat(LAMBDA i : Of3(LAMBDA acc, p, q : Accumulated(x.arg.combine, acc, ext(p) * ext(q), Width(x)),
                              Lane(Prior(s, x), Dest(x).k, i), Lane(First(s, x), k, i), LaneOf(s, Op(x, 3))),
               Dest(x).k, LanesIn(Dest(x)))
AbsoluteDifferenceLane32(signed, a, b, w) ==
    LET d == Held(Ext(a, w, signed) - Ext(b, w, signed), w + 1) IN Pattern(IF d < 0 THEN -d ELSE d, w)
AbsoluteDifferenceLanes32(s, x) ==
    LET w == Width(x) IN
    Lanewise3(LAMBDA acc, p, q : Pattern((IF x.arg.acc THEN acc ELSE 0) + AbsoluteDifferenceLane32(x.arg.signed, p, q, w), w),
              Prior(s, x), First(s, x), Second(s, x), Dest(x).k)
PairwiseLongLanes32(s, x) ==
    LET n == Dest(x).k \div 2
        ext(p) == Ext(p, Bits(n), x.arg.signed)
    IN  Concat(LAMBDA i : Of3(LAMBDA acc, p, q : Pattern((IF x.arg.acc THEN acc ELSE 0) + ext(p) + ext(q), Width(x)),
                              Lane(Prior(s, x), Dest(x).k, i), Lane(First(s, x), n, 2 * i), Lane(First(s, x), n, 2 * i + 1)),
               Dest(x).k, LanesIn(Dest(x)))
CompareLanes32(s, x) ==
    LET k == Dest(x).k
        a == First(s, x)
        b == IF Is(Op(x, 3), "vector") THEN Second(s, x) ELSE [j \in DOMAIN a |-> 0]
    IN  Lanewise2(LAMBDA p, q : IF x.op = "fcompare" THEN FloatCompareLane(x.arg, p, q, k)
                                ELSE CompareLane(x.arg, p, q, Bits(k)), a, b, k)
PairwiseLanes32(s, x) ==
    LET k == Dest(x).k
        half == LanesIn(Dest(x)) \div 2
        lane(i, odd) == Lane(IF i < half THEN First(s, x) ELSE Second(s, x), k, 2 * (i % half) + odd)
    IN  Concat(LAMBDA i : Of2(LAMBDA p, q : PairLane(x.arg, p, q, k), lane(i, 0), lane(i, 1)), k, 2 * half)
CountLanes(s, x) == Lanewise1(LAMBDA p : BitwiseUnaryLane(x.arg, p, Width(x)), First(s, x), Dest(x).k)

NeonValue32(s, x) ==
    CASE x.op \in PackedOps -> PackedLanes32(s, x)
      [] x.op = "ext" -> ExtractWindow32(s, x)        [] x.op = "rev" -> ReverseLanes32(s, x)
      [] x.op = "dup" -> DuplicateLanes32(s, x)       [] x.op = "widen" -> LongLanes(s, x)
      [] x.op = "narrow" -> NarrowLanes(s, x)         [] x.op = "satnarrow" -> SaturatingNarrowLanes(s, x)
      [] x.op = "highnarrow" -> HighNarrowLanes32(s, x)
      [] x.op = "fused" -> FusedStepLanes32(s, x)     [] x.op = "qunary" -> SaturatingUnaryLanes(s, x)
      [] x.op = "dmulh" -> DoublingMultiplyHighLanes(s, x)
      [] x.op = "dmla" -> DoublingMultiplyAccumulateLanes(s, x)
      [] x.op = "dmull" -> DoublingMultiplyLongLanes(s, x)
      [] x.op = "convert" -> ConvertLanes32(s, x)     [] x.op = "round" -> RoundLanes32(s, x)
      [] x.op = "element" -> IF x.arg.f = "float" THEN ByElementFloatLanes(s, x) ELSE ByElementLanes32(s, x)
      [] x.op = "abd" -> AbsoluteDifferenceLanes32(s, x)
      [] x.op = "pairlong" -> PairwiseLongLanes32(s, x)
      [] x.op = "select" -> BitwiseSelect32(s, x)     [] x.op = "shiftinsert" -> ShiftInsert32(s, x)
      [] x.op = "table" -> TableLookupLanes32(s, x)
      [] x.op \in {"compare", "fcompare"} -> CompareLanes32(s, x)
      [] x.op = "pairwise" -> PairwiseLanes32(s, x)   [] x.op = "bits" -> CountLanes(s, x)
      [] x.op = "estimate" -> EstimateValue(x)
LiftNeon32(s, x) ==
    IF x.op = "pairperm" THEN LiftPermutePair(s, x) ELSE Merge(s, Dest(x), NeonValue32(s, x))

----------------------------------------------------------------------------
\* The scalar floating-point instructions, the structured loads and stores, and
\* the processor.  A comparison is taken together with the vmrs that copies its
\* flags.

\* The register that holds one element, however narrow.
Singular(o) == Is(o, "vector") /\ o.n = Highest(4, o.k)
VfpOps == {"fp", "int", "round", "convert", "vsqrt", "vmov", "vcmp"}
\* The binary16 end of a conversion has an index, and only that.
HalfIndex(x, o) == IF x.op = "convert" /\ o.k = 2 THEN x.arg.half ELSE 0
VfpLane(s, x, i) == Lane(OperandValue(s, Op(x, i)), Op(x, i).k, HalfIndex(x, Op(x, i)))

\* vfp_convert_fraction_bits: the integer end bounds them.
VfpConvertFractionBits(x) ==
    HasOperands(x, 3) => x.arg.scales /\ x.imm \in 1..Bits(Op(x, IF x.arg.f = "int" THEN 2 ELSE 1).k)
VfpArithValue(s, x) ==
    Of2(LAMBDA a, b : IF x.arg \in {"fmax", "fmin"} THEN PropagatingMaxMin(x.arg, FALSE, a, b, Dest(x).k)
                      ELSE FpLane(x.arg, a, b, Dest(x).k), VfpLane(s, x, 2), VfpLane(s, x, 3))
VfpSqrtValue(s, x) == Of1(LAMBDA a : FpLane("fsqrt", a, a, Dest(x).k), VfpLane(s, x, 2))
VfpRoundValue(s, x) == Of1(LAMBDA a : RoundToIntegralLane(a, Dest(x).k, x.arg.mode, 0), VfpLane(s, x, 2))
VfpSignValue(s, x) == Of1(LAMBDA a : PackedIntLane(x.arg, a, a, Width(x)), VfpLane(s, x, 2))
VfpConvertValue(s, x) == Of1(LAMBDA a : ConvertLane(x, a, Op(x, 2).k, Dest(x).k), VfpLane(s, x, 2))
LiftVcmp(s, x) ==
    Set(s, FcmpFlags(VfpLane(s, x, 1), IF Is(Op(x, 2), "vector") THEN VfpLane(s, x, 2) ELSE 0, Dest(x).k))
\* The packed forms of these have the same mnemonics.
VfpShape(x) ==
    CASE x.op = "convert" -> Singular(Dest(x)) /\ Singular(Op(x, 2)) /\ VfpConvertFractionBits(x)
      [] x.op = "round" -> Singular(Dest(x)) /\ Singular(Op(x, 2))
      [] x.op = "fp" -> HasOperands(x, 3)
      [] x.op = "int" -> x.arg.f \in {"signflip", "signclear"}
      [] x.op \in {"vsqrt", "vmov", "vcmp"} -> TRUE
LiftVfp(s, x) ==
    LET value == CASE x.op = "fp" -> VfpArithValue(s, x)      [] x.op = "vsqrt" -> VfpSqrtValue(s, x)
                   [] x.op = "round" -> VfpRoundValue(s, x)   [] x.op = "int" -> VfpSignValue(s, x)
                   [] x.op = "vmov" -> VfpLane(s, x, 2)       [] x.op = "convert" -> VfpConvertValue(s, x)
    IN  IF ~VfpShape(x) THEN Unsupported(s)
        ELSE IF x.op = "vcmp" THEN LiftVcmp(s, x)
        ELSE WriteLane(s, Dest(x), value, Dest(x).k, HalfIndex(x, Dest(x)))

----------------------------------------------------------------------------
\* Structured loads and stores: a list of d registers, an element of each, or
\* each filled with one element.

Some(list, kind, i) == [list EXCEPT !.kind = kind, !.index = i]
Family32(interleave, stores, bang) == [interleave |-> interleave, stores |-> stores, bang |-> bang]
ListStride(numbers, stride) == \A i \in DOMAIN numbers : numbers[i] = numbers[1] + (i - 1) * stride
ValidateShape(x) ==
    LET list == Op(x, 1) IN
    CASE Is(list, "list") -> TRUE
      [] Is(list, "replicate") -> ~x.arg.stores
      [] Is(list, "elements") -> list.index < 8 \div list.k
BaseAdvance(x) == HasOperands(x, 3) => ~x.arg.bang /\ Is(Op(x, 3), "gpr")
StructuredShape32(x) ==
    LET numbers == Op(x, 1).list IN
    /\ Op(x, 1).kind \in {"list", "elements", "replicate"} /\ Len(numbers) \in 1..4
    /\ x.arg.interleave > 1 => Op(x, 1).k < 8 /\ Len(numbers) = x.arg.interleave
    /\ ListStride(numbers, 1) \/ (ListStride(numbers, 2) /\ x.arg.interleave > 1)
    /\ ValidateShape(x) /\ Is(Op(x, 2), "memory") /\ BaseAdvance(x)
BytesPerMember(x) == IF Is(Op(x, 1), "list") THEN 8 ELSE Op(x, 1).k
TransferredBytes(x) == Len(Op(x, 1).list) * BytesPerMember(x)
\* Where byte j of a structure's register is in memory.
TransferOffset32(x, structure, j) ==
    LET k == Op(x, 1).k IN
    CASE ~Is(Op(x, 1), "list") -> structure * k + (j % k)
      [] Is(Op(x, 1), "list") /\ x.arg.interleave = 1 -> structure * 8 + j
      [] OTHER -> ((j \div k) * x.arg.interleave + structure) * k + (j % k)
Moved32(x) ==
    LET list == Op(x, 1) IN
    IF Is(list, "elements") THEN (list.index * list.k)..(list.index * list.k + list.k - 1) ELSE 0..7
\* The member a byte of a register belongs to, and its place in it.
PlacesIn(x, r, b) ==
    {p \in (DOMAIN Op(x, 1).list) \X Moved32(x) :
        LET o == D32(Op(x, 1).list[p[1]], 1) IN o.reg = r /\ o.lo + p[2] = b}
Transfer32(s, x, base) ==
    LET place(p) == base + TransferOffset32(x, p[1] - 1, p[2])
        in(r, b) == LET ps == PlacesIn(x, r, b) IN
                    IF ps = {} THEN s.regs[r][b] ELSE s.regs["mem"][place(CHOOSE p \in ps : TRUE)]
        out(b) == LET ps == {p \in (DOMAIN Op(x, 1).list) \X Moved32(x) : place(p) = b} IN
                  IF ps = {} THEN s.regs["mem"][b]
                  ELSE LET p == CHOOSE q \in ps : TRUE IN DoublewordValue(s, Op(x, 1).list[p[1]])[p[2]]
    IN  IF x.arg.stores THEN [s EXCEPT !.regs["mem"] = [b \in DOMAIN @ |-> out(b)]]
        ELSE [s EXCEPT !.regs = [r \in DOMAIN s.regs |-> [b \in DOMAIN s.regs[r] |-> in(r, b)]]]
Advanced(s, x, base, delta) == [s EXCEPT !.regs[Op(x, 2).reg] = FromLane(base + delta, 4)]
EmitWriteback32(s, x, base) ==
    CASE x.arg.bang -> Advanced(s, x, base, TransferredBytes(x))
      [] ~x.arg.bang /\ HasOperands(x, 3) -> Advanced(s, x, base, Address(s, Op(x, 3).reg))
      [] OTHER -> s
LiftStructured32(s, x) ==
    LET base == Address(s, Op(x, 2).reg)
    IN  IF StructuredShape32(x) THEN EmitWriteback32(Transfer32(s, x, base), x, base) ELSE Unsupported(s)

\* The resolvers of Advanced SIMD come before the scalar family.
LiftA32(s, x) ==
    IF x.op = "structured" THEN LiftStructured32(s, x)
    ELSE IF x.op \notin {"vsqrt", "vmov", "vcmp"} /\ Shape32(x) THEN LiftNeon32(s, x)
    ELSE IF x.op \in VfpOps THEN LiftVfp(s, x) ELSE Unsupported(s)

----------------------------------------------------------------------------
\* The processor: a register of 32 bits keeps nothing of what it held.

RealStep32(f, a, b, k) ==
    LET special == (IsInfinite(a, k) /\ IsZero(b, k)) \/ (IsZero(a, k) /\ IsInfinite(b, k))
        product == IF special THEN FloatOf(0) ELSE Value(Fp("fmul", a, b, k), k)
        most == Sum(FloatOf(IF f = "frecps" THEN 2 ELSE 3), Negated(product))
    IN  IF IsNan(a, k) \/ IsNan(b, k) THEN ArmNan(<<a, b>>, k)
        ELSE Pack(IF f = "frecps" THEN most ELSE Quotient(most, FloatOf(2)), "even", k)
\* A product is rounded, and then its sum.
RealAccumulate(sub, acc, a, b, k) ==
    LET product == RealFp("fmul", a, b, k)
        flipped == (product + 2 ^ (Bits(k) - 1)) % 2 ^ Bits(k)
    IN  RealFp("fadd", acc, IF sub THEN flipped ELSE product, k)
RealDoublingAccumulate(sub, acc, a, b, w) ==
    LET doubled == 2 * Signed(a, w) * Signed(b, w)
        total == Signed(acc, w) * 2 ^ w + (IF sub THEN -doubled ELSE doubled)
    IN  Within((total + 2 ^ (w - 1)) \div 2 ^ w, TRUE, w)
RealLane32(x, acc, a, b, k) ==
    LET w == Bits(k)
        multiple == x.arg.combine
    IN  CASE x.op = "fp" /\ x.arg \in {"fmax", "fmin"} -> RealMaxMin(x.arg, FALSE, a, b, k)
          [] x.op = "mla" /\ x.arg.float -> RealAccumulate(x.arg.sub, acc, a, b, k)
          [] x.op = "mla" /\ ~x.arg.float -> Accumulated(IF x.arg.sub THEN "sub" ELSE "add", acc, a * b, w)
          [] x.op = "shiftimm" ->
                LET shifted == IF x.arg.f = "shl" THEN Pattern(a * 2 ^ x.imm, w)
                               ELSE ExactShiftRight(x.arg.signed, x.arg.round, a, x.imm, w)
                IN  Pattern((IF x.arg.acc THEN acc ELSE 0) + shifted, w)
          [] x.op = "qshl" -> Within(Ext(a, w, x.arg.signed) * 2 ^ x.imm, x.arg.signed, w)
          [] x.op = "shiftreg" -> ExactShiftRegister(x.arg.signed, FALSE, FALSE, a, b, w)
          [] x.op = "qunary" -> Within(IF x.arg.negate THEN -Signed(a, w) ELSE Highest(Signed(a, w), -Signed(a, w)), TRUE, w)
          [] x.op = "dmulh" -> Within((2 * Signed(a, w) * Signed(b, w) + (IF x.arg.round THEN 2 ^ (w - 1) ELSE 0)) \div 2 ^ w, TRUE, w)
          [] x.op = "dmla" -> RealDoublingAccumulate(x.arg.sub, acc, a, b, w)
          [] x.op = "fused" /\ x.arg \in {"frecps", "frsqrts"} -> RealStep32(x.arg, a, b, k)
          [] x.op = "element" /\ x.arg.f = "int" -> Accumulated(multiple, acc, a * b, w)
          [] x.op = "element" /\ x.arg.f = "float" ->
                IF multiple = "none" THEN RealFp("fmul", a, b, k) ELSE RealAccumulate(multiple = "sub", acc, a, b, k)
          [] OTHER -> RealUniformLane(x, acc, a, b, k)
RealView32(s, x) ==
    LET k == Dest(x).k
        other(i) == CASE Len(x.operands) < 3 \/ Is(Op(x, Len(x.operands)), "immediate") -> 0
                      [] Is(Op(x, Len(x.operands)), "element") -> LaneOf(s, Op(x, 3))
                      [] OTHER -> Lane(Second(s, x), k, i)
    IN  Concat(LAMBDA i : RealLane32(x, Lane(Prior(s, x), k, i), Lane(First(s, x), k, i), other(i), k), k, LanesIn(Dest(x)))
\* A q register of lanes twice as wide as those of its d registers.
RealLong32(s, x) ==
    LET k == Dest(x).k
        n == k \div 2
        wide(i) == IF x.op = "widen" /\ x.arg.wide_first THEN Lane(First(s, x), k, i) ELSE 0
        first(i) == IF x.op = "widen" /\ x.arg.wide_first THEN 0 ELSE Lane(First(s, x), n, i)
        second(i) == CASE Len(x.operands) = 2 -> 0
                       [] Len(x.operands) > 2 /\ Is(Op(x, 3), "element") -> LaneOf(s, Op(x, 3))
                       [] OTHER -> Lane(Second(s, x), n, i)
        value(i) == CASE x.op = "dmull" -> RealDoublingLong(x.arg, Lane(Prior(s, x), k, i), first(i), second(i), Bits(k))
                      [] x.op = "convert" -> RealFpToFp(first(i), n, k)
                      [] OTHER -> RealLongLane(x, wide(i), Lane(Prior(s, x), k, i), first(i), second(i), k)
    IN  Concat(value, k, LanesIn(Dest(x)))
RealNarrow32(s, x) ==
    LET k == Dest(x).k
        w == Bits(k)
        a(i) == Lane(First(s, x), 2 * k, i)
        value(i) == CASE x.op = "narrow" -> ExactShiftRight(FALSE, x.arg.round, a(i), x.imm, 2 * w)
                      [] x.op = "satnarrow" ->
                            LET n == Ext(a(i), 2 * w, x.arg.signed) + (IF x.arg.round /\ x.imm > 0 THEN 2 ^ (x.imm - 1) ELSE 0)
                            IN  Within(n \div 2 ^ x.imm, x.arg.signed /\ ~x.arg.to_unsigned, w)
                      [] x.op = "highnarrow" ->
                            LET b == Lane(Second(s, x), 2 * k, i) IN
                            ((IF x.arg.sub THEN a(i) - b ELSE a(i) + b) + (IF x.arg.round THEN 2 ^ (w - 1) ELSE 0)) \div 2 ^ w
                      [] x.op = "convert" -> RealFpToFp(a(i), 2 * k, k)
    IN  Concat(LAMBDA i : Pattern(value(i), w), k, LanesIn(Dest(x)))
\* The two registers of a permute side by side.
RealPermutePair(s, x) ==
    LET k == Dest(x).k
        n == LanesIn(Dest(x))
        in(l) == IF l < n THEN Lane(ValueOf(s, Op(x, 1)), k, l) ELSE Lane(ValueOf(s, Op(x, 2)), k, l - n)
        from(l) == CASE x.arg.f = "zip" -> (IF l % 2 = 0 THEN 0 ELSE n) + (l \div 2)
                     [] x.arg.f = "uzp" -> IF l < n THEN 2 * l ELSE 2 * (l - n) + 1
                     [] x.arg.f = "trn" -> LET row == 2 * ((l % n) \div 2) IN
                                           (IF l % 2 = 0 THEN 0 ELSE n) + row + (IF l < n THEN 0 ELSE 1)
        out(first) == Concat(LAMBDA i : in(from(first + i)), k, n)
    IN  Merge(Merge(s, Op(x, 1), out(0)), Op(x, 2), out(n))
RealMove32(s, x) ==
    LET a == IF Is(Op(x, 2), "list") THEN DoublewordValue(s, Op(x, 2).list[1]) ELSE ValueOf(s, Op(x, 2))
        k == Dest(x).k
        n == Dest(x).n
    IN  CASE x.op = "ext" -> [j \in 0..(n - 1) |-> IF j + x.imm < n THEN a[j + x.imm] ELSE Second(s, x)[j + x.imm - n]]
          [] x.op = "rev" -> [j \in 0..(n - 1) |-> LET group == j \div x.arg.n
                                                      place == (j % x.arg.n) \div k
                                                  IN  a[group * x.arg.n + (x.arg.n \div k - 1 - place) * k + (j % k)]]
          [] x.op = "dup" -> [j \in 0..(n - 1) |-> a[j % k]]
          [] x.op = "table" -> [j \in 0..7 |->
                LET i == Second(s, x)[j] IN
                IF i \div 8 < Len(Op(x, 2).list) THEN DoublewordValue(s, Op(x, 2).list[i \div 8 + 1])[i % 8]
                ELSE IF x.arg.keep THEN Prior(s, x)[j] ELSE 0]
LongOp32(x) == x.op \in {"dmull"} \/ (x.op = "widen") \/ (x.op \in {"element", "convert"} /\ x.arg.f \in {"long", "widen"})
NarrowOp32(x) == x.op \in {"narrow", "satnarrow", "highnarrow"} \/ (x.op = "convert" /\ x.arg.f = "narrow")
RealNeon32(s, x) ==
    CASE LongOp32(x) -> RealLong32(s, x)
      [] NarrowOp32(x) -> RealNarrow32(s, x)
      [] x.op \in {"ext", "rev", "dup", "table"} -> RealMove32(s, x)
      [] x.op = "pairwise" -> RealPairs(s, x)
      [] x.op = "pairlong" -> RealPairsLong(s, x)
      [] x.op = "estimate" -> First(s, x)
      [] OTHER -> RealView32(s, x)

\* A result narrower than its register is extended, but for the conversions
\* that name a half of it.
RealVfp(s, x) ==
    LET k == Dest(x).k
        from == Op(x, 2).k
        a == VfpLane(s, x, 2)
        signed == x.op = "convert" /\ x.arg.f = "float" /\ x.arg.signed
        value == CASE x.op = "fp" -> RealLane32(x, 0, a, VfpLane(s, x, 3), k)
                   [] x.op = "vsqrt" -> OrNan(Fp("fsqrt", a, a, k), ArmNan(<<a>>, k))
                   [] x.op = "round" -> RealRound(a, k, x.arg.mode, 0)
                   [] x.op = "int" -> ExactInt(x.arg, a, a, Width(x))
                   [] x.op = "vmov" -> a
                   [] x.op = "convert" /\ x.arg.f = "int" -> RealIntToFloat(a, x.arg.signed, from, x.imm, k)
                   [] x.op = "convert" /\ x.arg.f = "float" -> RealFloatToInt(a, x.arg.signed, from, x.imm, x.arg.mode, Width(x))
                   [] x.op = "convert" /\ x.arg.f \in {"widen", "narrow"} -> RealFpToFp(a, from, k)
    IN  IF x.op = "vcmp"
        THEN RealFcmpFlags(s, Value(VfpLane(s, x, 1), k), IF Is(Op(x, 2), "vector") THEN Value(a, k) ELSE FloatOf(0))
        ELSE IF x.op = "convert" /\ x.arg.f = "narrow" THEN WriteLane(s, Dest(x), value, k, x.arg.half)
        ELSE Merge(s, Dest(x), FromLane(Pattern(Ext(value, Width(x), signed), Bits(Dest(x).n)), Dest(x).n))

\* Elements move in the order of the structures, and vld1 fills each of its
\* registers with the same one.
RealStructured32(s, x) ==
    LET list == Op(x, 1)
        k == list.k
        base == Address(s, Op(x, 2).reg)
        count == Len(list.list)
        whole == Is(list, "list")
        once == Is(list, "replicate") /\ x.arg.interleave = 1
        element(r, j) == CASE whole /\ x.arg.interleave = 1 -> r * (8 \div k) + (j \div k)
                           [] whole /\ x.arg.interleave > 1 -> (j \div k) * count + r
                           [] OTHER -> IF once THEN 0 ELSE r
        moved == k * (IF whole THEN count * (8 \div k) ELSE IF once THEN 1 ELSE count)
        bytes == {p \in (1..count) \X (0..7) : Is(list, "elements") => p[2] \div k = list.index}
        place(p) == base + element(p[1] - 1, p[2]) * k + (p[2] % k)
        register(p) == D32(list.list[p[1]], 1)
        owner(r, b) == {p \in bytes : register(p).reg = r /\ register(p).lo + p[2] = b}
        source(b) == {p \in bytes : place(p) = b}
        new(r, b) ==
            CASE ~x.arg.stores /\ owner(r, b) # {} -> s.regs["mem"][place(CHOOSE p \in owner(r, b) : TRUE)]
              [] x.arg.stores /\ r = "mem" /\ source(b) # {} ->
                    LET p == CHOOSE q \in source(b) : TRUE IN s.regs[register(p).reg][register(p).lo + p[2]]
              [] OTHER -> s.regs[r][b]
        delta == IF x.arg.bang THEN moved ELSE IF HasOperands(x, 3) THEN Address(s, Op(x, 3).reg) ELSE 0
        done == [s EXCEPT !.regs = [r \in DOMAIN s.regs |-> [b \in DOMAIN s.regs[r] |-> new(r, b)]]]
    IN  [done EXCEPT !.regs[Op(x, 2).reg] = FromLane(base + delta, 4)]
ExecuteA32(s, x) ==
    CASE x.op = "structured" -> RealStructured32(s, x)
      [] x.op = "pairperm" -> RealPermutePair(s, x)
      [] x.op # "structured" /\ x.op # "pairperm" /\ x.op \in VfpOps /\ Dest(x).n <= Highest(4, Dest(x).k) -> RealVfp(s, x)
      [] OTHER -> Merge(s, Dest(x), RealNeon32(s, x))
=============================================================================
