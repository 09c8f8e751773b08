------------------------------ MODULE VectorA64 ------------------------------
(***************************************************************************)
(* The vector instructions of AArch64: the shapes that are resolved, what  *)
(* the lanes are lowered to and what the processor computes.  A shape that *)
(* does not resolve becomes Unsupported.  A write replaces the whole       *)
(* register, but for the inserts.                                          *)
(***************************************************************************)
EXTENDS VectorArm

Dest(x) == Op(x, 1)
First(s, x) == ValueOf(s, Op(x, 2))
Second(s, x) == ValueOf(s, Op(x, 3))
Width(x) == Bits(Dest(x).k)
Put(s, o, v) == [s EXCEPT !.regs[o.reg] = ZeroExt(v, Cardinality(DOMAIN s.regs[o.reg]))]

----------------------------------------------------------------------------
\* Shapes: arith.rs.

PackedShape(x) ==
    LET unary == x.op = "int" /\ x.arg.f \in {"not", "copy", "abs", "neg", "signflip", "signclear"}
        float == x.op \in {"fp", "mulx"} \/ (x.op = "int" /\ x.arg.f \in {"signflip", "signclear"})
    IN  Uniform(x, IF unary THEN 2 ELSE 3) /\ (float => FloatLane(Dest(x).k))
BitwiseUnaryShape(x) ==
    Uniform(x, 2) /\ IF x.arg \in {"cnt", "rbit"} THEN Dest(x).k = 1 ELSE Dest(x).k \in {1, 2, 4}
\* The forms that saturate have no encoding for the narrowest float.
RoundToIntegralShape(x) ==
    Uniform(x, 2) /\ FloatLane(Dest(x).k) /\ (x.arg.bits # 0 => Dest(x).k # 2)
FloatMinMaxShape(x) == Uniform(x, 3) /\ FloatLane(Dest(x).k)
PairwiseShape(x) ==
    /\ Uniform(x, 3) /\ LanesIn(Dest(x)) >= 2
    /\ x.arg.f \in {"fadd", "fmax", "fmin"} => FloatLane(Dest(x).k)
ScalarPairwiseShape(x) ==
    LET source == Op(x, 2) IN
    /\ Len(x.operands) = 2 /\ Is(source, "vector") /\ LanesIn(source) = 2
    /\ CASE x.arg.f = "add" -> source.k = 8
         [] x.arg.f \in {"max", "min"} -> FALSE
         [] OTHER -> FloatLane(source.k)
    /\ Is(Dest(x), "scalar") /\ Dest(x).k = source.k
AbsoluteDifferenceShape(x) == Uniform(x, 3) /\ (x.op = "fabd" => FloatLane(Dest(x).k))
\* Only the narrowing forms have one for the upper half.
Written(x) == IF x.upper THEN LanesIn(Dest(x)) \div 2 ELSE LanesIn(Dest(x))
Narrowing(x) == x.op = "sat" /\ x.arg.f \in {"narrow", "shiftnarrow"}
SaturatingShape(x) ==
    LET k == Dest(x).k
        source(o) == /\ Is(o, "vector") /\ LanesIn(o) = Written(x)
                     /\ o.k = (IF Narrowing(x) THEN 2 * k ELSE k)
    IN  /\ Len(x.operands) = (IF x.arg.f \in {"narrow", "unary"} THEN 2 ELSE 3)
        /\ x.upper => Narrowing(x) /\ Full(Dest(x))
        /\ Is(Dest(x), "vector")
        /\ x.arg.f = "dmulh" => k \in {2, 4}
        /\ Narrowing(x) => k <= 4
        /\ x.arg.f = "shiftnarrow" => x.imm \in 1..Width(x)
        /\ \A i \in 2..Len(x.operands) :
                source(Op(x, i)) \/ (x.arg.f = "shiftnarrow" /\ i = 3 /\ ~Is(Op(x, i), "vector"))
SaturatingScalarShape(x) ==
    /\ x.arg.f = "unary" /\ Len(x.operands) = 2
    /\ \A i \in 1..2 : Is(Op(x, i), "scalar") /\ Op(x, i).k = Dest(x).k
    /\ Dest(x).k \in {1, 2, 4, 8}
MixedSignAddShape(x) == Uniform(x, 2)
\* A vector of the source's lanes, twice as many of them for the upper half.
LongSource(x, o, k) ==
    /\ Is(o, "vector") /\ o.k = k
    /\ LanesIn(o) = (IF x.upper THEN 2 * LanesIn(Dest(x)) ELSE LanesIn(Dest(x)))
    /\ x.upper => Full(o)
LongElement(o, k) == Is(o, "element") /\ o.k = k
DoublingLongShape(x) ==
    LET k == Dest(x).k IN
    /\ Len(x.operands) = 3 /\ Is(Dest(x), "vector") /\ k \in {4, 8}
    /\ LongSource(x, Op(x, 2), k \div 2)
    /\ LongSource(x, Op(x, 3), k \div 2) \/ LongElement(Op(x, 3), k \div 2)
ShiftShape(x) ==
    LET by == Op(x, 3) IN
    /\ Len(x.operands) = 3 /\ SameArrangement(Op(x, 2), Dest(x))
    /\ IF x.arg.f = "reg" THEN SameArrangement(by, Dest(x)) ELSE Is(by, "immediate")
    /\ x.arg.f \in {"shl", "sqshl", "sqshlu"} => x.imm < Width(x)
    /\ x.arg.f = "shr" => x.imm \in 1..Width(x)
ShiftInsertShape(x) ==
    /\ Len(x.operands) = 3 /\ SameArrangement(Op(x, 2), Dest(x))
    /\ IF x.arg.left THEN x.imm < Width(x) ELSE x.imm \in 1..Width(x)
CompareShape(x) ==
    /\ Len(x.operands) = 3 /\ SameArrangement(Op(x, 2), Dest(x))
    /\ SameArrangement(Op(x, 3), Dest(x)) \/ (Is(Op(x, 3), "immediate") /\ x.arg.f # "tst" /\ x.imm = 0)
    /\ x.op = "fcompare" => FloatLane(Dest(x).k)
EstimateShape(x) == Uniform(x, 2) /\ IF x.arg = "float" THEN FloatLane(Dest(x).k) ELSE Dest(x).k = 4

----------------------------------------------------------------------------
\* Shapes: permute.rs.

ImmediateShape(x) == x.arg.msl > 0 => Dest(x).k = 4
DuplicateShape(x) ==
    Len(x.operands) = 2 /\ (LongElement(Op(x, 2), Dest(x).k) \/ Is(Op(x, 2), "gpr"))
ExtractShape(x) == Dest(x).k = 1 /\ Uniform(x, 3) /\ x.imm < LanesIn(Dest(x))
PermuteShape(x) ==
    IF x.arg.f = "rev"
    THEN Uniform(x, 2) /\ x.arg.n > Dest(x).k /\ x.arg.n % Dest(x).k = 0 /\ Dest(x).n % x.arg.n = 0
    ELSE Uniform(x, 3) /\ LanesIn(Dest(x)) % 2 = 0
ElementToGprShape(x) == Is(Dest(x), "gpr") /\ Is(Op(x, 2), "element")
InsertShape(x) ==
    Is(Dest(x), "element") /\ (LongElement(Op(x, 2), Dest(x).k) \/ Is(Op(x, 2), "gpr"))
\* The select chain of the largest table is within the cap.
TableLookupShape(x) ==
    LET table == Op(x, 2) IN
    /\ Dest(x).k = 1 /\ Is(table, "list") /\ table.k = 1 /\ Full(table)
    /\ SameArrangement(Op(x, 3), Dest(x))
    /\ Dest(x).n * Len(table.list) * RegisterBytes <= 1024
BitwiseSelectShape(x) == Uniform(x, 3) /\ Dest(x).k = 1

----------------------------------------------------------------------------
\* Shapes: width.rs and multiply.rs.

WidenShape(x) ==
    LET k == Dest(x).k
        narrow == x.arg.f = "narrow"
        wide(o) == /\ Is(o, "vector") /\ o.k = (IF narrow THEN 2 * k ELSE k)
                   /\ LanesIn(o) = (IF narrow THEN Written(x) ELSE LanesIn(Dest(x)))
    IN  /\ Len(x.operands) = (IF narrow \/ x.arg.f = "extend" THEN 2 ELSE 3)
        /\ narrow \/ k >= 2
        /\ narrow => k <= 4 /\ wide(Op(x, 2)) /\ (x.upper => Full(Dest(x)))
        /\ ~narrow => IF x.arg.wide_first THEN wide(Op(x, 2)) ELSE LongSource(x, Op(x, 2), k \div 2)
        /\ x.arg.f \in {"add", "sub", "mul"} => LongSource(x, Op(x, 3), k \div 2)
PairwiseLongShape(x) ==
    LET source == Op(x, 2) IN
    /\ Len(x.operands) = 2 /\ Is(Dest(x), "vector") /\ Is(source, "vector")
    /\ 2 * source.k = Dest(x).k /\ LanesIn(source) = 2 * LanesIn(Dest(x))
HighNarrowShape(x) ==
    /\ Len(x.operands) = 3 /\ Dest(x).k \in {1, 2, 4} /\ (x.upper => Full(Dest(x)))
    /\ \A i \in 2..3 : /\ Is(Op(x, i), "vector") /\ Op(x, i).k = 2 * Dest(x).k
                       /\ LanesIn(Op(x, i)) = Written(x)
ConvertShape(x) ==
    LET k == Dest(x).k
        source == Op(x, 2)
    IN  /\ Is(Dest(x), "vector") /\ Is(source, "vector")
        /\ x.upper => x.arg.f \in {"widen", "narrow"} /\ Full(IF x.arg.f = "widen" THEN source ELSE Dest(x))
        /\ x.imm = 0 \/ (x.imm \in 1..Width(x) /\ x.arg.scales /\ -x.imm >= LowestQ(k))
        /\ CASE x.arg.f = "widen" -> LongSource(x, source, k \div 2)
             [] x.arg.f = "narrow" -> source.k = 2 * k /\ LanesIn(source) = Written(x)
             [] OTHER -> SameArrangement(source, Dest(x))
        /\ FloatLane(k)
\* Scalars, and a general register of any width, for the directed roundings.
ConvertScalarShape(x) ==
    ~x.arg.scales /\ Is(Dest(x), "scalar") /\ Is(Op(x, 2), "scalar") /\ Op(x, 2).k = Dest(x).k /\ FloatLane(Dest(x).k)
ConvertToGprShape(x) ==
    ~x.arg.scales /\ Is(Dest(x), "gpr") /\ Is(Op(x, 2), "scalar") /\ FloatLane(Op(x, 2).k)
ReduceShape(x) ==
    LET source == Op(x, 2)
        float == x.arg.f \in {"fmax", "fmin"}
    IN  /\ Len(x.operands) = 2 /\ Is(source, "vector")
        /\ source.k \in (IF float THEN {2, 4} ELSE {1, 2, 4}) /\ (source.k = 4 => Full(source))
        /\ Is(Dest(x), "scalar") /\ Dest(x).k = (IF x.arg.f = "addlong" THEN 2 * source.k ELSE source.k)
AccumulateShape(x) ==
    IF x.arg.long THEN Len(x.operands) = 3 /\ \A i \in 2..3 : LongSource(x, Op(x, i), Dest(x).k \div 2)
    ELSE Uniform(x, 3) /\ ~x.upper
FusedStepIsEmulable(k) == k = 2
ByElementShape(x) ==
    LET long == x.arg.f = "long"
        k == IF long THEN Dest(x).k \div 2 ELSE Dest(x).k
    IN  /\ Len(x.operands) = 3 /\ (x.upper => long)
        /\ CASE x.arg.f = "float" -> FloatLane(k)
             [] x.arg.f = "fused" -> FusedStepIsEmulable(k)
             [] OTHER -> k \in {2, 4}
        /\ LongSource(x, Op(x, 2), k) /\ LongElement(Op(x, 3), k)
DotProductShape(x) ==
    LET bytes(o) == Is(o, "vector") /\ o.k = 1 /\ LanesIn(o) = 4 * LanesIn(Dest(x)) IN
    Dest(x).k = 4 /\ bytes(Op(x, 2)) /\ (bytes(Op(x, 3)) \/ LongElement(Op(x, 3), 4))
\* The partial products of two lanes of 64 bits exceed the cap in no form.
PolynomialMultiplyShape(x) ==
    /\ Dest(x).k \in {2, 16}
    /\ \A i \in 2..3 : LongSource(x, Op(x, i), Dest(x).k \div 2)
FusedStepShape(x) == Uniform(x, 3) /\ FusedStepIsEmulable(Dest(x).k)

Shape(x) ==
    CASE x.op \in {"int", "fp", "mulx"} -> PackedShape(x)
      [] x.op = "bits" -> BitwiseUnaryShape(x)     [] x.op = "round" -> RoundToIntegralShape(x)
      [] x.op = "fold" -> FloatMinMaxShape(x)      [] x.op = "pairwise" -> PairwiseShape(x)
      [] x.op = "pairscalar" -> ScalarPairwiseShape(x)
      [] x.op \in {"abd", "fabd"} -> AbsoluteDifferenceShape(x)
      [] x.op = "sat" -> SaturatingShape(x) \/ SaturatingScalarShape(x)
      [] x.op = "mixed" -> MixedSignAddShape(x)    [] x.op = "doublinglong" -> DoublingLongShape(x)
      [] x.op = "shift" -> ShiftShape(x)           [] x.op = "shiftinsert" -> ShiftInsertShape(x)
      [] x.op \in {"compare", "fcompare"} -> CompareShape(x)
      [] x.op = "estimate" -> EstimateShape(x)     [] x.op = "immediate" -> ImmediateShape(x)
      [] x.op = "dup" -> DuplicateShape(x)         [] x.op = "ext" -> ExtractShape(x)
      [] x.op = "permute" -> PermuteShape(x)       [] x.op = "togpr" -> ElementToGprShape(x)
      [] x.op = "insert" -> InsertShape(x)         [] x.op = "table" -> TableLookupShape(x)
      [] x.op = "select" -> BitwiseSelectShape(x)  [] x.op = "widen" -> WidenShape(x)
      [] x.op = "pairlong" -> PairwiseLongShape(x) [] x.op = "highnarrow" -> HighNarrowShape(x)
      [] x.op = "convert" -> ConvertShape(x) \/ ConvertScalarShape(x) \/ ConvertToGprShape(x)
      [] x.op = "reduce" -> ReduceShape(x)         [] x.op = "accumulate" -> AccumulateShape(x)
      [] x.op = "element" -> ByElementShape(x)     [] x.op = "dot" -> DotProductShape(x)
      [] x.op = "pmull" -> PolynomialMultiplyShape(x)
      [] x.op = "fused" -> FusedStepShape(x)

----------------------------------------------------------------------------
\* The lanes: arith.rs.

Prior(s, x) == ValueOf(s, Dest(x))
\* The lane of a source of the forms that read its upper half.
SourceLane(x, i) == IF x.upper THEN i + LanesIn(Dest(x)) ELSE i
\* The forms that write the upper half keep the lower one.
IntoUpper(s, x, v) ==
    LET n == Cardinality(DOMAIN v)
        low == Prior(s, x)
    IN  IF x.upper THEN [j \in 0..(2 * n - 1) |-> IF j < n THEN low[j] ELSE v[j - n]] ELSE v

PackedLanes(s, x) ==
    LET a == First(s, x)
        b == ValueOf(s, Op(x, Len(x.operands)))
        k == Dest(x).k
    IN  CASE x.op = "int" -> PackedInt(x.arg, a, b, k)
          [] x.op = "fp" -> Lanewise2(LAMBDA p, q : FpLane(x.arg, p, q, k), a, b, k)
          [] x.op = "mulx" -> Lanewise2(LAMBDA p, q : MultiplyExtendedLane(p, q, k), a, b, k)
BitwiseUnaryLanes(s, x) ==
    Lanewise1(LAMBDA p : BitwiseUnaryLane(x.arg, p, Width(x)), First(s, x), Dest(x).k)
RoundToIntegralLanes(s, x) ==
    Lanewise1(LAMBDA p : RoundToIntegralLane(p, Dest(x).k, x.arg.mode, x.arg.bits), First(s, x), Dest(x).k)
LaneCombineLanes(s, x) ==
    Lanewise2(LAMBDA p, q : PairLane(x.arg, p, q, Dest(x).k), First(s, x), Second(s, x), Dest(x).k)
PairwiseLanes(s, x) ==
    LET k == Dest(x).k
        half == LanesIn(Dest(x)) \div 2
        from(i) == IF i < half THEN First(s, x) ELSE Second(s, x)
        pair(i) == 2 * (i % half)
    IN  Concat(LAMBDA i : Of2(LAMBDA p, q : PairLane(x.arg, p, q, k),
                              Lane(from(i), k, pair(i)), Lane(from(i), k, pair(i) + 1)), k, 2 * half)
ScalarPairwiseElement(s, x) ==
    LET k == Dest(x).k
        v == First(s, x)
    IN  FromLane(Of2(LAMBDA p, q : PairLane(x.arg, p, q, k), Lane(v, k, 0), Lane(v, k, 1)), k)
AbsoluteDifferenceLanes(s, x) ==
    LET k == Dest(x).k
        w == Width(x)
    IN  IF x.op = "fabd"
        THEN Lanewise2(LAMBDA p, q : FloatDifferenceLane(p, q, k), First(s, x), Second(s, x), k)
        ELSE Lanewise3(LAMBDA acc, p, q :
                          Pattern((IF x.arg.acc THEN acc ELSE 0) + AbsoluteDifferenceLane(x.arg.signed, p, q, w), w),
                       Prior(s, x), First(s, x), Second(s, x), k)
SaturatingLane2(x, a, b, w) ==
    CASE x.arg.f = "addsub" -> SaturatingAddSub(x.arg, a, b, w)
      [] x.arg.f = "halve" -> HalvingAdd(x.arg, a, b, w)
      [] x.arg.f = "narrow" -> Clamp(a, 2 * w, w, x.arg.to)
      [] x.arg.f = "shiftnarrow" -> ShiftNarrowLane(x.arg, a, x.imm, w)
      [] x.arg.f = "unary" -> SaturatingUnary(x.arg, a, w)
      [] x.arg.f = "dmulh" -> DoublingMultiplyHigh(x.arg, a, b, w)
SaturatingLanes(s, x) ==
    LET from == IF Narrowing(x) THEN 2 * Dest(x).k ELSE Dest(x).k
        a == First(s, x)
        b == IF Len(x.operands) = 3 /\ Is(Op(x, 3), "vector") THEN Second(s, x) ELSE a
    IN  IntoUpper(s, x, Concat(LAMBDA i : Of2(LAMBDA p, q : SaturatingLane2(x, p, q, Width(x)),
                                              Lane(a, from, i), Lane(b, from, i)), Dest(x).k, Written(x)))
MixedSignAddLanes(s, x) ==
    LET w == Width(x)
        signed == x.arg = "signed"
    IN  Lanewise2(LAMBDA acc, p : Clamp(Ext(acc, w, signed) + Ext(p, w, ~signed), w + 2, w,
                                        IF signed THEN "signed" ELSE "signed_to_unsigned"),
                  Prior(s, x), First(s, x), Dest(x).k)
\* The factor of a lane: its own, or the one element named.
Factor(s, x, k, i) == IF Is(Op(x, 3), "element") THEN LaneOf(s, Op(x, 3)) ELSE Lane(Second(s, x), k, i)
DoublingLongLanes(s, x) ==
    LET k == Dest(x).k \div 2 IN
    Concat(LAMBDA i : Of3(LAMBDA acc, p, q : DoublingLong(x.arg, acc, p, q, Width(x)),
                          Lane(Prior(s, x), Dest(x).k, i), Lane(First(s, x), k, SourceLane(x, i)),
                          Factor(s, x, k, SourceLane(x, i))), Dest(x).k, LanesIn(Dest(x)))
ShiftLane(x, p, raw, w) ==
    CASE x.arg.f = "shl" -> Shl(p, x.imm, w)
      [] x.arg.f = "sqshl" -> SaturatingShiftLeft(x.arg.signed, p, x.imm, w)
      [] x.arg.f = "sqshlu" -> ShiftLeftUnsigned(p, x.imm, w)
      [] x.arg.f = "shr" -> RoundedShiftRight(x.arg.signed, x.arg.round, p, x.imm, w, x.imm)
      [] x.arg.f = "reg" -> ShiftByRegister(x.arg, p, raw, w)
ShiftLanes(s, x) ==
    Lanewise2(LAMBDA p, raw : ShiftLane(x, p, raw, Width(x)), First(s, x),
              IF x.arg.f = "reg" THEN Second(s, x) ELSE First(s, x), Dest(x).k)
ShiftInsertLanes(s, x) ==
    Lanewise2(LAMBDA acc, p : ShiftInsertLane(x.arg.left, acc, p, x.imm, Width(x)), Prior(s, x), First(s, x), Dest(x).k)
CompareLanes(s, x) ==
    LET k == Dest(x).k
        a == First(s, x)
        b == IF Is(Op(x, 3), "vector") THEN Second(s, x) ELSE [j \in DOMAIN a |-> 0]
    IN  Lanewise2(LAMBDA p, q : IF x.op = "fcompare" THEN FloatCompareLane(x.arg, p, q, k)
                                ELSE CompareLane(x.arg, p, q, Width(x)), a, b, k)
\* A free value: the architecture only bounds its error.
EstimateValue(x) == [j \in 0..(Dest(x).n - 1) |-> Unk]

----------------------------------------------------------------------------
\* The lanes: permute.rs.

ImmediateLanes(x) ==
    LET raw == x.imm * 2 ^ (x.arg.lsl + x.arg.msl) + Ones(x.arg.msl)
        lane == Pattern(IF x.arg.invert THEN -raw - 1 ELSE raw, Width(x))
    IN  Concat(LAMBDA i : lane, Dest(x).k, LanesIn(Dest(x)))
GeneralElement(s, o, k) == Slice(s.regs[o.reg], 0, k)
DuplicateLanes(s, x) ==
    LET o == Op(x, 2)
        element == IF Is(o, "element") THEN ValueOf(s, o) ELSE GeneralElement(s, o, Dest(x).k)
    IN  [j \in 0..(Dest(x).n - 1) |-> element[j % Dest(x).k]]
ExtractWindow(s, x) ==
    LET n == Dest(x).n IN
    [j \in 0..(n - 1) |-> IF j + x.imm < n THEN First(s, x)[j + x.imm] ELSE Second(s, x)[j + x.imm - n]]
\* Which source a lane comes from, and its lane there.
PermutedSource(arg, i, lanes, k) ==
    LET half == lanes \div 2
        per == arg.n \div k
    IN  CASE arg.f = "zip" -> <<i % 2, (IF arg.odd THEN half ELSE 0) + (i \div 2)>>
          [] arg.f = "uzp" -> <<IF i < half THEN 0 ELSE 1, 2 * (i % half) + (IF arg.odd THEN 1 ELSE 0)>>
          [] arg.f = "trn" -> <<i % 2, 2 * (i \div 2) + (IF arg.odd THEN 1 ELSE 0)>>
          [] arg.f = "rev" -> <<0, (i \div per) * per + (per - 1 - (i % per))>>
PermuteLanes(s, x) ==
    LET k == Dest(x).k
        from(i) == PermutedSource(x.arg, i, LanesIn(Dest(x)), k)
        value(which) == IF which = 0 THEN First(s, x) ELSE Second(s, x)
    IN  [j \in 0..(Dest(x).n - 1) |-> value(from(j \div k)[1])[from(j \div k)[2] * k + (j % k)]]
ElementToGpr(s, x) ==
    LET o == Op(x, 2)
        fill == IF x.arg.signed /\ o.k < Dest(x).n
                THEN LET top == ValueOf(s, o)[o.k - 1] IN
                     IF top = Unk THEN Unk ELSE IF BitSet(top, Byte - 1) THEN Ones(Byte) ELSE 0
                ELSE 0
    IN  [j \in 0..(Dest(x).n - 1) |-> IF j < o.k THEN ValueOf(s, o)[j] ELSE fill]
InsertSource(s, x) ==
    IF Is(Op(x, 2), "element") THEN ValueOf(s, Op(x, 2)) ELSE GeneralElement(s, Op(x, 2), Dest(x).k)
\* tbx keeps the byte whose index is past the table, tbl clears it.
TableLookupLanes(s, x) ==
    LET regs == Op(x, 2).list
        size == RegisterBytes * Len(regs)
        entry(i) == s.regs[regs[(i \div RegisterBytes) + 1]][i % RegisterBytes]
    IN  [j \in 0..(Dest(x).n - 1) |->
            LET index == Second(s, x)[j] IN
            IF index = Unk THEN Unk
            ELSE IF index < size THEN entry(index) ELSE IF x.arg.keep THEN Prior(s, x)[j] ELSE 0]
BitwiseSelect(s, x) ==
    LET d == Prior(s, x)
        a == First(s, x)
        b == Second(s, x)
        pick(mask, then, else) ==
            Lanewise3(LAMBDA m, p, q : (p & m) | (q & (m ^^ Ones(Byte))), mask, then, else, 1)
    IN  CASE x.arg = "bsl" -> pick(d, a, b) [] x.arg = "bit" -> pick(b, a, d) [] x.arg = "bif" -> pick(b, d, a)

----------------------------------------------------------------------------
\* The lanes: width.rs and multiply.rs.

WidenLane(s, x, i) ==
    LET k == Dest(x).k
        narrow == k \div 2
        w == Width(x)
        ext(p) == Pattern(Ext(p, Bits(narrow), x.arg.signed), w)
        first == Lane(First(s, x), narrow, SourceLane(x, i))
        second == Lane(Second(s, x), narrow, SourceLane(x, i))
        left == IF x.arg.wide_first THEN Lane(First(s, x), k, i) ELSE Of1(ext, first)
    IN  CASE x.arg.f = "narrow" -> Of1(LAMBDA p : Pattern(p, w), Lane(First(s, x), 2 * k, i))
          [] x.arg.f \in {"extend", "shift"} -> Of1(LAMBDA p : Shl(ext(p), x.imm, w), first)
          [] OTHER -> Of2(LAMBDA p, q : PackedIntLane(x.arg, p, ext(q), w), left, second)
WidenLanes(s, x) ==
    IF x.arg.f = "narrow" THEN IntoUpper(s, x, Concat(LAMBDA i : WidenLane(s, x, i), Dest(x).k, Written(x)))
    ELSE Concat(LAMBDA i : WidenLane(s, x, i), Dest(x).k, LanesIn(Dest(x)))
PairwiseLongLanes(s, x) ==
    LET k == Dest(x).k \div 2
        ext(p) == Ext(p, Bits(k), x.arg.signed)
        v == First(s, x)
    IN  Concat(LAMBDA i : Of3(LAMBDA acc, p, q : Pattern((IF x.arg.acc THEN acc ELSE 0) + ext(p) + ext(q), Width(x)),
                              Lane(Prior(s, x), Dest(x).k, i), Lane(v, k, 2 * i), Lane(v, k, 2 * i + 1)),
               Dest(x).k, LanesIn(Dest(x)))
HighNarrowLanes(s, x) ==
    LET k == 2 * Dest(x).k IN
    IntoUpper(s, x, Concat(LAMBDA i : Of2(LAMBDA p, q : HighNarrowLane(x.arg.sub, x.arg.round, p, q, Width(x)),
                                          Lane(First(s, x), k, i), Lane(Second(s, x), k, i)), Dest(x).k, Written(x)))
ConvertLane(x, p, from, k) ==
    CASE x.arg.f = "int" -> IntToFloatLane(p, x.arg.signed, from, x.imm, k)
      [] x.arg.f = "float" -> FloatToIntLane(p, x.arg.signed, from, x.imm, x.arg.mode, Bits(k))
      [] x.arg.f \in {"widen", "narrow"} -> FpToFp(p, from, k, "even")
ConvertLanes(s, x) ==
    LET k == Dest(x).k
        from == CASE x.arg.f = "widen" -> k \div 2 [] x.arg.f = "narrow" -> 2 * k [] OTHER -> k
        at(i) == IF x.arg.f = "widen" THEN SourceLane(x, i) ELSE i
        lanes == IF x.arg.f = "narrow" THEN Written(x) ELSE LanesIn(Dest(x))
        v == Concat(LAMBDA i : Of1(LAMBDA p : ConvertLane(x, p, from, k), Lane(First(s, x), from, at(i))), k, lanes)
    IN  IF x.arg.f = "narrow" THEN IntoUpper(s, x, v) ELSE v
FloatToGpr(s, x) ==
    FromLane(Of1(LAMBDA p : ConvertLane(x, p, Op(x, 2).k, Dest(x).n), LaneOf(s, Op(x, 2))), Dest(x).n)
\* The fold takes the lanes from the left.
ReduceStep(x, a, b) ==
    IF x.arg.f = "addlong" THEN Pattern(a + b, Width(x)) ELSE PairLane(x.arg, a, b, Dest(x).k)
ReduceLanes(s, x) ==
    LET k == Op(x, 2).k
        ext(p) == IF x.arg.f = "addlong" THEN Pattern(Ext(p, Bits(k), x.arg.signed), Width(x)) ELSE p
        element(i) == Of1(ext, Lane(First(s, x), k, i))
        fold[i \in 0..(LanesIn(Op(x, 2)) - 1)] ==
            IF i = 0 THEN element(0) ELSE Of2(LAMBDA p, q : ReduceStep(x, p, q), fold[i - 1], element(i))
    IN  FromLane(fold[LanesIn(Op(x, 2)) - 1], Dest(x).k)
Accumulated(combine, acc, product, w) ==
    CASE combine = "none" -> Pattern(product, w)
      [] combine = "add" -> Pattern(acc + product, w)
      [] combine = "sub" -> Pattern(acc - product, w)
MultiplyAccumulateLanes(s, x) ==
    LET k == IF x.arg.long THEN Dest(x).k \div 2 ELSE Dest(x).k
        at(i) == IF x.arg.long THEN SourceLane(x, i) ELSE i
        ext(p) == IF x.arg.long THEN Ext(p, Bits(k), x.arg.signed) ELSE p
    IN  Concat(LAMBDA i : Of3(LAMBDA acc, p, q : Accumulated(x.arg.combine, acc, ext(p) * ext(q), Width(x)),
                              Lane(Prior(s, x), Dest(x).k, i), Lane(First(s, x), k, at(i)), Lane(Second(s, x), k, at(i))),
               Dest(x).k, LanesIn(Dest(x)))
ByElementLane(x, acc, a, b, k) ==
    CASE x.arg.f \in {"int", "long"} ->
            LET ext(p) == IF x.arg.f = "long" THEN Ext(p, Bits(k), x.arg.signed) ELSE p
            IN  Accumulated(x.arg.combine, acc, ext(a) * ext(b), Width(x))
      [] x.arg.f = "float" -> FpLane("fmul", a, b, k)
      [] x.arg.f = "fused" -> FusedLane(x.arg.step, acc, a, b, k)
ByElementLanes(s, x) ==
    LET k == Op(x, 3).k IN
    Concat(LAMBDA i : Of3(LAMBDA acc, p, q : ByElementLane(x, acc, p, q, k), Lane(Prior(s, x), Dest(x).k, i),
                          Lane(First(s, x), k, SourceLane(x, i)), LaneOf(s, Op(x, 3))), Dest(x).k, LanesIn(Dest(x)))
DotProductLanes(s, x) ==
    LET element == Is(Op(x, 3), "element")
        a == First(s, x)
        b == IF element THEN s.regs[Op(x, 3).reg] ELSE Second(s, x)
        group(i) == IF element THEN Op(x, 3).index ELSE i
        term(i, t) == Of2(LAMBDA p, q : Ext(p, Byte, x.arg.signed) * Ext(q, Byte, x.arg.signed),
                          a[4 * i + t], b[4 * group(i) + t])
        known(i) == \A t \in 0..3 : Unk \notin {a[4 * i + t], b[4 * group(i) + t]}
    IN  Concat(LAMBDA i : Of1(LAMBDA acc : IF known(i) THEN Pattern(acc + term(i, 0) + term(i, 1) + term(i, 2) + term(i, 3), Width(x))
                                           ELSE Unk, Lane(Prior(s, x), 4, i)), 4, LanesIn(Dest(x)))
PolynomialMultiplyLanes(s, x) ==
    LET k == Dest(x).k \div 2 IN
    Concat(LAMBDA i : Of2(LAMBDA p, q : PolynomialProduct(p, q, Bits(k)), Lane(First(s, x), k, SourceLane(x, i)),
                          Lane(Second(s, x), k, SourceLane(x, i))), Dest(x).k, LanesIn(Dest(x)))
FusedStepLanes(s, x) ==
    Lanewise3(LAMBDA acc, p, q : FusedLane(x.arg, acc, p, q, Dest(x).k), Prior(s, x), First(s, x), Second(s, x), Dest(x).k)

NeonValue(s, x) ==
    CASE x.op \in {"int", "fp", "mulx"} -> PackedLanes(s, x)
      [] x.op = "bits" -> BitwiseUnaryLanes(s, x)     [] x.op = "round" -> RoundToIntegralLanes(s, x)
      [] x.op = "fold" -> LaneCombineLanes(s, x)      [] x.op = "pairwise" -> PairwiseLanes(s, x)
      [] x.op = "pairscalar" -> ScalarPairwiseElement(s, x)
      [] x.op \in {"abd", "fabd"} -> AbsoluteDifferenceLanes(s, x)
      [] x.op = "sat" -> SaturatingLanes(s, x)        [] x.op = "mixed" -> MixedSignAddLanes(s, x)
      [] x.op = "doublinglong" -> DoublingLongLanes(s, x)
      [] x.op = "shift" -> ShiftLanes(s, x)           [] x.op = "shiftinsert" -> ShiftInsertLanes(s, x)
      [] x.op \in {"compare", "fcompare"} -> CompareLanes(s, x)
      [] x.op = "estimate" -> EstimateValue(x)        [] x.op = "immediate" -> ImmediateLanes(x)
      [] x.op = "dup" -> DuplicateLanes(s, x)         [] x.op = "ext" -> ExtractWindow(s, x)
      [] x.op = "permute" -> PermuteLanes(s, x)       [] x.op = "togpr" -> ElementToGpr(s, x)
      [] x.op = "insert" -> InsertSource(s, x)        [] x.op = "table" -> TableLookupLanes(s, x)
      [] x.op = "select" -> BitwiseSelect(s, x)       [] x.op = "widen" -> WidenLanes(s, x)
      [] x.op = "pairlong" -> PairwiseLongLanes(s, x) [] x.op = "highnarrow" -> HighNarrowLanes(s, x)
      [] x.op = "convert" -> IF Is(Dest(x), "gpr") THEN FloatToGpr(s, x) ELSE ConvertLanes(s, x)
      [] x.op = "reduce" -> ReduceLanes(s, x)         [] x.op = "accumulate" -> MultiplyAccumulateLanes(s, x)
      [] x.op = "element" -> ByElementLanes(s, x)     [] x.op = "dot" -> DotProductLanes(s, x)
      [] x.op = "pmull" -> PolynomialMultiplyLanes(s, x)
      [] x.op = "fused" -> FusedStepLanes(s, x)
\* A general register narrower than the element it goes to, or comes from.
NarrowGeneral(x) ==
    \/ x.op = "togpr" /\ Dest(x).n < Op(x, 2).k
    \/ x.op \in {"dup", "insert"} /\ Is(Op(x, 2), "gpr") /\ Op(x, 2).n < Dest(x).k
LiftNeon(s, x) ==
    IF ~Shape(x) \/ NarrowGeneral(x) THEN Unsupported(s)
    ELSE IF x.op = "insert" THEN [s EXCEPT !.regs[Dest(x).reg] =
                                    Splice(s.regs[Dest(x).reg], NeonValue(s, x), Dest(x).index * Dest(x).k)]
    ELSE Put(s, Dest(x), NeonValue(s, x))

----------------------------------------------------------------------------
\* The processor.

RealUniformLane(x, acc, a, b, k) ==
    LET w == Bits(k)
        sg(p) == Ext(p, w, x.arg.signed)
        amount == Signed(Pattern(b, Byte), Byte)
    IN  CASE x.op = "int" -> ExactInt(x.arg, a, b, w)
          [] x.op = "fp" -> RealFp(x.arg, a, b, k)
          [] x.op = "mulx" -> RealMulx(a, b, k)
          [] x.op = "bits" -> RealBitwiseUnary(x.arg, a, w)
          [] x.op = "round" -> RealRound(a, k, x.arg.mode, x.arg.bits)
          [] x.op = "fold" -> RealPair(x.arg, a, b, k)
          [] x.op = "abd" -> Pattern((IF x.arg.acc THEN acc ELSE 0) + Highest(sg(a) - sg(b), sg(b) - sg(a)), w)
          [] x.op = "fabd" -> RealFp("fsub", a, b, k) % 2 ^ (w - 1)
          [] x.op = "sat" -> RealSaturating(x.arg, a, b, x.imm, w)
          [] x.op = "mixed" -> Within(Ext(acc, w, x.arg = "signed") + Ext(a, w, x.arg # "signed"), x.arg = "signed", w)
          [] x.op = "shift" ->
                (CASE x.arg.f = "shl" -> Pattern(a * 2 ^ x.imm, w)
                  [] x.arg.f = "sqshl" -> Within(sg(a) * 2 ^ x.imm, x.arg.signed, w)
                  [] x.arg.f = "sqshlu" -> Within(sg(a) * 2 ^ x.imm, FALSE, w)
                  [] x.arg.f = "shr" -> ExactShiftRight(x.arg.signed, x.arg.round, a, x.imm, w)
                  [] x.arg.f = "reg" -> ExactShiftRegister(x.arg.signed, x.arg.saturate, x.arg.round, a, b, w))
          [] x.op = "shiftinsert" ->
                IF x.arg.left THEN Pattern(a * 2 ^ x.imm, w) + (acc % 2 ^ x.imm)
                ELSE (a \div 2 ^ x.imm) + (acc - (acc % 2 ^ (w - x.imm)))
          [] x.op = "compare" -> CompareLane(x.arg, a, b, w)
          [] x.op = "fcompare" -> FloatCompareLane(x.arg, a, b, k)
          [] x.op = "accumulate" -> Accumulated(x.arg.combine, acc, a * b, w)
          [] x.op = "fused" -> RealFused(x.arg, acc, a, b, k)
          [] x.op = "select" ->
                (CASE x.arg = "bsl" -> (a & acc) | (b & (Ones(w) - acc))
                  [] x.arg = "bit" -> (a & b) | (acc & (Ones(w) - b))
                  [] x.arg = "bif" -> (acc & b) | (a & (Ones(w) - b)))
          [] x.op = "convert" ->
                IF x.arg.f = "int" THEN RealIntToFloat(a, x.arg.signed, k, x.imm, k)
                ELSE RealFloatToInt(a, x.arg.signed, k, x.imm, x.arg.mode, w)
RealUniform(s, x) ==
    LET a == First(s, x)
        b == IF Len(x.operands) = 3 /\ Is(Op(x, 3), "vector") THEN Second(s, x) ELSE [j \in DOMAIN a |-> 0]
    IN  Lanewise3(LAMBDA acc, p, q : RealUniformLane(x, acc, p, q, Dest(x).k), Prior(s, x), a, b, Dest(x).k)
\* The half of a register that a long form reads.
HalfOf(s, x, o) == Slice(s.regs[o.reg], IF x.upper THEN RegisterBytes \div 2 ELSE 0, RegisterBytes \div 2)
RealLongLane(x, wide, acc, a, b, k) ==
    LET w == Bits(k)
        n == w \div 2
        p == Ext(a, n, x.arg.signed)
        q == Ext(b, n, x.arg.signed)
        left == IF x.arg.wide_first THEN wide ELSE p
    IN  CASE x.op = "widen" /\ x.arg.f \in {"extend", "shift"} -> Pattern(p * 2 ^ x.imm, w)
          [] x.op = "widen" /\ x.arg.f = "add" -> Pattern(left + q, w)
          [] x.op = "widen" /\ x.arg.f = "sub" -> Pattern(left - q, w)
          [] x.op = "widen" /\ x.arg.f = "mul" -> Pattern(p * q, w)
          [] x.op \in {"accumulate", "element"} -> Accumulated(x.arg.combine, acc, p * q, w)
RealLong(s, x) ==
    LET k == Dest(x).k
        n == k \div 2
        first(i) == Lane(HalfOf(s, x, Op(x, 2)), n, i)
        second(i) == CASE Len(x.operands) = 2 -> 0
                       [] Len(x.operands) > 2 /\ Is(Op(x, 3), "element") -> LaneOf(s, Op(x, 3))
                       [] Len(x.operands) > 2 /\ Is(Op(x, 3), "immediate") -> 0
                       [] OTHER -> Lane(HalfOf(s, x, Op(x, 3)), n, i)
        acc(i) == Lane(s.regs[Dest(x).reg], k, i)
        wide(i) == Lane(s.regs[Op(x, 2).reg], k, i)
        value(i) == CASE x.op = "doublinglong" -> RealDoublingLong(x.arg, acc(i), first(i), second(i), Bits(k))
                      [] x.op = "pmull" -> RealPolynomial(first(i), second(i), Bits(n))
                      [] x.op = "convert" -> RealFpToFp(first(i), n, k)
                      [] OTHER -> RealLongLane(x, wide(i), acc(i), first(i), second(i), k)
    IN  Concat(value, k, LanesIn(Dest(x)))
\* The forms that narrow write one half of the destination.
RealNarrow(s, x) ==
    LET k == Dest(x).k
        w == Bits(k)
        a(i) == Lane(s.regs[Op(x, 2).reg], 2 * k, i)
        b(i) == Lane(s.regs[Op(x, 3).reg], 2 * k, i)
        half == RegisterBytes \div 2
        value(i) == CASE x.op = "widen" -> a(i) % 2 ^ w
                      [] x.op = "sat" -> RealSaturating(x.arg, a(i), 0, x.imm, w)
                      [] x.op = "highnarrow" ->
                            ((IF x.arg.sub THEN a(i) - b(i) ELSE a(i) + b(i)) + (IF x.arg.round THEN 2 ^ (w - 1) ELSE 0))
                                \div 2 ^ w
                      [] x.op = "convert" -> RealFpToFp(a(i), 2 * k, k)
        v == Concat(LAMBDA i : Pattern(value(i), w), k, half \div k)
    IN  IF x.upper THEN [j \in 0..(RegisterBytes - 1) |-> IF j < half THEN s.regs[Dest(x).reg][j] ELSE v[j - half]]
        ELSE v
\* Adjacent lanes of the two sources, one after the other.
RealPairs(s, x) ==
    LET k == Dest(x).k
        n == LanesIn(Op(x, 2))
        all(i) == IF i < n THEN Lane(First(s, x), k, i) ELSE Lane(Second(s, x), k, i - n)
    IN  Concat(LAMBDA i : RealPair(x.arg, all(2 * i), all(2 * i + 1), k), k, LanesIn(Dest(x)))
RealPairsLong(s, x) ==
    LET k == Dest(x).k
        half(i) == Ext(Lane(First(s, x), k \div 2, i), Bits(k) \div 2, x.arg.signed)
    IN  Concat(LAMBDA i : Pattern((IF x.arg.acc THEN Lane(Prior(s, x), k, i) ELSE 0) + half(2 * i) + half(2 * i + 1), Bits(k)),
               k, LanesIn(Dest(x)))
\* The manual reduces the two halves, and then what they give.
RealReduce(s, x) ==
    LET k == Op(x, 2).k
        n == LanesIn(Op(x, 2))
        sum[i \in 0..n] == IF i = 0 THEN 0 ELSE sum[i - 1] + Ext(Lane(First(s, x), k, i - 1), Bits(k), x.arg.signed)
        tree[size \in {1, 2, 4, 8, 16}, i \in 0..n] ==
            IF size = 1 THEN Lane(First(s, x), k, i)
            ELSE RealPair(x.arg, tree[size \div 2, i], tree[size \div 2, i + (size \div 2)], k)
    IN  FromLane(IF x.arg.f \in {"add", "addlong"} THEN Pattern(sum[n], Width(x)) ELSE tree[n, 0], Dest(x).k)
RealElement(s, x) ==
    LET k == Dest(x).k
        e == LaneOf(s, Op(x, 3))
    IN  Lanewise2(LAMBDA acc, p :
            CASE x.arg.f = "int" -> Accumulated(x.arg.combine, acc, p * e, Bits(k))
              [] x.arg.f = "float" -> RealFp("fmul", p, e, k)
              [] x.arg.f = "fused" -> RealFused(x.arg.step, acc, p, e, k), Prior(s, x), First(s, x), k)
RealDot(s, x) ==
    LET g(i) == IF Is(Op(x, 3), "element") THEN 4 * Op(x, 3).index ELSE 4 * i
        sx(p) == Ext(p, Byte, x.arg.signed)
        sum[i \in 0..15, t \in 0..4] ==
            IF t = 0 THEN Lane(Prior(s, x), 4, i)
            ELSE sum[i, t - 1] + sx(First(s, x)[4 * i + t - 1]) * sx(s.regs[Op(x, 3).reg][g(i) + t - 1])
    IN  Concat(LAMBDA i : Pattern(sum[i, 4], Bits(4)), 4, LanesIn(Dest(x)))
RealTable(s, x) ==
    LET regs == Op(x, 2).list IN
    [j \in 0..(Dest(x).n - 1) |->
        LET i == Second(s, x)[j] IN
        CASE i \div 16 < Len(regs) -> s.regs[regs[(i \div 16) + 1]][i % 16]
          [] OTHER -> IF x.arg.keep THEN Prior(s, x)[j] ELSE 0]
RealPermute(s, x) ==
    LET k == Dest(x).k
        n == LanesIn(Dest(x))
        odd == IF x.arg.odd THEN 1 ELSE 0
        a(i) == Lane(First(s, x), 1, i)
        b(i) == Lane(Second(s, x), 1, i)
        \* The lanes of the two sources in a row.
        row(l, j) == IF l < n THEN a(l * k + j) ELSE b((l - n) * k + j)
        lane(i) == CASE x.arg.f = "zip" -> (IF i % 2 = 0 THEN 0 ELSE n) + odd * (n \div 2) + (i \div 2)
                     [] x.arg.f = "uzp" -> 2 * i + odd
                     [] x.arg.f = "trn" -> (IF i % 2 = 0 THEN i ELSE n + i - 1) + odd
                     [] x.arg.f = "rev" -> (i \div (x.arg.n \div k)) * (x.arg.n \div k)
                                            + ((x.arg.n \div k) - 1 - (i % (x.arg.n \div k)))
    IN  [j \in 0..(Dest(x).n - 1) |-> row(lane(j \div k), j % k)]
RealMove(s, x) ==
    LET o == Op(x, 2)
        k == Dest(x).k
    IN  CASE x.op = "immediate" ->
                LET raw == x.imm * 2 ^ (x.arg.lsl + x.arg.msl) + 2 ^ x.arg.msl - 1 IN
                Concat(LAMBDA i : IF x.arg.invert THEN Ones(Bits(k)) - raw ELSE raw, k, LanesIn(Dest(x)))
          [] x.op = "dup" -> [j \in 0..(Dest(x).n - 1) |-> s.regs[o.reg][o.index * k + (j % k)]]
          [] x.op = "ext" -> [j \in 0..(Dest(x).n - 1) |->
                                IF j + x.imm < Dest(x).n THEN s.regs[o.reg][j + x.imm]
                                ELSE s.regs[Op(x, 3).reg][j + x.imm - Dest(x).n]]
          [] x.op = "togpr" -> FromLane(Pattern(Ext(LaneOf(s, o), Bits(o.k), x.arg.signed), Bits(Dest(x).n)), Dest(x).n)
          [] x.op = "insert" -> [j \in DOMAIN s.regs[Dest(x).reg] |->
                                    IF j \div k = Dest(x).index
                                    THEN s.regs[o.reg][(IF Is(o, "element") THEN o.index * k ELSE 0) + (j % k)]
                                    ELSE s.regs[Dest(x).reg][j]]
RealToGpr(s, x) ==
    FromLane(RealFloatToInt(LaneOf(s, Op(x, 2)), x.arg.signed, Op(x, 2).k, 0, x.arg.mode, Bits(Dest(x).n)), Dest(x).n)
Long(x) ==
    \/ x.op \in {"doublinglong", "pmull"}
    \/ x.op = "widen" /\ x.arg.f # "narrow"
    \/ x.op = "accumulate" /\ x.arg.long
    \/ x.op \in {"element", "convert"} /\ x.arg.f \in {"long", "widen"}
Narrow(x) ==
    x.op = "highnarrow" \/ Narrowing(x) \/ (x.op \in {"widen", "convert"} /\ x.arg.f = "narrow")
\* Any value serves for an estimate.
RealValue(s, x) ==
    CASE Long(x) -> RealLong(s, x)
      [] Narrow(x) -> RealNarrow(s, x)
      [] x.op \in {"pairwise", "pairscalar"} -> RealPairs(s, x)
      [] x.op = "pairlong" -> RealPairsLong(s, x)
      [] x.op = "reduce" -> RealReduce(s, x)
      [] x.op = "element" /\ ~Long(x) -> RealElement(s, x)
      [] x.op = "dot" -> RealDot(s, x)
      [] x.op = "table" -> RealTable(s, x)
      [] x.op = "permute" -> RealPermute(s, x)
      [] x.op \in {"immediate", "dup", "ext", "togpr", "insert"} -> RealMove(s, x)
      [] x.op = "convert" /\ Is(Dest(x), "gpr") -> RealToGpr(s, x)
      [] x.op = "estimate" -> First(s, x)
      [] OTHER -> RealUniform(s, x)
ExecuteNeon(s, x) ==
    IF x.op = "insert" THEN [s EXCEPT !.regs[Dest(x).reg] = RealValue(s, x)] ELSE Put(s, Dest(x), RealValue(s, x))
=============================================================================
