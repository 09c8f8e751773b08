--------------------------- MODULE VectorA64Scalar ---------------------------
(***************************************************************************)
(* The scalar floating-point instructions of AArch64, and its structured   *)
(* loads and stores.  A scalar write clears the rest of the register.      *)
(***************************************************************************)
EXTENDS VectorA64

Scalars(x, count) ==
    Len(x.operands) >= count /\ \A i \in 1..count : Is(Op(x, i), "scalar") /\ FloatLane(Op(x, i).k)
FirstLane(s, x) == LaneOf(s, Op(x, 2))
SecondLane(s, x) == LaneOf(s, Op(x, 3))
PutLane(s, x, lane) == Put(s, Dest(x), FromLane(lane, Dest(x).k))

LiftFpArith3(s, x) ==
    PutLane(s, x, Of2(LAMBDA a, b : IF x.arg \in {"fmax", "fmin"} THEN PropagatingMaxMin(x.arg, FALSE, a, b, Dest(x).k)
                                    ELSE FpLane(x.arg, a, b, Dest(x).k), FirstLane(s, x), SecondLane(s, x)))
LiftFpSqrt(s, x) == PutLane(s, x, Of1(LAMBDA a : FpLane("fsqrt", a, a, Dest(x).k), FirstLane(s, x)))
LiftFpRound(s, x) ==
    PutLane(s, x, Of1(LAMBDA a : RoundToIntegralLane(a, Dest(x).k, x.arg.mode, x.arg.bits), FirstLane(s, x)))
LiftFmulx(s, x) ==
    PutLane(s, x, Of2(LAMBDA a, b : MultiplyExtendedLane(a, b, Dest(x).k), FirstLane(s, x), SecondLane(s, x)))
\* The exponent complemented, but for the zeros; a NaN is quieted.
ReciprocalExponent(a, k) ==
    LET most == Ones(Exponent[k])
        exponent == Magnitude(a, k) \div 2 ^ Fraction(k)
        reciprocal == IF exponent = 0 THEN most - 1 ELSE exponent ^^ most
    IN  IF exponent = most /\ a % 2 ^ Fraction(k) # 0 THEN a | QuietBit(k)
        ELSE SignOf(a, k) * 2 ^ (Bits(k) - 1) + reciprocal * 2 ^ Fraction(k)
LiftFrecpx(s, x) == PutLane(s, x, Of1(LAMBDA a : ReciprocalExponent(a, Dest(x).k), FirstLane(s, x)))
LiftFpUnary(s, x) ==
    LET sign == 2 ^ (Bits(Dest(x).k) - 1) IN
    PutLane(s, x, Of1(LAMBDA a : IF x.arg = "abs" THEN a & (sign ^^ Ones(Bits(Dest(x).k))) ELSE a ^^ sign, FirstLane(s, x)))
\* Between vectors, from a general register and to one: a pattern moves.
LiftFmov(s, x) ==
    LET scalar == IF Is(Dest(x), "scalar") THEN Dest(x) ELSE Op(x, 2)
    IN  IF ~Is(scalar, "scalar") \/ Is(Op(x, 2), "immediate") THEN Unsupported(s)
        ELSE Put(s, Dest(x), Slice(s.regs[Op(x, 2).reg], 0, scalar.k))
\* The flags have the polarity of x86, an unordered comparison is less and
\* overflows.
FcmpFlags(a, b, k) ==
    LET unordered == BitOf(IsNan(a, k) \/ IsNan(b, k)) IN
    IF Unk \in {a, b} THEN [f \in DOMAIN NoFlags |-> Unk]
    ELSE [ZF |-> BitOf(Equal(a, b, k)), SF |-> BitOf(Less(a, b, k)), CF |-> BitOf(Less(a, b, k)),
          OF |-> unordered, PF |-> unordered]
LiftFcmp(s, x) ==
    LET b == IF Is(Op(x, 2), "scalar") THEN FirstLane(s, x) ELSE 0 IN
    IF Is(Op(x, 2), "immediate") /\ x.imm # 0 THEN Unsupported(s)
    ELSE Set(s, FcmpFlags(LaneOf(s, Dest(x)), b, Dest(x).k))
LiftFcvt(s, x) == PutLane(s, x, Of1(LAMBDA a : FpToFp(a, Op(x, 2).k, Dest(x).k, "even"), FirstLane(s, x)))
\* The fixed-point forms scale by as many bits as their integer has, at most.
FixedFractionBits(x, w) == Len(x.operands) = 3 => x.imm \in 1..w
LiftIntToFp(s, x) ==
    IF ~FixedFractionBits(x, Bits(Op(x, 2).k)) THEN Unsupported(s)
    ELSE PutLane(s, x, Of1(LAMBDA n : IntToFloatLane(n, x.arg.signed, Op(x, 2).k, x.imm, Dest(x).k), FirstLane(s, x)))
LiftFpToInt(s, x) ==
    IF ~FixedFractionBits(x, Width(x)) THEN Unsupported(s)
    ELSE PutLane(s, x, Of1(LAMBDA a : FloatToIntLane(a, x.arg.signed, Op(x, 2).k, x.imm, "zero", Width(x)), FirstLane(s, x)))

ScalarOps == {"sfp", "ssqrt", "sround", "smulx", "srecpx", "sunary", "fmov", "fcmp", "fcvt", "sint2fp", "sfp2int"}
LiftScalar(s, x) ==
    CASE x.op = "sfp" -> IF Scalars(x, 3) THEN LiftFpArith3(s, x) ELSE Unsupported(s)
      [] x.op = "ssqrt" -> IF Scalars(x, 2) THEN LiftFpSqrt(s, x) ELSE Unsupported(s)
      [] x.op = "sround" -> IF Scalars(x, 2) THEN LiftFpRound(s, x) ELSE Unsupported(s)
      [] x.op = "smulx" -> IF Scalars(x, 3) THEN LiftFmulx(s, x) ELSE Unsupported(s)
      [] x.op = "srecpx" -> IF Scalars(x, 2) THEN LiftFrecpx(s, x) ELSE Unsupported(s)
      [] x.op = "sunary" -> IF Scalars(x, 2) THEN LiftFpUnary(s, x) ELSE Unsupported(s)
      [] x.op = "fmov" -> LiftFmov(s, x)
      [] x.op = "fcmp" -> IF Scalars(x, 1) THEN LiftFcmp(s, x) ELSE Unsupported(s)
      [] x.op = "fcvt" -> IF Scalars(x, 2) THEN LiftFcvt(s, x) ELSE Unsupported(s)
      [] x.op = "sint2fp" -> IF Scalars(x, 1) THEN LiftIntToFp(s, x) ELSE Unsupported(s)
      [] x.op = "sfp2int" -> LiftFpToInt(s, x)

----------------------------------------------------------------------------
\* Structured loads and stores.  The list has a view, or one element, of
\* consecutive registers, and wraps at the last of the file.

RegisterFile == <<"v0", "v1", "v2", "v3", "v4", "v5">>
NumberOf(r) == CHOOSE i \in DOMAIN RegisterFile : RegisterFile[i] = r
WrappedRegister(r, places) == RegisterFile[((NumberOf(r) - 1 + places) % Len(RegisterFile)) + 1]
ElementList(regs, k, i) == [List(regs, 1, k) EXCEPT !.kind = "elements", !.index = i]
Base(reg) == [Vector(reg, 1, 8) EXCEPT !.kind = "memory"]
Family(interleave, replicate, stores) == [interleave |-> interleave, replicate |-> replicate, stores |-> stores]
Members(x) == Op(x, 1).list
Whole(x) == Is(Op(x, 1), "list")

MemberCountMatches(x) ==
    IF x.arg.interleave = 1 /\ ~x.arg.replicate /\ Whole(x) THEN Len(Members(x)) \in 1..4
    ELSE Len(Members(x)) = x.arg.interleave
StructuredShape(x) ==
    LET list == Op(x, 1) IN
    /\ Is(Op(x, 2), "memory")
    /\ Len(x.operands) = 3 => Op(x, 3).kind \in {"immediate", "gpr"}
    /\ Whole(x) \/ (Is(list, "elements") /\ list.index < RegisterBytes \div list.k)
    /\ \A i \in DOMAIN Members(x) : Members(x)[i] = WrappedRegister(Members(x)[1], i - 1)
    /\ MemberCountMatches(x)
    /\ x.arg.interleave > 1 /\ Whole(x) => LanesIn(list) >= 2
    /\ x.arg.replicate => Whole(x) /\ ~x.arg.stores
\* Where byte j of a member is in memory, from the base.
InterleavedPosition(lane, interleave, structure) == lane * interleave + structure
TransferOffset(x, member, j) ==
    LET list == Op(x, 1)
        k == list.k
    IN  CASE x.arg.replicate \/ ~Whole(x) -> member * k + (j % k)
          [] ~x.arg.replicate /\ Whole(x) /\ x.arg.interleave = 1 -> member * list.n + j
          [] OTHER -> InterleavedPosition(j \div k, x.arg.interleave, member) * k + (j % k)
\* The bytes of a member that move: its view, or those of its element.
Moved(x) ==
    LET list == Op(x, 1) IN
    IF Whole(x) THEN 0..(list.n - 1) ELSE (list.index * list.k)..(list.index * list.k + list.k - 1)
Address(s, reg) == Lane(s.regs[reg], 4, 0)
PlaceIn(x, r) == CHOOSE i \in DOMAIN Members(x) : Members(x)[i] = r
TransferIn(s, x, base) ==
    [s EXCEPT !.regs = [r \in DOMAIN s.regs |->
        IF r \notin {Members(x)[i] : i \in DOMAIN Members(x)} THEN s.regs[r]
        ELSE [j \in DOMAIN s.regs[r] |->
                IF j \in Moved(x) THEN s.regs["mem"][base + TransferOffset(x, PlaceIn(x, r) - 1, j)]
                ELSE IF Whole(x) THEN 0 ELSE s.regs[r][j]]]]
TransferOut(s, x, base) ==
    LET from(b) == {p \in (DOMAIN Members(x)) \X Moved(x) : base + TransferOffset(x, p[1] - 1, p[2]) = b} IN
    [s EXCEPT !.regs["mem"] = [b \in DOMAIN @ |->
        IF from(b) = {} THEN @[b] ELSE LET p == CHOOSE q \in from(b) : TRUE IN s.regs[Members(x)[p[1]]][p[2]]]]
\* A stride is an immediate, or a general register of 64 bits.
UsableStride(x) == Len(x.operands) = 3 /\ Is(Op(x, 3), "gpr") => Op(x, 3).n = 8
EmitWriteback(s, x, base) ==
    IF Len(x.operands) < 3 THEN s
    ELSE LET delta == IF Is(Op(x, 3), "immediate") THEN x.imm ELSE Address(s, Op(x, 3).reg)
         IN  [s EXCEPT !.regs[Op(x, 2).reg] = ZeroExt(FromLane(base + delta, 4), 8)]
LiftStructured(s, x) ==
    LET base == Address(s, Op(x, 2).reg) IN
    IF ~StructuredShape(x) \/ ~UsableStride(x) THEN Unsupported(s)
    ELSE EmitWriteback(IF x.arg.stores THEN TransferOut(s, x, base) ELSE TransferIn(s, x, base), x, base)

LiftA64(s, x) ==
    CASE x.op \in ScalarOps -> LiftScalar(s, x)
      [] x.op = "structured" -> LiftStructured(s, x)
      [] OTHER -> LiftNeon(s, x)

----------------------------------------------------------------------------
\* The processor.

RealScalarLane(x, a, b) ==
    LET k == Dest(x).k
        exponent == Magnitude(a, k) \div 2 ^ Fraction(k)
    IN  CASE x.op = "sfp" /\ x.arg \in {"fmax", "fmin"} -> RealMaxMin(x.arg, FALSE, a, b, k)
          [] x.op = "sfp" /\ x.arg \notin {"fmax", "fmin"} -> RealFp(x.arg, a, b, k)
          [] x.op = "ssqrt" -> OrNan(Fp("fsqrt", a, a, k), ArmNan(<<a>>, k))
          [] x.op = "sround" -> RealRound(a, k, x.arg.mode, x.arg.bits)
          [] x.op = "smulx" -> RealMulx(a, b, k)
          [] x.op = "srecpx" ->
                IF IsNan(a, k) THEN Quieted(a, k)
                ELSE SignOf(a, k) * 2 ^ (Bits(k) - 1)
                     + (Ones(Exponent[k]) - Highest(1, exponent)) * 2 ^ Fraction(k)
          [] x.op = "sunary" ->
                IF x.arg = "neg" THEN (1 - SignOf(a, k)) * 2 ^ (Bits(k) - 1) + Magnitude(a, k) ELSE Magnitude(a, k)
          [] x.op = "fcvt" -> RealFpToFp(a, Op(x, 2).k, k)
          [] x.op = "sint2fp" -> RealIntToFloat(a, x.arg.signed, Op(x, 2).k, x.imm, k)
          [] x.op = "sfp2int" -> RealFloatToInt(a, x.arg.signed, Op(x, 2).k, x.imm, "zero", Width(x))
\* N, Z, C and V of FPCompare; C as a borrow.
RealFcmpFlags(s, a, b) ==
    LET unordered == "nan" \in {a.kind, b.kind} IN
    Set(s, [s.flags EXCEPT !.SF = BitOf(Below(a, b)), !.ZF = BitOf(Same(a, b)),
                           !.CF = 1 - BitOf(unordered \/ Same(a, b) \/ Below(b, a)), !.OF = BitOf(unordered)])
RealFcmp(s, x) ==
    RealFcmpFlags(s, Value(LaneOf(s, Dest(x)), Dest(x).k),
                  IF Is(Op(x, 2), "scalar") THEN Value(FirstLane(s, x), Dest(x).k) ELSE FloatOf(0))
\* Elements move in the order of the manual: register by register, or one of
\* each structure at a time.
RealStructured(s, x) ==
    LET list == Op(x, 1)
        k == list.k
        base == Address(s, Op(x, 2).reg)
        count == Len(Members(x))
        elements == IF Whole(x) /\ ~x.arg.replicate THEN LanesIn(list) ELSE 1
        turn(r, e) == IF x.arg.interleave = 1 /\ Whole(x) /\ ~x.arg.replicate THEN r * elements + e ELSE e * count + r
        element(j) == IF elements > 1 THEN j \div k ELSE 0
        address(r, j) == base + turn(r - 1, element(j)) * k + (j % k)
        loaded(r, old) == [j \in DOMAIN old |->
                            CASE ~Whole(x) -> IF j \div k = list.index THEN s.regs["mem"][address(r, j)] ELSE old[j]
                              [] Whole(x) -> IF j < list.n THEN s.regs["mem"][address(r, j)] ELSE 0]
        stored(b) == {p \in (DOMAIN Members(x)) \X (0..(RegisterBytes - 1)) :
                        /\ IF Whole(x) THEN p[2] < list.n ELSE p[2] \div k = list.index
                        /\ address(p[1], p[2]) = b}
        byte(b, old) == IF stored(b) = {} THEN old
                        ELSE LET p == CHOOSE q \in stored(b) : TRUE IN s.regs[Members(x)[p[1]]][p[2]]
        advanced(old) == CASE Len(x.operands) < 3 -> old
                           [] Len(x.operands) = 3 /\ Is(Op(x, 3), "immediate") -> ZeroExt(FromLane(base + x.imm, 4), 8)
                           [] OTHER -> ZeroExt(FromLane(base + Address(s, Op(x, 3).reg), 4), 8)
    IN  [s EXCEPT !.regs = [r \in DOMAIN s.regs |->
            CASE r = "mem" -> IF x.arg.stores THEN [b \in DOMAIN s.regs[r] |-> byte(b, s.regs[r][b])] ELSE s.regs[r]
              [] r = Op(x, 2).reg -> advanced(s.regs[r])
              [] OTHER -> IF ~x.arg.stores /\ \E i \in DOMAIN Members(x) : Members(x)[i] = r
                          THEN loaded(PlaceIn(x, r), s.regs[r]) ELSE s.regs[r]]]
ExecuteA64(s, x) ==
    CASE x.op = "fcmp" -> RealFcmp(s, x)
      [] x.op = "fmov" -> Put(s, Dest(x), Slice(s.regs[Op(x, 2).reg], 0, Lowest(Dest(x).n, Op(x, 2).n)))
      [] x.op = "structured" -> RealStructured(s, x)
      [] x.op \in ScalarOps \ {"fcmp", "fmov"} ->
            PutLane(s, x, RealScalarLane(x, FirstLane(s, x), IF Len(x.operands) = 3 THEN SecondLane(s, x) ELSE 0))
      [] OTHER -> ExecuteNeon(s, x)
=============================================================================
