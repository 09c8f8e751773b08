------------------------------- MODULE LiftA64 -------------------------------
(***************************************************************************)
(* The integer and memory instructions of AArch64: as a processor executes *)
(* them, as the lifter lowers them, and the table of their effects.        *)
(***************************************************************************)
EXTENDS LiftArm

Dst(x) == x.operands[1]
Shifts == {"lsl", "lsr", "asr"}
Divides == {"udiv", "sdiv"}
ThreeOperands == {"add", "sub", "and", "orr", "eor", "mul"} \cup Divides
Complemented == {"bic", "orn", "eon"}
\* Two operands for three: the zero register is the missing source.
ZeroFirst == [mvn |-> "orn", neg |-> "sub", ngc |-> "sbc"]
Compares == [cmp |-> "sub", cmn |-> "add", tst |-> "and"]
Selects == [csel |-> "keep", csinc |-> "inc", csinv |-> "inv", csneg |-> "neg"]
SelectAliases == [cinc |-> "inc", cinv |-> "inv", cneg |-> "neg"]
Loads == {"ldr", "ldrb", "ldrh", "ldrsb", "ldrsh", "ldrsw"}
Stores == {"str", "strb", "strh"}
Pairs == {"ldp", "stp"}
TransferWidth(op, w) ==
    CASE op \in {"ldrb", "ldrsb", "strb"} -> 8 [] op \in {"ldrh", "ldrsh", "strh"} -> 16
      [] op = "ldrsw" -> 32 [] OTHER -> w
SignedLoads == {"ldrsb", "ldrsh", "ldrsw"}
Memory(x) == x.operands[IF x.op \in Pairs THEN 3 ELSE 2]

----------------------------------------------------------------------------
\* The processor.

AddressReal(s, o) ==
    LET off == IF o.off.kind = "immediate" THEN o.off.n ELSE s.regs[o.off.r]
        moved == (s.regs[o.base] + off) % Modulus(64)
    IN  [a |-> IF o.mode = "post" THEN s.regs[o.base] ELSE moved, moved |-> moved,
         base |-> o.base, wb |-> o.mode # "offset"]
WritebackReal(s, access) == IF access.wb THEN [s EXCEPT !.regs[access.base] = access.moved] ELSE s

SelectReal(op, b, w) ==
    CASE op = "keep" -> b                   [] op = "inc" -> (b + 1) % Modulus(w)
      [] op = "inv" -> Complement(b, w)     [] op = "neg" -> (-b) % Modulus(w)

Execute(s, x) ==
    LET w == OperandWidth(Dst(x))
        o == x.operands
        flagged(t, op, r) == IF x.s THEN FlagsReal(t, op, r, 0, w) ELSE t
        alu(op, a, b) ==
            LET r == DataReal(op, a, b, C(s), w) IN WriteReal(flagged(s, op, r), Dst(x), r.v)
        access == AddressReal(s, Memory(x))
        second == access.a + Bytes(w)
    IN  CASE x.op \in {"mov", "movz"} -> WriteReal(s, Dst(x), RealAt(s, o[2], w))
          [] x.op \in ThreeOperands \cup Complemented \cup {"adc", "sbc"} ->
                alu(x.op, RealAt(s, o[2], w), Operand2Real(s, x, 3, w).v)
          [] x.op \in DOMAIN ZeroFirst -> alu(ZeroFirst[x.op], 0, Operand2Real(s, x, 2, w).v)
          [] x.op \in Shifts ->
                WriteReal(s, Dst(x),
                    ShiftC(RealAt(s, o[2], w), x.op, RealAt(s, o[3], w) % Bits[w], 0, w).v)
          [] x.op \in DOMAIN Compares ->
                LET op == Compares[x.op] IN
                FlagsReal(s, op, DataReal(op, RealAt(s, o[1], w), Operand2Real(s, x, 2, w).v, 0, w), 0, w)
          [] x.op \in DOMAIN Selects ->
                WriteReal(s, Dst(x), IF Passed(s.flags, x.cond) THEN RealAt(s, o[2], w)
                                     ELSE SelectReal(Selects[x.op], RealAt(s, o[3], w), w))
          [] x.op \in DOMAIN SelectAliases ->
                WriteReal(s, Dst(x), IF Passed(s.flags, x.cond)
                                     THEN SelectReal(SelectAliases[x.op], RealAt(s, o[2], w), w)
                                     ELSE RealAt(s, o[2], w))
          [] x.op \in {"cset", "csetm"} ->
                WriteReal(s, Dst(x), IF ~Passed(s.flags, x.cond) THEN 0
                                     ELSE IF x.op = "cset" THEN 1 ELSE Modulus(w) - 1)
          [] x.op \in Loads ->
                LET tw == TransferWidth(x.op, w)
                    v == LoadReal(s, access.a, tw)
                IN  WritebackReal(WriteReal(s, Dst(x),
                        (IF x.op \in SignedLoads THEN Signed(v, tw) ELSE v) % Modulus(w)), access)
          [] x.op \in Stores ->
                LET tw == TransferWidth(x.op, w) IN
                WritebackReal(StoreReal(s, access.a, RealAt(s, o[1], tw), tw), access)
          [] x.op = "ldp" ->
                WritebackReal(WriteReal(WriteReal(s, o[1], LoadReal(s, access.a, w)),
                                        o[2], LoadReal(s, second, w)), access)
          [] x.op = "stp" ->
                WritebackReal(StoreReal(StoreReal(s, access.a, RealAt(s, o[1], w), w),
                                        second, RealAt(s, o[2], w), w), access)

----------------------------------------------------------------------------
\* The lifter.

BinOp == [add |-> "add", sub |-> "sub", and |-> "and", orr |-> "or", eor |-> "xor", mul |-> "mul",
          udiv |-> "udiv", sdiv |-> "sdiv", bic |-> "and", orn |-> "or", eon |-> "xor",
          adc |-> "add", sbc |-> "sub", lsl |-> "lsl", lsr |-> "lsr", asr |-> "asr"]
LiftArith3(env, x) ==
    LET w == OperandWidth(Dst(x)) IN
    EmitArith3(env, x, BinOp[x.op], ReadAt(env, x.operands[2], w), ReadSourceWithShift(env, x, 3, w), w)
LiftLogicalNot(env, x) ==
    LET w == OperandWidth(Dst(x))
        b == Apply("xor", ReadSourceWithShift(env, x, 3, w), Modulus(w) - 1, w)
    IN  EmitArith3(env, x, BinOp[x.op], ReadAt(env, x.operands[2], w), b, w)
LiftMvn(env, x) ==
    LET w == OperandWidth(Dst(x)) IN
    WriteRegister(env, Dst(x), Apply("xor", ReadSourceWithShift(env, x, 2, w), Modulus(w) - 1, w))
LiftNeg(env, x) ==
    LET w == OperandWidth(Dst(x)) IN EmitArith3(env, x, "sub", 0, ReadSourceWithShift(env, x, 2, w), w)
LiftCmn(env, x) ==
    LET w == BinopWidth(x.operands[1], x.operands[2])
        a == ReadAt(env, x.operands[1], w)
        b == ReadSourceWithShift(env, x, 2, w)
    IN  SetArithFlags(env, x, "add", a, b, Apply("add", a, b, w), w)

\* The amount of a shift is taken modulo the width.
LiftShift(env, x) ==
    LET w == OperandWidth(Dst(x))
        n == Apply("and", ReadSourceWithShift(env, x, 3, w), Bits[w] - 1, w)
    IN  EmitArith3(env, x, BinOp[x.op], ReadAt(env, x.operands[2], w), n, w)
LiftCarryArith(env, x) ==
    LET w == OperandWidth(Dst(x)) IN
    EmitCarryArith(env, x, BinOp[x.op], ReadAt(env, x.operands[2], w), ReadSourceWithShift(env, x, 3, w), w)
LiftNgc(env, x) ==
    LET w == OperandWidth(Dst(x)) IN
    EmitCarryArith(env, x, "sub", 0, ReadSourceWithShift(env, x, 2, w), w)

\* Conditional selects; the condition al has no predicate and is declined.
LiftCsel(env, x) ==
    LET w == OperandWidth(Dst(x)) IN
    IF x.cond \notin ArmConditions THEN Unsupported(env)
    ELSE WriteRegister(env, Dst(x), Ite(Condition(env.flags, Predicate(x.cond)),
            ReadAt(env, x.operands[2], w), ReadAt(env, x.operands[3], w)))
\* What the other side of a select holds.
SelectOther(op, b, w) ==
    CASE op \in {"csinc", "cinc"} -> Apply("add", b, 1, w)
      [] op \in {"csinv", "cinv"} -> Apply("xor", b, Modulus(w) - 1, w)
      [] op \in {"csneg", "cneg"} -> Apply("sub", 0, b, w)
LiftCsArith(env, x) ==
    LET w == OperandWidth(Dst(x))
        alias == x.op \in DOMAIN SelectAliases
        b == ReadAt(env, x.operands[IF alias THEN 2 ELSE 3], w)
        taken == Condition(env.flags, Predicate(x.cond))
    IN  IF x.cond \notin ArmConditions THEN Unsupported(env)
        ELSE WriteRegister(env, Dst(x),
                Ite(IF alias THEN U1(taken, 1 - taken) ELSE taken,
                    ReadAt(env, x.operands[2], w), SelectOther(x.op, b, w)))
LiftCset(env, x) ==
    LET w == OperandWidth(Dst(x)) IN
    IF x.cond \notin ArmConditions THEN Unsupported(env)
    ELSE WriteRegister(env, Dst(x), Ite(Condition(env.flags, Predicate(x.cond)),
            IF x.op = "cset" THEN 1 ELSE Modulus(w) - 1, 0))

\* aarch64_mem_access: a register is an offset only after the access, and only
\* a whole one.
Modellable(o) ==
    /\ o.base # "xzr"
    /\ \/ o.off.kind = "immediate"
       \/ o.mode = "post" /\ o.off.r # "xzr" /\ o.off.view = "full"
MemAccess(env, o) ==
    LET delta == IF o.off.kind = "immediate" THEN o.off.n % Modulus(64) ELSE env.regs[o.off.r]
        base == env.regs[o.base]
    IN  [a |-> IF o.mode = "post" THEN base ELSE Apply("add", base, delta, 64),
         base |-> o.base, wb |-> o.mode # "offset", delta |-> delta]

LiftLoad(env, x) ==
    LET w == OperandWidth(Dst(x))
        tw == TransferWidth(x.op, w)
        access == MemAccess(env, Memory(x))
        v == Widen(LoadMem(env, access.a, tw), tw, w, x.op \in SignedLoads)
    IN  IF ~Modellable(Memory(x)) THEN Unsupported(env)
        ELSE Writeback(WriteRegister(env, Dst(x), v), access)
LiftStore(env, x) ==
    LET tw == TransferWidth(x.op, OperandWidth(Dst(x)))
        access == MemAccess(env, Memory(x))
    IN  IF ~Modellable(Memory(x)) THEN Unsupported(env)
        ELSE Writeback(StoreMem(env, access.a, ReadAt(env, x.operands[1], tw), tw), access)

\* aarch64_pair_addresses: the second element lies one element above.  The
\* address of a load is evaluated when its statement is reached.
PairAddress(env, o, i, w) == LET a == MemAccess(env, o).a IN U1(a, (a + i * Bytes(w)) % Modulus(64))
LoadOne(env, x, i) ==
    LET w == OperandWidth(Dst(x))
    IN  WriteRegister(env, x.operands[i], LoadMem(env, PairAddress(env, Memory(x), i - 1, w), w))
StoreOne(env, x, i) ==
    LET w == OperandWidth(Dst(x))
    IN  StoreMem(env, PairAddress(env, Memory(x), i - 1, w), ReadAt(env, x.operands[i], w), w)
Finish(env, x) == Writeback(env, MemAccess(env, Memory(x)))
LiftLdp(env, x) ==
    IF Modellable(Memory(x)) THEN Finish(LoadOne(LoadOne(env, x, 1), x, 2), x) ELSE Unsupported(env)
LiftStp(env, x) ==
    IF Modellable(Memory(x)) THEN Finish(StoreOne(StoreOne(env, x, 1), x, 2), x) ELSE Unsupported(env)

LiftInstruction(env, x) ==
    CASE x.op \in {"mov", "movz"} -> LiftMov(env, x)
      [] x.op \in ThreeOperands -> LiftArith3(env, x)
      [] x.op \in Complemented -> LiftLogicalNot(env, x)
      [] x.op \in Shifts -> LiftShift(env, x)
      [] x.op \in {"adc", "sbc"} -> LiftCarryArith(env, x)
      [] x.op = "mvn" -> LiftMvn(env, x)       [] x.op = "neg" -> LiftNeg(env, x)
      [] x.op = "ngc" -> LiftNgc(env, x)       [] x.op = "cmp" -> LiftCmp(env, x)
      [] x.op = "cmn" -> LiftCmn(env, x)       [] x.op = "tst" -> LiftTst(env, x)
      [] x.op = "csel" -> LiftCsel(env, x)     [] x.op \in {"cset", "csetm"} -> LiftCset(env, x)
      [] x.op \in (DOMAIN Selects \ {"csel"}) \cup DOMAIN SelectAliases -> LiftCsArith(env, x)
      [] x.op \in Loads -> LiftLoad(env, x)    [] x.op \in Stores -> LiftStore(env, x)
      [] x.op = "ldp" -> LiftLdp(env, x)       [] x.op = "stp" -> LiftStp(env, x)

----------------------------------------------------------------------------
\* The table of effects.

ArithEffect(x) == Effect(DefOf(Dst(x)), UsesFrom(x, 2), x.s, AnyMemory(x))
CompareEffect(x) == Effect({}, UsesFrom(x, 1), TRUE, AnyMemory(x))
SelectEffect(x) ==
    [Effect(DefOf(Dst(x)), UNION {RegistersIn(x.operands[i]) : i \in 2..Len(x.operands)}, FALSE, FALSE)
        EXCEPT !.reads = TRUE]
\* The base that a pre-index or post-index access moves.
WritebackBase(o) == IF o.mode = "offset" THEN {} ELSE {o.base}
\* The register that a post-index access adds is an operand of its own, and is
\* not among the uses.
AddressUses(o) == IF o.mode = "post" THEN {o.base} ELSE RegistersIn(o)
TransferEffect(x) ==
    LET o == Memory(x)
        listed == UNION {DefOf(x.operands[i]) : i \in 1..(Len(x.operands) - 1)}
        load == x.op \in Loads \cup {"ldp"}
    IN  Effect((IF load THEN listed ELSE {}) \cup WritebackBase(o),
               (IF load THEN {} ELSE listed) \cup AddressUses(o), FALSE, TRUE)

Analyze(x) ==
    CASE x.op \in {"mov", "movz"} -> Effect(DefOf(Dst(x)), RegistersIn(x.operands[2]), FALSE, AnyMemory(x))
      [] x.op \in {"adc", "sbc", "ngc"} -> [ArithEffect(x) EXCEPT !.reads = TRUE]
      [] x.op \in ThreeOperands \cup Complemented \cup Shifts \cup {"mvn", "neg"} -> ArithEffect(x)
      [] x.op \in DOMAIN Compares -> CompareEffect(x)
      [] x.op \in DOMAIN Selects \cup DOMAIN SelectAliases \cup {"cset", "csetm"} -> SelectEffect(x)
      [] x.op \in Loads \cup Stores \cup Pairs -> TransferEffect(x)
HasUnmodellable(x) == FALSE
=============================================================================
