------------------------------- MODULE LiftA32 -------------------------------
(***************************************************************************)
(* The integer, memory and register-list instructions of AArch32, with the *)
(* condition any of them may carry: as a processor executes them, as the   *)
(* lifter lowers them, and the table of their effects.                     *)
(***************************************************************************)
EXTENDS LiftArm

\* An index register with its shift, a list of registers, and their addressing.
Index(r, subtract, shift) ==
    [kind |-> "index", r |-> r, subtract |-> subtract, shift |-> shift]
List(regs, suffix, wb) == [kind |-> "list", regs |-> regs, suffix |-> suffix, wb |-> wb]
If(x, cond) == [x EXCEPT !.cond = cond]

Dst(x) == x.operands[1]
Shifts == {"lsl", "lsr", "asr", "ror"}
Arith == {"add", "sub", "and", "orr", "eor", "mul", "udiv", "sdiv"}
ShortForms == Arith \cup Shifts
Compares == [cmp |-> "sub", cmn |-> "add", tst |-> "and", teq |-> "eor"]
Extends == [sxtb |-> 8, sxth |-> 16, uxtb |-> 8, uxth |-> 16]
Sign == {"sxtb", "sxth", "smull", "ldrsb", "ldrsh"}
Loads == {"ldr", "ldrb", "ldrh", "ldrsb", "ldrsh"}
Stores == {"str", "strb", "strh"}
Pairs == {"ldrd", "strd"}
Lists == {"push", "pop", "ldm", "stm"}
TransferWidth(op) ==
    CASE op \in {"ldrb", "ldrsb", "strb"} -> 8 [] op \in {"ldrh", "ldrsh", "strh"} -> 16 [] OTHER -> 32
Memory(x) == x.operands[IF x.op \in Pairs THEN 3 ELSE 2]
Word == Bytes(32)

\* What pc reads: for data as it is, for an address aligned to a word.
PcAhead(x) == x.at + (IF x.thumb THEN Bytes(32) ELSE 2 * Bytes(32))
PcValue(x) == PcAhead(x) - (PcAhead(x) % Word)
BeginInstruction(s, x) == [s EXCEPT !.regs["pc"] = PcAhead(x) % Modulus(32)]

\* Thumb: the destination is the first source as well.
Expand(x) ==
    IF Len(x.operands) = 2 /\ x.op \in ShortForms
    THEN [x EXCEPT !.operands = <<x.operands[1]>> \o x.operands] ELSE x

----------------------------------------------------------------------------
\* The processor.

OffsetReal(s, o) ==
    IF o.kind = "immediate" THEN o.n
    ELSE LET r == s.regs[o.r]
             v == CASE o.shift.kind = "none" -> r
                    [] o.shift.kind = "rrx" -> C(s) * 2 ^ (Bits[32] - 1) + r \div 2
                    [] o.shift.kind = "by" -> ShiftC(r, o.shift.op, o.shift.amount.n, C(s), 32).v
         IN  IF o.subtract THEN -v ELSE v
AddressReal(s, x) ==
    LET o == Memory(x)
        base == IF o.base = "pc" THEN s.regs["pc"] - (s.regs["pc"] % Word) ELSE s.regs[o.base]
        moved == (base + OffsetReal(s, o.off)) % Modulus(32)
    IN  [a |-> IF o.mode = "post" THEN base ELSE moved, moved |-> moved,
         base |-> o.base, wb |-> o.mode # "offset"]
WritebackReal(s, access) == IF access.wb THEN [s EXCEPT !.regs[access.base] = access.moved] ELSE s

\* LDM and STM by the names of the manual, and their stack spellings.
ModeReal(op, suffix) ==
    CASE suffix \in {"ia", "ib", "da", "db"} -> suffix
      [] suffix = "fd" -> IF op = "ldm" THEN "ia" ELSE "db"
      [] suffix = "ea" -> IF op = "ldm" THEN "db" ELSE "ia"
      [] suffix = "fa" -> IF op = "ldm" THEN "da" ELSE "ib"
      [] suffix = "ed" -> IF op = "ldm" THEN "ib" ELSE "da"
MultipleReal(s, load, base, regs, mode, wb) ==
    LET n == Len(regs)
        start == s.regs[base] + (CASE mode = "ia" -> 0               [] mode = "ib" -> Word
                                   [] mode = "da" -> Word - n * Word [] mode = "db" -> -(n * Word))
        moved == (s.regs[base] + (IF mode \in {"ia", "ib"} THEN n ELSE -n) * Word) % Modulus(32)
        done[i \in 0..n] ==
            IF i = 0 THEN s
            ELSE LET a == (start + (i - 1) * Word) % Modulus(32) IN
                 IF load THEN [done[i - 1] EXCEPT !.regs[regs[i]] = LoadReal(s, a, 32)]
                 ELSE StoreReal(done[i - 1], a, s.regs[regs[i]], 32)
    IN  IF wb THEN [done[n] EXCEPT !.regs[base] = moved] ELSE done[n]
ListReal(s, x) ==
    LET l == x.operands[Len(x.operands)] IN
    CASE x.op = "push" -> MultipleReal(s, FALSE, "sp", l.regs, "db", TRUE)
      [] x.op = "pop" -> MultipleReal(s, TRUE, "sp", l.regs, "ia", TRUE)
      [] OTHER -> MultipleReal(s, x.op = "ldm", Dst(x).r, l.regs, ModeReal(x.op, l.suffix), l.wb)

ReverseReal(v) ==
    LET n == Word
        sum[i \in 0..n] ==
            IF i = 0 THEN 0
            ELSE sum[i - 1] + Extract(v, i * Bits[8] - 1, (i - 1) * Bits[8]) * 2 ^ ((n - i) * Bits[8])
    IN  sum[n]
TransferReal(s, x) ==
    LET o == x.operands
        access == AddressReal(s, x)
        tw == TransferWidth(x.op)
        v == LoadReal(s, access.a, tw)
        second == (access.a + Word) % Modulus(32)
    IN  CASE x.op \in Loads ->
                WritebackReal(WriteReal(s, Dst(x),
                    (IF x.op \in Sign THEN Signed(v, tw) ELSE v) % Modulus(32)), access)
          [] x.op \in Stores -> WritebackReal(StoreReal(s, access.a, RealAt(s, o[1], tw), tw), access)
          [] x.op = "ldrd" ->
                WritebackReal(WriteReal(WriteReal(s, o[1], v), o[2], LoadReal(s, second, 32)), access)
          [] x.op = "strd" ->
                WritebackReal(StoreReal(StoreReal(s, access.a, RealAt(s, o[1], 32), 32),
                                        second, RealAt(s, o[2], 32), 32), access)
ExecuteBase(s, x) ==
    LET o == x.operands
        at(i) == RealAt(s, o[i], 32)
        op2(i) == Operand2Real(s, x, i, 32)
        set(op, r, c) == WriteReal(IF x.s THEN FlagsReal(s, op, r, c, 32) ELSE s, Dst(x), r.v)
        product == IF x.op \in Sign THEN Signed(at(3), 32) * Signed(at(4), 32) ELSE at(3) * at(4)
    IN  CASE x.op \in Arith \cup {"rsb", "bic", "adc", "sbc"} ->
                LET b == op2(3) IN set(x.op, DataReal(x.op, at(2), b.v, C(s), 32), b.c)
          [] x.op \in {"mov", "mvn"} ->
                LET b == op2(2) IN set(x.op, DataReal(x.op, 0, b.v, C(s), 32), b.c)
          [] x.op \in Shifts ->
                LET n == IF o[3].kind = "immediate" THEN o[3].n ELSE at(3) % (AmountMask + 1)
                    r == ShiftC(at(2), x.op, n, C(s), 32)
                IN  set("mov", r, r.c)
          [] x.op = "rrx" ->
                LET a == at(2) IN
                set("mov", [v |-> C(s) * 2 ^ (Bits[32] - 1) + a \div 2], a % 2)
          [] x.op \in DOMAIN Compares ->
                LET op == Compares[x.op]
                    b == op2(2)
                IN  FlagsReal(s, op, DataReal(op, at(1), b.v, C(s), 32), b.c, 32)
          [] x.op \in DOMAIN Extends ->
                LET v == op2(2).v % Modulus(Extends[x.op]) IN
                WriteReal(s, Dst(x),
                    (IF x.op \in Sign THEN Signed(v, Extends[x.op]) ELSE v) % Modulus(32))
          [] x.op = "mla" -> WriteReal(s, Dst(x), (at(4) + at(2) * at(3)) % Modulus(32))
          [] x.op = "mls" -> WriteReal(s, Dst(x), (at(4) - at(2) * at(3)) % Modulus(32))
          [] x.op \in {"umull", "smull"} ->
                WriteReal(WriteReal(s, o[1], product % Modulus(32)),
                          o[2], (product \div Modulus(32)) % Modulus(32))
          [] x.op = "rev" -> WriteReal(s, Dst(x), ReverseReal(at(2)))
          [] x.op = "movw" -> WriteReal(s, Dst(x), o[2].n % Modulus(16))
          [] x.op = "movt" -> WriteReal(s, Dst(x), (o[2].n % Modulus(16)) * Modulus(16) + (at(1) % Modulus(16)))
          [] x.op \in Loads \cup Stores \cup Pairs -> TransferReal(s, x)
          [] x.op \in Lists -> ListReal(s, x)
Execute(s, x) ==
    LET t == BeginInstruction(s, x) IN
    IF Passed(t.flags, x.cond) THEN ExecuteBase(t, Expand(x)) ELSE t

----------------------------------------------------------------------------
\* The lifter: data processing.

BinOp == [add |-> "add", sub |-> "sub", and |-> "and", orr |-> "or", eor |-> "xor",
          mul |-> "mul", udiv |-> "udiv", sdiv |-> "sdiv", adc |-> "add", sbc |-> "sub"]
LiftArith3(env, x) ==
    EmitArith3(env, x, BinOp[x.op], ReadAt(env, x.operands[2], 32), ReadSourceWithShift(env, x, 3, 32), 32)
LiftRsb(env, x) ==
    EmitArith3(env, x, "sub", ReadSourceWithShift(env, x, 3, 32), ReadAt(env, x.operands[2], 32), 32)
LiftBic(env, x) ==
    LET b == Apply("xor", ReadSourceWithShift(env, x, 3, 32), Modulus(32) - 1, 32)
        r == Apply("and", ReadAt(env, x.operands[2], 32), b, 32)
        flags == LogicalCarry(x) @@ ZeroSign(r, 32) @@ ("PF" :> Unk)
    IN  WriteRegister(IF x.s THEN WithFlags(env, flags) ELSE env, Dst(x), r)
LiftCmn(env, x) ==
    LET r == Apply("add", ReadAt(env, Dst(x), 32), ReadSourceWithShift(env, x, 2, 32), 32) IN
    WithFlags(env, ZeroSign(r, 32) @@ [f \in {"CF", "OF", "PF"} |-> Unk])
LiftTeq(env, x) ==
    LET r == Apply("xor", ReadAt(env, Dst(x), 32), ReadSourceWithShift(env, x, 2, 32), 32) IN
    WithFlags(env, LogicalCarry(x) @@ ZeroSign(r, 32) @@ ("PF" :> Unk))
LiftMvn(env, x) ==
    WriteRegister(env, Dst(x), Apply("xor", ReadSourceWithShift(env, x, 2, 32), Modulus(32) - 1, 32))
LiftMovs(env, x) ==
    LET v == ReadAt(env, x.operands[2], 32) IN
    WriteRegister(WithFlags(env, ZeroSign(v, 32)), Dst(x), v)
LiftCarryArith(env, x) ==
    EmitCarryArith(env, x, BinOp[x.op], ReadAt(env, x.operands[2], 32), ReadSourceWithShift(env, x, 3, 32), 32)
LiftExtend(env, x) ==
    LET n == Extends[x.op]
        v == ReadSourceWithShift(env, x, 2, 32)
        low == U1(v, Extract(v, Bits[n] - 1, 0))
    IN  WriteRegister(env, Dst(x), Widen(low, n, 32, x.op \in Sign))
LiftMultiplyAccumulate(env, x) ==
    LET p == Apply("mul", ReadAt(env, x.operands[2], 32), ReadAt(env, x.operands[3], 32), 32) IN
    WriteRegister(env, Dst(x),
        Apply(IF x.op = "mla" THEN "add" ELSE "sub", ReadAt(env, x.operands[4], 32), p, 32))
\* The product is taken at twice the width, and split.
LiftLongMultiply(env, x) ==
    LET wide(i) == Widen(ReadAt(env, x.operands[i], 32), 32, 64, x.op \in Sign)
        p == Apply("mul", wide(3), wide(4), 64)
        low == WriteRegister(env, x.operands[1], U1(p, Extract(p, Bits[32] - 1, 0)))
    IN  WriteRegister(low, x.operands[2], U1(p, Extract(p, Bits[64] - 1, Bits[32])))
LiftReverseBytes(env, x) ==
    LET v == ReadAt(env, x.operands[2], 32)
        fold[i \in 0..Word] ==
            IF i = 0 THEN 0
            ELSE fold[i - 1] * Modulus(8) + Extract(v, i * Bits[8] - 1, (i - 1) * Bits[8])
    IN  WriteRegister(env, Dst(x), IF v = Unk THEN Unk ELSE fold[Word])
LiftMovHalf(env, x) ==
    LET half == x.operands[2].n % Modulus(16)
        old == ReadAt(env, Dst(x), 32)
    IN  WriteRegister(env, Dst(x),
            IF x.op = "movw" THEN half ELSE U1(old, half * Modulus(16) + Extract(old, Bits[16] - 1, 0)))

\* shift_carry_out: what an immediate shift pushes out; by a register nobody knows.
ShiftCarryOut(op, v, n) ==
    LET bit == IF op = "lsl" THEN Bits[32] - n ELSE n - 1 IN
    IF n = 0 THEN <<>>
    ELSE "CF" :> IF bit \in 0..(Bits[32] - 1) THEN StoredCarry(U1(v, Bit(v, bit))) ELSE Unk
LiftShift(env, x) ==
    LET v == ReadAt(env, x.operands[2], 32)
        n == x.operands[3]
        amount == IF n.kind = "immediate" THEN ReadAt(env, n, 32)
                  ELSE Apply("and", ReadAt(env, n, 32), AmountMask, 32)
        carry == IF x.op = "rrx" THEN "CF" :> StoredCarry(U1(v, Bit(v, 0)))
                 ELSE IF n.kind = "immediate" THEN ShiftCarryOut(x.op, v, n.n) ELSE "CF" :> Unk
        r == IF x.op = "rrx" THEN RotateThroughCarry(env, v, 32) ELSE Apply(x.op, v, amount, 32)
    IN  WriteRegister(IF x.s THEN WithFlags(env, carry @@ ZeroSign(r, 32)) ELSE env, Dst(x), r)

----------------------------------------------------------------------------
\* The lifter: memory.

\* aarch32_offset_expr: a subtracted index is negated, and then added.
OffsetExpr(env, o) ==
    IF o.kind = "immediate" THEN o.n % Modulus(32)
    ELSE LET r == env.regs[o.r]
             v == CASE o.shift.kind = "none" -> r
                    [] o.shift.kind = "rrx" -> RotateThroughCarry(env, r, 32)
                    [] o.shift.kind = "by" -> Apply(o.shift.op, r, o.shift.amount.n, 32)
         IN  IF o.subtract THEN Apply("sub", 0, v, 32) ELSE v
MemAccess(env, x) ==
    LET o == Memory(x)
        base == IF o.base = "pc" THEN PcValue(x) % Modulus(32) ELSE env.regs[o.base]
        delta == OffsetExpr(env, o.off)
    IN  [a |-> IF o.mode = "post" THEN base ELSE Apply("add", base, delta, 32),
         base |-> o.base, wb |-> o.mode # "offset", delta |-> delta]
LoadAt(env, x, a, tw) ==
    WriteRegister(env, Dst(x), Widen(LoadMem(env, a, tw), tw, 32, x.op \in Sign))
FinishAt(env, x, access) == Writeback(env, [access EXCEPT !.delta = MemAccess(env, x).delta])
LiftLoad(env, x) ==
    LET access == MemAccess(env, x)
    IN  FinishAt(LoadAt(env, x, access.a, TransferWidth(x.op)), x, access)
LiftStore(env, x) ==
    LET tw == TransferWidth(x.op)
        access == MemAccess(env, x)
    IN  Writeback(StoreMem(env, access.a, ReadAt(env, Dst(x), tw), tw), access)
PairAddress(env, x, i) == Apply("add", MemAccess(env, x).a, i * Word, 32)
LoadWord(env, x, i) == WriteRegister(env, x.operands[i], LoadMem(env, PairAddress(env, x, i - 1), 32))
StoreWord(env, x, i) == StoreMem(env, PairAddress(env, x, i - 1), ReadAt(env, x.operands[i], 32), 32)
Finish(env, x) == Writeback(env, MemAccess(env, x))
LiftLoadPair(env, x) == Finish(LoadWord(LoadWord(env, x, 1), x, 2), x)
LiftStorePair(env, x) == Finish(StoreWord(StoreWord(env, x, 1), x, 2), x)

\* aarch32_multiple_mode: the stack spellings depend on the direction.
MultipleMode(load, suffix) ==
    CASE suffix \in {"ia", "ib", "da", "db"} ->
            [increment |-> suffix \in {"ia", "ib"}, before |-> suffix \in {"ib", "db"}]
      [] suffix = "fd" -> [increment |-> load, before |-> ~load]
      [] suffix = "ea" -> [increment |-> ~load, before |-> load]
      [] suffix = "fa" -> [increment |-> ~load, before |-> ~load]
      [] suffix = "ed" -> [increment |-> load, before |-> load]
\* MultipleMode::span: the first offset, and how far the base moves.
Span(mode, n) ==
    LET total == n * Word IN
    IF mode.increment THEN [start |-> IF mode.before THEN Word ELSE 0, delta |-> total]
    ELSE [start |-> IF mode.before THEN -total ELSE Word - total, delta |-> -total]
\* emit_load_multiple and emit_store_multiple: every address is the base of the
\* moment and an offset.
EmitMultiple(env, load, base, regs, start) ==
    LET done[i \in 0..Len(regs)] ==
            IF i = 0 THEN env
            ELSE LET e == done[i - 1]
                     a == Apply("add", e.regs[base], (start + (i - 1) * Word) % Modulus(32), 32)
                 IN  IF load THEN WriteRegister(e, Reg(regs[i], "full"), LoadMem(e, a, 32))
                     ELSE StoreMem(e, a, e.regs[regs[i]], 32)
    IN  done[Len(regs)]
Moved(env, base, delta, wb) ==
    Writeback(env, [wb |-> wb, base |-> base, delta |-> delta % Modulus(32)])
LiftPushPop(env, x) ==
    LET regs == x.operands[1].regs
        n == Len(regs) * Word
    IN  IF x.op = "push" THEN Moved(EmitMultiple(env, FALSE, "sp", regs, -n), "sp", -n, TRUE)
        ELSE Moved(EmitMultiple(env, TRUE, "sp", regs, 0), "sp", n, TRUE)
LiftLdmStm(env, x) ==
    LET l == x.operands[2]
        span == Span(MultipleMode(x.op = "ldm", l.suffix), Len(l.regs))
    IN  Moved(EmitMultiple(env, x.op = "ldm", Dst(x).r, l.regs, span.start), Dst(x).r, span.delta, l.wb)

LiftByMnemonic(env, x) ==
    CASE x.op = "mov" /\ ~x.s -> LiftMov(env, x)   [] x.op = "mov" /\ x.s -> LiftMovs(env, x)
      [] x.op \in Arith -> LiftArith3(env, x)      [] x.op \in Shifts \cup {"rrx"} -> LiftShift(env, x)
      [] x.op = "rsb" -> LiftRsb(env, x)           [] x.op = "bic" -> LiftBic(env, x)
      [] x.op = "mvn" -> LiftMvn(env, x)           [] x.op \in {"adc", "sbc"} -> LiftCarryArith(env, x)
      [] x.op = "cmp" -> LiftCmp(env, x)           [] x.op = "cmn" -> LiftCmn(env, x)
      [] x.op = "tst" -> LiftTst(env, x)           [] x.op = "teq" -> LiftTeq(env, x)
      [] x.op \in DOMAIN Extends -> LiftExtend(env, x)
      [] x.op \in {"mla", "mls"} -> LiftMultiplyAccumulate(env, x)
      [] x.op \in {"umull", "smull"} -> LiftLongMultiply(env, x)
      [] x.op = "rev" -> LiftReverseBytes(env, x)
      [] x.op \in {"movw", "movt"} -> LiftMovHalf(env, x)
      [] x.op \in Loads -> LiftLoad(env, x)        [] x.op \in Stores -> LiftStore(env, x)
      [] x.op = "ldrd" -> LiftLoadPair(env, x)     [] x.op = "strd" -> LiftStorePair(env, x)
      [] x.op \in {"push", "pop"} -> LiftPushPop(env, x)
      [] x.op \in {"ldm", "stm"} -> LiftLdmStm(env, x)

\* lift_aarch32_predicated: every assignment becomes conditional, on the flags
\* as they are when it is reached: the flags come first, one by one, the
\* destination after them.  A store writes back what it finds.
LiftPredicated(env, done, cond) ==
    LET holds(flags) == Condition(flags, Predicate(cond))
        order == <<"ZF", "SF", "CF", "OF", "PF">>
        fold[i \in 0..Len(order)] ==
            IF i = 0 THEN env.flags
            ELSE LET f == order[i] IN
                 [fold[i - 1] EXCEPT ![f] = Ite(holds(fold[i - 1]), done.flags[f], @)]
        flags == fold[Len(order)]
    IN  [done EXCEPT
            !.flags = flags,
            !.regs = [r \in DOMAIN env.regs |-> Ite(holds(flags), done.regs[r], env.regs[r])],
            !.mem = [c \in DOMAIN env.mem |-> Ite(holds(env.flags), done.mem[c], env.mem[c])]]
Predicated(env, done, cond) == IF cond = "al" THEN done ELSE LiftPredicated(env, done, cond)
LiftInstruction(env, x) ==
    LET begun == BeginInstruction(env, x) IN Predicated(begun, LiftByMnemonic(begun, Expand(x)), x.cond)

----------------------------------------------------------------------------
\* The table of effects.

ReadsCarry(x) ==
    /\ AnyMemory(x)
    /\ Memory(x).mode # "post" /\ Memory(x).off.kind = "index" /\ Memory(x).off.shift.kind = "rrx"
ArithEffect(x) ==
    Effect(DefOf(Dst(x)), UsesFrom(x, IF Len(x.operands) = 2 THEN 1 ELSE 2), x.s, AnyMemory(x))
MovEffect(x) == Effect(DefOf(Dst(x)), UsesFrom(x, 2), x.s, AnyMemory(x))
Reading(e, carry) == [e EXCEPT !.reads = carry]
TransferEffect(x) ==
    LET o == Memory(x)
        listed == UNION {DefOf(x.operands[i]) : i \in 1..(Len(x.operands) - 1)}
        load == x.op \in Loads \cup {"ldrd"}
        base == IF o.mode = "offset" THEN {} ELSE {o.base}
    IN  Reading(Effect((IF load THEN listed ELSE {}) \cup base,
                       (IF load THEN {} ELSE listed) \cup RegistersIn(o), FALSE, TRUE), ReadsCarry(x))
\* The base counts as written and read, whether it is written back or not.
ListEffect(x) ==
    LET base == IF x.op \in {"push", "pop"} THEN {"sp"} ELSE {Dst(x).r}
        l == x.operands[Len(x.operands)]
        regs == {l.regs[i] : i \in DOMAIN l.regs}
        load == x.op \in {"pop", "ldm"}
    IN  Effect(base \cup (IF load THEN regs ELSE {}), base \cup (IF load THEN {} ELSE regs), FALSE, TRUE)
AnalyzeBase(x) ==
    CASE x.op \in {"mov", "mvn", "movw", "rev"} \cup DOMAIN Extends -> MovEffect(x)
      [] x.op = "movt" -> Effect(DefOf(Dst(x)), DefOf(Dst(x)), FALSE, FALSE)
      [] x.op \in {"umull", "smull"} ->
            Effect(DefOf(x.operands[1]) \cup DefOf(x.operands[2]), UsesFrom(x, 3), FALSE, FALSE)
      [] x.op \in {"adc", "sbc"} -> Reading(ArithEffect(x), TRUE)
      [] x.op \in Arith \cup Shifts \cup {"rsb", "bic", "mla", "mls"} -> ArithEffect(x)
      [] x.op = "rrx" -> Reading(MovEffect(x), TRUE)
      [] x.op \in DOMAIN Compares -> Effect({}, UsesFrom(x, 1), TRUE, AnyMemory(x))
      [] x.op \in Loads \cup Stores \cup Pairs -> TransferEffect(x)
      [] x.op \in Lists -> ListEffect(x)
\* A predicated instruction reads the flags and, when they fail, its destination.
Analyze(x) ==
    LET e == AnalyzeBase(x) IN
    IF x.cond = "al" THEN e ELSE [e EXCEPT !.reads = TRUE, !.uses = @ \cup e.defs]
HasUnmodellable(x) == FALSE

----------------------------------------------------------------------------
\* Where the source and the manual part.

LeavesFlags(x) ==
    \/ x.s /\ x.op \in Logical \cup Shifts \cup {"mul", "rrx"}
    \/ x.op \in {"tst", "teq"}
ReloadsBase(x) ==
    CASE x.op = "ldrd" -> x.operands[1].r = x.operands[3].base
      [] x.op = "ldm" -> \E i \in DOMAIN x.operands[2].regs : x.operands[2].regs[i] = Dst(x).r
      [] OTHER -> FALSE
RereadsFlags(x) == x.cond # "al" /\ (x.s \/ x.op \in DOMAIN Compares)
HiddenCarry(x) ==
    \/ x.spec.kind = "rrx"
    \/ /\ AnyMemory(x)
       /\ Memory(x).mode = "post" /\ Memory(x).off.kind = "index" /\ Memory(x).off.shift.kind = "rrx"
=============================================================================
