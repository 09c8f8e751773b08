------------------------------ MODULE LiftX86 ------------------------------
(***************************************************************************)
(* The integer instructions of x86-64, three times: as a processor         *)
(* executes them, as the lifter lowers them one by one to assignments, and *)
(* what the table of effects says they define and read.                    *)
(***************************************************************************)
EXTENDS LiftMachine

CONSTANT CountMask      \* what a shift count is masked with, by width

----------------------------------------------------------------------------
\* Operands.

Mem(base, disp, w) ==
    [kind |-> "memory", base |-> base, disp |-> disp, w |-> w, segment |-> FALSE]
Insn(op, operands) == [op |-> op, operands |-> operands]

----------------------------------------------------------------------------
\* The processor.

AddressReal(s, o) ==
    ((IF o.base = "none" THEN 0 ELSE s.regs[o.base]) + o.disp) % Modulus(64)
ReadReal(s, o, w) ==
    CASE o.kind = "register" -> PartOf(s, o)
      [] o.kind = "immediate" -> o.n % Modulus(w)
      [] o.kind = "memory" -> LoadReal(s, AddressReal(s, o), w)
WriteReal(s, o, v, w) ==
    IF o.kind = "memory" THEN StoreReal(s, AddressReal(s, o), v, w)
    ELSE LET l == Layout(o.view)
             old == s.regs[o.r]
         IN  [s EXCEPT !.regs[o.r] =
                IF l.zero THEN v
                ELSE (old - Extract(old, l.hi, l.lo) * 2 ^ l.lo) + v * 2 ^ l.lo]
Ones(x, n) == Cardinality({i \in 0..(n - 1) : Bit(x, i) = 1})
ResultFlags(s, r, w, cf, of) ==
    [s EXCEPT !.flags = [ZF |-> Flag(r = 0), SF |-> Msb(r, w), CF |-> cf, OF |-> of,
                         PF |-> Flag(Ones(r, Bits[8]) % 2 = 0)]]
\* The manual's result of an instruction: [v, s] is the value it writes and the
\* state with its flags.
Alu(op, s, a, b, w) ==
    LET sa == Signed(a, w)
        sb == Signed(b, w)
    IN  CASE op = "add" -> LET r == (a + b) % Modulus(w) IN
                [v |-> r, s |-> ResultFlags(s, r, w, Flag(a + b >= Modulus(w)), Overflows(sa + sb, w))]
          [] op \in {"sub", "cmp"} -> LET r == (a - b) % Modulus(w) IN
                [v |-> r, s |-> ResultFlags(s, r, w, Flag(a < b), Overflows(sa - sb, w))]
          [] op \in {"and", "test"} -> [v |-> a & b, s |-> ResultFlags(s, a & b, w, 0, 0)]
          [] op = "or" -> [v |-> a | b, s |-> ResultFlags(s, a | b, w, 0, 0)]
          [] op = "xor" -> [v |-> a ^^ b, s |-> ResultFlags(s, a ^^ b, w, 0, 0)]
          [] op = "imul" ->
                [v |-> (sa * sb) % Modulus(w),
                 s |-> [s EXCEPT !.flags = [ZF |-> Undefined, SF |-> Undefined, PF |-> Undefined,
                            CF |-> Overflows(sa * sb, w), OF |-> Overflows(sa * sb, w)]]]
          [] op \in {"shl", "shr", "sar"} ->
                LET n == b % (CountMask[w] + 1)
                    r == CASE op = "shl" -> (a * 2 ^ n) % Modulus(w)
                           [] op = "shr" -> a \div 2 ^ n
                           [] op = "sar" -> (sa \div 2 ^ n) % Modulus(w)
                IN  [v |-> r, s |-> IF n = 0 THEN s
                                    ELSE ResultFlags(s, r, w, Undefined, Undefined)]

Compares == {"cmp", "test"}
Shifts == {"shl", "shr", "sar"}
Arithmetic == {"add", "sub", "and", "or", "xor", "imul"} \cup Shifts

Execute(s, x) ==
    LET o == x.operands
        w == IF x.op \in Compares THEN BinopWidth(o[1], o[2]) ELSE OperandWidth(o[1])
    IN  CASE x.op = "mov" -> WriteReal(s, o[1], ReadReal(s, o[2], w), w)
          [] x.op = "movzx" -> WriteReal(s, o[1], ReadReal(s, o[2], OperandWidth(o[2])), w)
          [] x.op = "movsx" ->
                WriteReal(s, o[1], Signed(ReadReal(s, o[2], OperandWidth(o[2])), OperandWidth(o[2]))
                                   % Modulus(w), w)
          [] x.op = "lea" -> WriteReal(s, o[1], AddressReal(s, o[2]) % Modulus(w), w)
          [] x.op \in Compares -> Alu(x.op, s, ReadReal(s, o[1], w), ReadReal(s, o[2], w), w).s
          [] x.op \in Arithmetic /\ Len(o) = 2 ->
                LET r == Alu(x.op, s, ReadReal(s, o[1], w), ReadReal(s, o[2], w), w)
                IN  WriteReal(r.s, o[1], r.v, w)
          [] x.op = "imul" /\ Len(o) = 3 ->
                LET r == Alu(x.op, s, ReadReal(s, o[2], w), ReadReal(s, o[3], w), w)
                IN  WriteReal(r.s, o[1], r.v, w)
          [] x.op = "sahf" ->
                LET ah == ReadReal(s, Reg("rax", "high"), 8) IN
                [s EXCEPT !.flags["CF"] = Bit(ah, 0), !.flags["ZF"] = Bit(ah, 1)]
          [] OTHER -> s

----------------------------------------------------------------------------
\* The lifter.

\* x86_address_expr: a segment prefix is declined.
Modellable(o) == ~o.segment
Address(env, o) ==
    IF o.base = "none" THEN o.disp % Modulus(64)
    ELSE U1(env.regs[o.base], (env.regs[o.base] + o.disp) % Modulus(64))

ReadOperand(env, o, w) ==
    IF o.kind = "memory" /\ Modellable(o) THEN LoadMem(env, Address(env, o), w) ELSE ReadAt(env, o, w)

WriteDst(env, o, v, w) ==
    CASE o.kind = "register" -> WriteRegister(env, o, v)
      [] o.kind = "memory" /\ Modellable(o) -> StoreMem(env, Address(env, o), v, w)
      [] OTHER -> Unsupported(env)

\* x86_sub_overflow, x86_add_overflow, x86_parity.
SubOverflow(a, b, r, w) == U2(a, b, Msb((a ^^ b) & (a ^^ r), w))
AddOverflow(a, b, r, w) == U2(a, b, Msb((a ^^ r) & (b ^^ r), w))
Parity(r, w) ==
    LET top == IF Bits[w] < Bits[8] THEN Bits[w] ELSE Bits[8]
        fold[i \in 0..top] == IF i = 0 THEN 0 ELSE fold[i - 1] ^^ Bit(r, i - 1)
    IN  U1(r, fold[top] ^^ 1)
LogicFlags(r, w) == [ZF |-> Zf(r), SF |-> Sf(r, w), CF |-> 0, OF |-> 0, PF |-> Unk]

LiftMov(env, x) ==
    LET w == OperandWidth(x.operands[1]) IN
    WriteDst(env, x.operands[1], ReadOperand(env, x.operands[2], w), w)

LiftMovExtending(env, x) ==
    LET w == OperandWidth(x.operands[1])
        sw == OperandWidth(x.operands[2])
        raw == ReadOperand(env, x.operands[2], sw)
        extended == IF sw >= w \/ x.op = "movzx" THEN raw
                    ELSE U1(raw, Signed(raw, sw) % Modulus(w))
    IN  WriteDst(env, x.operands[1], extended, w)

\* The address itself is not modelled: all of the parent becomes unknown.
LiftLea(env, x) == [env EXCEPT !.regs[x.operands[1].r] = Unk]

\* Only the same name twice is the zero idiom.
ZeroIdiom(x) == x.operands[1].kind = "register" /\ x.operands[1] = x.operands[2]
LiftXor(env, x) ==
    LET o == x.operands
        w == OperandWidth(o[1])
        a == ReadOperand(env, o[1], w)
        b == ReadOperand(env, o[2], w)
        r == U2(a, b, a ^^ b)
    IN  IF ZeroIdiom(x)
        THEN SetFlags(WriteRegister(env, o[1], 0),
                      [ZF |-> 1, CF |-> 0, SF |-> 0, OF |-> 0, PF |-> 1])
        ELSE IF o[1].kind # "register" THEN Unsupported(env)
        ELSE SetFlags(WriteRegister(env, o[1], r), LogicFlags(r, w))

LiftBitwise(env, x) ==
    LET o == x.operands
        w == OperandWidth(o[1])
        a == ReadOperand(env, o[1], w)
        b == ReadOperand(env, o[2], w)
        r == U2(a, b, IF x.op = "and" THEN a & b ELSE a | b)
    IN  IF o[1].kind # "register" THEN Unsupported(env)
        ELSE SetFlags(WriteRegister(env, o[1], r), LogicFlags(r, w))

\* The carry of an addition shows in its result, a borrow in its operands.
AddSubCarry(op, a, b, r) == U2(a, b, Flag(IF op = "add" THEN r < a ELSE a < b))

AddSubFlags(op, a, b, r, w) ==
    [ZF |-> Zf(r), SF |-> Sf(r, w), CF |-> AddSubCarry(op, a, b, r),
     OF |-> IF op = "add" THEN AddOverflow(a, b, r, w) ELSE SubOverflow(a, b, r, w),
     PF |-> Parity(r, w)]
LiftAddSub(env, x) ==
    LET o == x.operands
        w == OperandWidth(o[1])
        a == ReadOperand(env, o[1], w)
        b == ReadOperand(env, o[2], w)
        r == U2(a, b, (IF x.op = "add" THEN a + b ELSE a - b) % Modulus(w))
    IN  IF o[1].kind # "register" THEN Unsupported(env)
        ELSE SetFlags(WriteRegister(env, o[1], r), AddSubFlags(x.op, a, b, r, w))

\* The form of one operand writes two registers and is not lifted.
LiftImul(env, x) ==
    LET o == x.operands
        w == OperandWidth(o[1])
        n == Len(o)
        a == ReadOperand(env, o[n - 1], w)
        b == ReadOperand(env, o[n], w)
    IN  IF n = 1 \/ o[1].kind # "register" THEN Unsupported(env)
        ELSE SetFlags(WriteRegister(env, o[1], U2(a, b, (a * b) % Modulus(w))),
                      [f \in Flags |-> Unk])

LiftCmp(env, x) ==
    LET w == BinopWidth(x.operands[1], x.operands[2])
        a == ReadOperand(env, x.operands[1], w)
        b == ReadOperand(env, x.operands[2], w)
    IN  SetFlags(env, AddSubFlags("sub", a, b, U2(a, b, (a - b) % Modulus(w)), w))

LiftTest(env, x) ==
    LET w == BinopWidth(x.operands[1], x.operands[2])
        a == ReadOperand(env, x.operands[1], w)
        b == ReadOperand(env, x.operands[2], w)
    IN  SetFlags(env, LogicFlags(U2(a, b, a & b), w))

\* Shifts of a bit-vector: by its width or more, nothing or only the sign is left.
ShiftBv(op, a, n, w) ==
    CASE op = "shl" -> (a * 2 ^ n) % Modulus(w)
      [] op = "shr" -> a \div 2 ^ n
      [] op = "sar" -> (Signed(a, w) \div 2 ^ n) % Modulus(w)

\* The flags are left alone when the count is an immediate that masks to zero;
\* a register that holds zero is not told apart.
LiftShift(env, x) ==
    LET o == x.operands
        w == OperandWidth(o[1])
        a == ReadOperand(env, o[1], w)
        n == ReadOperand(env, o[2], w)
        r == U2(a, n, ShiftBv(x.op, a, n & CountMask[w], w))
        written == WriteRegister(env, o[1], r)
    IN  IF o[1].kind # "register" THEN Unsupported(env)
        ELSE IF o[2].kind = "immediate" /\ o[2].n & CountMask[w] = 0 THEN written
        ELSE SetFlags(written, [ZF |-> Zf(r), SF |-> Sf(r, w), CF |-> Unk, OF |-> Unk, PF |-> Unk])

\* SF and PF lie above the scaled byte: they are unknown here.
LiftSahf(env) ==
    LET ah == ReadOperand(env, Reg("rax", "high"), 8) IN
    [env EXCEPT !.flags["CF"] = U1(ah, Bit(ah, 0)), !.flags["ZF"] = U1(ah, Bit(ah, 1))]

LiftInstruction(env, x) ==
    CASE x.op = "mov" -> LiftMov(env, x)
      [] x.op \in {"movzx", "movsx"} -> LiftMovExtending(env, x)
      [] x.op = "lea" -> LiftLea(env, x)
      [] x.op = "xor" -> LiftXor(env, x)
      [] x.op \in {"and", "or"} -> LiftBitwise(env, x)
      [] x.op \in {"add", "sub"} -> LiftAddSub(env, x)
      [] x.op = "imul" -> LiftImul(env, x)
      [] x.op = "cmp" -> LiftCmp(env, x)
      [] x.op = "test" -> LiftTest(env, x)
      [] x.op \in Shifts -> LiftShift(env, x)
      [] x.op = "sahf" -> LiftSahf(env)
      [] OTHER -> Unsupported(env)

----------------------------------------------------------------------------
\* The slicer's table of effects, and its walk over one block.

RegistersIn(o) ==
    CASE o.kind = "register" -> {o.r}
      [] o.kind = "memory" -> {o.base} \ {"none"}
      [] OTHER -> {}
AnyMemory(x) == \E i \in DOMAIN x.operands : x.operands[i].kind = "memory"
\* Mutant: the flags that a shift writes are forgotten.
ArithEffectMutant(x) ==
    Effect(DefOf(x.operands[1]), RegistersIn(x.operands[1]) \cup RegistersIn(x.operands[2]),
           x.op \notin Shifts, AnyMemory(x))
ArithEffect(x) ==
    Effect(DefOf(x.operands[1]), RegistersIn(x.operands[1]) \cup RegistersIn(x.operands[2]),
           TRUE, AnyMemory(x))
MovEffect(x) ==
    Effect(DefOf(x.operands[1]),
           (RegistersIn(x.operands[1]) \ DefOf(x.operands[1])) \cup RegistersIn(x.operands[2]),
           FALSE, AnyMemory(x))
ImulEffect(x) ==
    CASE Len(x.operands) = 1 ->
            Effect({"rax", "rdx"}, {"rax"} \cup RegistersIn(x.operands[1]), TRUE, AnyMemory(x))
      [] Len(x.operands) = 2 -> ArithEffect(x)
      [] OTHER -> Effect(DefOf(x.operands[1]), RegistersIn(x.operands[2]), TRUE, AnyMemory(x))

Analyze(x) ==
    CASE x.op \in {"mov", "movzx", "movsx"} -> MovEffect(x)
      [] x.op = "lea" -> Effect(DefOf(x.operands[1]), RegistersIn(x.operands[2]), FALSE, FALSE)
      [] x.op = "xor" /\ ZeroIdiom(x) -> Effect(DefOf(x.operands[1]), {}, TRUE, FALSE)
      [] x.op = "imul" -> ImulEffect(x)
      [] x.op \in Arithmetic \ {"imul"} /\ (x.op = "xor" => ~ZeroIdiom(x)) -> ArithEffect(x)
      [] x.op \in Compares ->
            Effect({}, RegistersIn(x.operands[1]) \cup RegistersIn(x.operands[2]), TRUE, AnyMemory(x))
      [] x.op = "sahf" -> Effect({}, {"rax"}, TRUE, FALSE)
      [] OTHER -> OtherEffect(AnyMemory(x))

HasUnmodellable(x) ==
    \E i \in DOMAIN x.operands : x.operands[i].kind = "memory" /\ ~Modellable(x.operands[i])
=============================================================================
