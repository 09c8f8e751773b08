----------------------------- MODULE EsilMachine -----------------------------
(***************************************************************************)
(* The stack machine that turns the ESIL string radare2 attaches to an     *)
(* instruction into statements, and what those statements do.              *)
(*                                                                         *)
(* A string is the sequence of its tokens.  The statements are built       *)
(* before any is run: a flag reads the values before and after the write   *)
(* that seeded it, through temporaries spliced in ahead of that write.     *)
(***************************************************************************)
EXTENDS LiftMachine

CONSTANT Arm     \* whether the carry is stored as the complement of radare2's

X == INSTANCE Expressions WITH Widest <- Bits[Ptr]

----------------------------------------------------------------------------
\* Tokens.

Number(n) == [t |-> "int", n |-> n]
Name(o) == [t |-> "register", o |-> o]
FlagName(f) == [t |-> "flag register", f |-> f]
Dollar(suffix) == [t |-> "flag", suffix |-> suffix]
Op(op) == [t |-> "binary", op |-> op]
Compound(op) == [t |-> "compound", op |-> op]
Load(w) == [t |-> "load", w |-> w]
Store(w) == [t |-> "store", w |-> w]
Token(t) == [t |-> t]

\* assigns_without_flags.
AssignsWithoutFlags(esil) == \E i \in DOMAIN esil : esil[i].t = ":="

----------------------------------------------------------------------------
\* Registers: a range of bits of a variable.

\* The names of variables: all of one shape, so that they can be compared.
Parent(r) == <<"register", r, 0>>
FlagVar(f) == <<"flag", f, 0>>
Temp(what, n) == <<"temp", what, n>>

Whole(var, bits) ==
    [var |-> var, bits |-> bits, lo |-> 0, hi |-> bits - 1, zext |-> FALSE, zero |-> FALSE,
     invert |-> FALSE]
\* register_ref.
RegisterRef(o) ==
    LET l == Layout(o.view)
    IN  [var |-> Parent(o.r), bits |-> Bits[Ptr], lo |-> l.lo, hi |-> l.hi, zext |-> l.zero,
         zero |-> o.r = "xzr", invert |-> FALSE]
FlagRef(f) == [Whole(FlagVar(f), 1) EXCEPT !.invert = f = "CF" /\ Arm]

RefBits(g) == g.hi - g.lo + 1
Covers(g) == g.lo = 0 /\ g.hi + 1 = g.bits
Inverted(g, e) == IF g.invert THEN X!Binary("xor", e, X!Const(1, RefBits(g))) ELSE e
ReadRef(g) ==
    LET parent == X!Var(g.var, g.bits)
    IN  IF g.zero THEN X!Const(0, RefBits(g))
        ELSE Inverted(g, IF Covers(g) THEN parent ELSE X!Extract(parent, g.hi, g.lo))
\* The whole variable once the bits of g hold e.
WriteRef(g, e) ==
    LET parent == X!Var(g.var, g.bits)
        low == IF g.lo = 0 THEN Inverted(g, e)
               ELSE X!Binary("concat", Inverted(g, e), X!Extract(parent, g.lo - 1, 0))
    IN  IF Covers(g) THEN Inverted(g, e)
        ELSE IF g.zext THEN X!ZeroExtend(Inverted(g, e), g.bits)
        ELSE IF g.hi + 1 = g.bits THEN low
        ELSE X!Binary("concat", X!Extract(parent, g.bits - 1, g.hi + 1), low)

----------------------------------------------------------------------------
\* The machine: a stack of registers and expressions, the statements so far,
\* the flag context and its two snapshots not yet emitted, the open blocks.

NoContext == [bits |-> 0]
Fresh ==
    [ok |-> TRUE, stack |-> <<>>, statements |-> <<>>, context |-> NoContext,
     pending |-> [at |-> 0, old |-> <<>>, cur |-> <<>>], blocks |-> <<>>]
Decline(m) == [m EXCEPT !.ok = FALSE]
\* A machine declines where it finds fewer operands than it needs.
Has(m, n) == Len(m.stack) >= n
Top(m, n) == m.stack[Len(m.stack) - n]
Drop(m, n) == [m EXCEPT !.stack = SubSeq(@, 1, Len(@) - n)]
PushExpr(m, e, bits) ==
    [m EXCEPT !.stack = Append(@, [kind |-> "expression", e |-> e, bits |-> bits])]
PushRef(m, g) == [m EXCEPT !.stack = Append(@, [kind |-> "register", g |-> g])]
Emit(m, s) == [m EXCEPT !.statements = Append(@, s)]
Assign(dst, bits, e) == [kind |-> "assign", dst |-> dst, bits |-> bits, e |-> e]

ValueBits(v) == IF v.kind = "register" THEN RefBits(v.g) ELSE v.bits
ValueExpr(v) == IF v.kind = "register" THEN ReadRef(v.g) ELSE v.e
IsLiteral(v) == v.kind = "expression" /\ X!IsConst(v.e)
Widen(v, bits) ==
    IF ValueBits(v) = bits THEN ValueExpr(v)
    ELSE IF ValueBits(v) < bits THEN X!ZeroExtend(ValueExpr(v), bits)
    ELSE X!Extract(ValueExpr(v), bits - 1, 0)
WidenSigned(v, bits) ==
    IF ValueBits(v) < bits THEN X!SignExtend(ValueExpr(v), bits) ELSE Widen(v, bits)
IsZero(v) == X!Binary("eq", ValueExpr(v), X!Const(0, ValueBits(v)))

\* The first operand popped is the left one.  A relation is signed.
ApplyBinary(m, op) ==
    LET a == Top(m, 0)
        b == Top(m, 1)
        w == X!Larger(ValueBits(a), ValueBits(b))
        rest == Drop(m, 2)
    IN  CASE op \in {"slt", "sle"} ->
                PushExpr(rest, X!Binary(op, WidenSigned(a, w), WidenSigned(b, w)), 1)
          [] op \in {"sgt", "sge"} ->
                PushExpr(rest, X!Binary(IF op = "sgt" THEN "slt" ELSE "sle",
                                        WidenSigned(b, w), WidenSigned(a, w)), 1)
          [] OTHER -> PushExpr(rest, X!Binary(op, Widen(a, w), Widen(b, w)), w)
ApplyNot(m) ==
    PushExpr(Drop(m, 1), X!Ite(IsZero(Top(m, 0)), X!Const(1, 1), X!Const(0, 1)), 1)

\* Mutant: the values a flag will read are left as expressions, which read the
\* registers after the write.
SeedFlagsMutant(m, g, e) ==
    [m EXCEPT !.context = [bits |-> RefBits(g), old |-> ReadRef(g), cur |-> e]]
\* seed_flag_ctx: both values are named now, and emitted when a flag reads them.
SeedFlags(m, g, e) ==
    LET at == Len(m.statements)
        b == RefBits(g)
    IN  [m EXCEPT !.context = [bits |-> b, old |-> X!Var(Temp("old", at), b),
                               cur |-> X!Var(Temp("cur", at), b)],
                  !.pending = [at |-> at, old |-> <<Assign(Temp("old", at), b, ReadRef(g))>>,
                               cur |-> <<Assign(Temp("cur", at), b, e)>>]]
\* Splice a snapshot in ahead of the write it precedes.
Materialise(m, snapshot) ==
    LET at == m.pending.at
    IN  IF snapshot = <<>> THEN m
        ELSE [m EXCEPT !.statements = SubSeq(@, 1, at) \o snapshot \o SubSeq(@, at + 1, Len(@)),
                       !.blocks = [i \in DOMAIN @ |->
                            IF @[i].start > at THEN [@[i] EXCEPT !.start = @ + 1] ELSE @[i]]]
MaterialiseCur(m) == [Materialise(m, m.pending.cur) EXCEPT !.pending.cur = <<>>]
MaterialiseOld(m) == [Materialise(m, m.pending.old) EXCEPT !.pending.old = <<>>]

\* The context of a comparison is as wide as its destination: a literal has no
\* width of its own.
ApplyCompare(m) ==
    LET a == Top(m, 0)
        b == Top(m, 1)
        w == IF ~IsLiteral(a) THEN ValueBits(a)
             ELSE IF ~IsLiteral(b) THEN ValueBits(b)
             ELSE X!Larger(ValueBits(a), ValueBits(b))
    IN  [Drop(m, 2) EXCEPT !.context = [bits |-> w, old |-> Widen(a, w),
                                        cur |-> X!Binary("sub", Widen(a, w), Widen(b, w))]]

\* What is written to the zero register is dropped, its flags are not.
ApplyAssign(m, op, seeds) ==
    LET g == Top(m, 0).g
        v == Widen(Top(m, 1), RefBits(g))
        e == IF op = "" THEN v ELSE X!Binary(op, ReadRef(g), v)
        rest == Drop(m, 2)
        seeded == IF seeds THEN SeedFlags(rest, g, e) ELSE rest
    IN  IF Top(m, 0).kind # "register" THEN Decline(m)
        ELSE IF g.zero THEN seeded
        ELSE Emit(seeded, Assign(g.var, g.bits, WriteRef(g, e)))
ApplyNegAssign(m) ==
    LET g == Top(m, 0).g
        b == RefBits(g)
    IN  IF Top(m, 0).kind # "register" THEN Decline(m)
        ELSE Emit(Drop(m, 1),
                  Assign(g.var, g.bits,
                         WriteRef(g, X!Ite(IsZero(Top(m, 0)), X!Const(1, b), X!Const(0, b)))))

----------------------------------------------------------------------------
\* Flags, from the values before and after.

AsBit(c) == X!Ite(c, X!Const(1, 1), X!Const(0, 1))
LowBits(e, n, bits) ==
    X!Binary("and", e, X!Const(2 ^ (IF n + 1 < bits THEN n + 1 ELSE bits) - 1, bits))
Carry(c, n) == AsBit(X!Binary("ult", LowBits(c.cur, n, c.bits), LowBits(c.old, n, c.bits)))
Borrow(c, n) == AsBit(X!Binary("ult", LowBits(c.old, n, c.bits), LowBits(c.cur, n, c.bits)))
Overflow(c, n) == X!Binary("xor", Carry(c, n - 1), Carry(c, n))
ZeroFlag(c) == AsBit(X!Binary("eq", c.cur, X!Const(0, c.bits)))
EvenParity(c) ==
    LET top == IF Bits[8] < c.bits THEN Bits[8] ELSE c.bits
        fold[i \in 1..top] ==
            LET bit == X!Extract(c.cur, i - 1, i - 1)
            IN  IF i = 1 THEN bit ELSE X!Binary("xor", fold[i - 1], bit)
    IN  X!Binary("xor", fold[top], X!Const(1, 1))

\* $z and $p pop nothing; the others pop the index of a bit, a literal.
ApplyFlag(m, suffix) ==
    LET c == m.context
        n == Top(m, 0).e[1].value
        cur == MaterialiseCur(m)
        rest == Drop(cur, 1)
        both == MaterialiseOld(rest)
    IN  CASE c.bits = 0 -> Decline(m)
          [] c.bits # 0 /\ suffix = "z" -> PushExpr(cur, ZeroFlag(c), 1)
          [] c.bits # 0 /\ suffix = "p" -> PushExpr(cur, EvenParity(c), 1)
          [] c.bits # 0 /\ suffix \in {"s", "c", "b", "o"} ->
                IF ~Has(m, 1) \/ ~IsLiteral(Top(m, 0)) THEN Decline(m)
                ELSE CASE suffix = "s" -> IF n >= c.bits THEN Decline(m)
                                          ELSE PushExpr(rest, X!Extract(c.cur, n, n), 1)
                       [] suffix = "c" -> PushExpr(both, Carry(c, n), 1)
                       [] suffix = "b" -> PushExpr(both, Borrow(c, n), 1)
                       [] suffix = "o" -> IF n = 0 THEN Decline(m) ELSE PushExpr(both, Overflow(c, n), 1)

----------------------------------------------------------------------------
\* Memory, and the blocks that a condition guards.

MarkMemory(m) ==
    IF m.blocks = <<>> THEN m ELSE [m EXCEPT !.blocks[Len(m.blocks)].memory = TRUE]
ApplyLoad(m, w) ==
    LET dst == Temp("load", Len(m.statements))
    IN  PushRef(MarkMemory(Emit(Drop(m, 1), [kind |-> "load", dst |-> dst, w |-> w,
                                             e |-> ValueExpr(Top(m, 0))])),
                Whole(dst, Bits[w]))
ApplyStore(m, w) ==
    MarkMemory(Emit(Drop(m, 2), [kind |-> "store", w |-> w, e |-> ValueExpr(Top(m, 0)),
                                 v |-> Widen(Top(m, 1), Bits[w])]))

OpenBlock(m) ==
    LET v == Top(m, 0)
        cond == IF ValueBits(v) = 1 THEN ValueExpr(v)
                ELSE X!Ite(IsZero(v), X!Const(0, 1), X!Const(1, 1))
    IN  [Drop(m, 1) EXCEPT !.blocks =
            Append(@, [cond |-> cond, start |-> Len(m.statements), memory |-> FALSE])]
\* Every assignment of the block keeps what its destination held otherwise.
CloseBlock(m) ==
    LET block == m.blocks[Len(m.blocks)]
        guarded(s) == [s EXCEPT !.e = X!Ite(block.cond, s.e, X!Var(s.dst, s.bits))]
    IN  IF m.blocks = <<>> \/ block.memory THEN Decline(m)
        ELSE [m EXCEPT !.blocks = SubSeq(@, 1, Len(@) - 1),
                       !.statements = [i \in DOMAIN @ |->
                            IF i > block.start /\ @[i].kind = "assign" THEN guarded(@[i]) ELSE @[i]]]

----------------------------------------------------------------------------
Needs(k) ==
    CASE k.t \in {"int", "register", "flag register", "flag", "}", "unknown"} -> 0
      [] k.t \in {"!", "!=", "load", "?{"} -> 1
      [] k.t \in {"binary", "==", "=", ":=", "compound", "store"} -> 2
MachineStep(m, k) ==
    CASE ~m.ok -> m
      [] m.ok /\ (k.t = "unknown" \/ ~Has(m, Needs(k))) -> Decline(m)
      [] m.ok /\ k.t # "unknown" /\ Has(m, Needs(k)) ->
            CASE k.t = "int" -> PushExpr(m, X!Const(k.n % 2 ^ Bits[Ptr], Bits[Ptr]), Bits[Ptr])
              [] k.t = "register" -> PushRef(m, RegisterRef(k.o))
              [] k.t = "flag register" -> PushRef(m, FlagRef(k.f))
              [] k.t = "flag" -> ApplyFlag(m, k.suffix)
              [] k.t = "binary" -> ApplyBinary(m, k.op)
              [] k.t = "!" -> ApplyNot(m)
              [] k.t = "==" -> ApplyCompare(m)
              [] k.t = "!=" -> ApplyNegAssign(m)
              [] k.t = "=" -> ApplyAssign(m, "", TRUE)
              [] k.t = ":=" -> ApplyAssign(m, "", FALSE)
              [] k.t = "compound" -> ApplyAssign(m, k.op, TRUE)
              [] k.t = "load" -> ApplyLoad(m, k.w)
              [] k.t = "store" -> ApplyStore(m, k.w)
              [] k.t = "?{" -> OpenBlock(m)
              [] k.t = "}" -> CloseBlock(m)
\* lift_esil; the machine declines a block left open.
LiftEsil(esil) ==
    LET run[i \in 0..Len(esil)] == IF i = 0 THEN Fresh ELSE MachineStep(run[i - 1], esil[i])
        m == run[Len(esil)]
    IN  IF m.blocks = <<>> THEN m ELSE Decline(m)
\* The rung of lift_instruction: an empty lowering is none.
Lifts(m) == m.ok /\ m.statements # <<>>

----------------------------------------------------------------------------
\* The statements, over a state of the lifted block.

\* A temporary that nothing has written holds anything; it holds zero here.
ReadName(env, temps, n) ==
    CASE n[1] = "register" -> env.regs[n[2]]
      [] n[1] = "flag" -> env.flags[n[2]]
      [] n[1] = "temp" -> IF n \in DOMAIN temps THEN temps[n] ELSE 0
Denotes(env, temps, e) ==
    LET held == [n \in X!Reads(e) |-> ReadName(env, temps, n)]
    IN  IF \E n \in DOMAIN held : held[n] = Unk THEN Unk ELSE X!Denote(e, held).v
RunStatement(c, s) ==
    LET v == Denotes(c.env, c.temps, s.e)
        keep(n, x) == [c EXCEPT !.temps = [k \in DOMAIN @ \cup {n} |-> IF k = n THEN x ELSE @[k]]]
    IN  CASE s.kind = "store" -> [c EXCEPT !.env = StoreMem(@, v, Denotes(c.env, c.temps, s.v), s.w)]
          [] s.kind = "load" -> keep(s.dst, LoadMem(c.env, v, s.w))
          [] s.kind = "assign" ->
                LET x == U1(v, v % 2 ^ s.bits)
                IN  CASE s.dst[1] = "register" -> [c EXCEPT !.env.regs[s.dst[2]] = x]
                      [] s.dst[1] = "flag" -> [c EXCEPT !.env.flags[s.dst[2]] = x]
                      [] s.dst[1] = "temp" -> keep(s.dst, x)
RunStatements(env, statements) ==
    LET run[i \in 0..Len(statements)] ==
            IF i = 0 THEN [env |-> env, temps |-> <<>>] ELSE RunStatement(run[i - 1], statements[i])
    IN  run[Len(statements)].env

----------------------------------------------------------------------------
\* The strings that radare2 attaches, as the tests and comments quote them; an
\* instruction of any other form has none here.

Value(o) ==
    LET base == Name(Reg(o.base, "full"))
        address == CASE o.base = "none" -> <<Number(o.disp)>>
                     [] o.base # "none" /\ o.disp = 0 -> <<base>>
                     [] o.base # "none" /\ o.disp # 0 -> <<Number(o.disp), base, Op("add")>>
    IN  CASE o.kind = "register" -> <<Name(o)>>
          [] o.kind = "immediate" -> <<Number(o.n)>>
          [] o.kind = "memory" -> address \o <<Load(o.w)>>
Write(source, o) ==
    IF o.kind = "register" THEN source \o <<Name(o), Token("=")>>
    ELSE source \o SubSeq(Value(o), 1, Len(Value(o)) - 1) \o <<Store(o.w)>>
SetFlag(f, source) == source \o <<FlagName(f), Token(":=")>>
At(suffix, n) == <<Number(n), Dollar(suffix)>>

Operators == [add |-> "add", sub |-> "sub", and |-> "and", or |-> "or", xor |-> "xor",
              orr |-> "or", eor |-> "xor"]

EsilOfX86(x) ==
    LET o == x.operands
        n == Bits[OperandWidth(o[1])]
        src == Value(o[2])
        update == src \o <<Name(o[1]), Compound(Operators[x.op])>>
        compare == src \o <<Name(o[1]), Token("==")>>
        masked == <<Number(0)>> \o src \o <<Name(o[1]), Op("and"), Token("==")>>
        result == SetFlag("ZF", <<Dollar("z")>>) \o SetFlag("PF", <<Dollar("p")>>)
                  \o SetFlag("SF", At("s", n - 1))
        sums == SetFlag("CF", At("c", n - 1)) \o SetFlag("OF", At("o", n - 1))
        differences ==
            SetFlag("CF", At("b", n))
            \o SetFlag("OF", src \o <<Number(2 ^ (n - 1)), Op("sub"), Token("!")>>
                             \o At("o", n - 1) \o <<Op("xor")>>)
        cleared == SetFlag("CF", <<Number(0)>>) \o SetFlag("OF", <<Number(0)>>)
    IN  CASE x.op \in {"mov", "movzx"} -> Write(src, o[1])
          [] x.op = "lea" -> Write(SubSeq(src, 1, Len(src) - 1), o[1])
          [] x.op \in {"add", "sub", "and", "or", "xor", "cmp", "test"}
             /\ o[1].kind = "register" /\ o[1] # o[2] ->
                (CASE x.op = "add" -> update \o result \o sums
                   [] x.op = "sub" -> update \o result \o differences
                   [] x.op = "cmp" -> compare \o result \o differences
                   [] x.op = "test" -> masked \o result \o cleared
                   [] x.op \in {"and", "or", "xor"} -> update \o result \o cleared)
          [] OTHER -> <<Token("unknown")>>

\* The condition of an instruction of AArch32, over the flags it reads.
Guard(cond) ==
    LET flag == [eq |-> "ZF", ne |-> "ZF", hs |-> "CF", lo |-> "CF", mi |-> "SF", pl |-> "SF"]
        test == <<FlagName(flag[cond])>>
    IN  IF cond \in {"ne", "lo", "pl"} THEN test \o <<Token("!")>> ELSE test
EsilOfArm(x) ==
    LET o == x.operands
        n == Bits[OperandWidth(o[1])]
        plain == ~x.s /\ \A i \in DOMAIN o :
                            o[i].kind = "immediate" \/ (o[i].kind = "register" /\ o[i].r # "pc")
        body ==
            CASE x.op = "mov" /\ plain -> Write(Value(o[2]), o[1])
              [] x.op \in {"add", "sub", "and", "orr", "eor"} /\ plain /\ Len(o) = 3 ->
                    Write(Value(o[3]) \o Value(o[2]) \o <<Op(Operators[x.op])>>, o[1])
              [] x.op = "str" /\ o[2].mode = "offset" /\ o[2].off.kind = "immediate" ->
                    Value(o[1]) \o <<Number(o[2].off.n), Name(Reg(o[2].base, "full")), Op("add"),
                                     Store(OperandWidth(o[1]))>>
              [] x.op = "cmp" ->
                    Value(o[2]) \o Value(o[1]) \o <<Token("==")>>
                    \o SetFlag("ZF", <<Dollar("z")>>) \o SetFlag("SF", At("s", n - 1))
                    \o SetFlag("CF", At("b", n) \o <<Token("!")>>) \o SetFlag("OF", At("o", n - 1))
              [] OTHER -> <<Token("unknown")>>
    IN  CASE x.op \notin {"mov", "add", "sub", "and", "orr", "eor", "cmp", "str"} -> body
          [] x.cond = "al" -> body
          [] x.cond \in {"eq", "ne", "hs", "lo", "mi", "pl"} ->
                Guard(x.cond) \o <<Token("?{")>> \o body \o <<Token("}")>>
          [] OTHER -> <<Token("unknown")>>
=============================================================================
