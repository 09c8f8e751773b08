------------------------------ MODULE MCFormula ------------------------------
(* The statements of a small instruction set, registers of four bits, one of *)
(* a byte of two, and a flag.                                               *)
EXTENDS FormulaRun

CONSTANTS a, b, byte, zf, h1, h2

MCRegisters == {a, b, byte, zf}
MCHidden == {h1, h2}
MCWidth == [x \in MCRegisters |-> CASE x = byte -> 2 [] x = zf -> 1 [] OTHER -> 4]
A == Var(<<a, -1>>, 4)
B == Var(<<b, -1>>, 4)
C == Var(<<byte, -1>>, 2)
Z == Var(<<zf, -1>>, 1)
U(k) == Unknown(<<k, -1>>)
Low(e) == Extract(e, 1, 0)
Up(e) == Extract(e, 3, 2)
MCStatements == {
    Assign(b, 4, A),
    Assign(a, 4, Binary("xor", A, A)),
    Assign(a, 4, Binary("add", A, B)),
    Assign(a, 4, Const(1, 4)),
    Assign(b, 4, Binary("concat", Up(B), Low(A))),
    Assign(a, 4, Binary("and", U(h1), U(h2))),
    Assign(b, 4, Binary("ror", A, Const(5, 4))),
    Assign(b, 4, Binary("ror", B, A)),
    Assign(a, 4, Ite(Z, B, A)),
    Assign(zf, 1, Binary("eq", Binary("sub", A, B), Const(0, 4))),
    Assign(zf, 1, Binary("slt", A, SignExtend(Low(B), 4))),
    Assign(a, 4, Binary("or", Binary("and", B, Const(15, 4)), ZeroExtend(C, 4))),
    Assign(b, 4, ZeroExtend(Z, 4)),
    Assign(b, 4, Binary("srem", Binary("ashr", A, Const(1, 4)), B)),
    Load(byte, A, 2),
    Load(b, A, 4),
    Load(a, Binary("add", B, Const(0, 4)), 4),
    Store(A, B, 4),
    Store(Binary("sub", B, Const(1, 4)), Low(A), 2),
    Nop}
MCConditions == {Not(Z), Binary("eq", ZeroExtend(Low(B), 4), A),
                 Binary("booland", Binary("ult", A, B), Not(Not(Z)))}
MCStarts == {
    [n \in PlainNames |-> CASE n = Plain(a) -> 6 [] n = Plain(b) -> 7 [] n = Plain(zf) -> 0 [] n = Plain(byte) -> 1 [] n = Plain(h1) -> 3 [] OTHER -> 9],
    [n \in PlainNames |-> CASE n = Plain(a) -> 15 [] n = Plain(b) -> 15 [] n = Plain(zf) -> 1 [] n = Plain(byte) -> 2 [] n = Plain(h1) -> 0 [] OTHER -> 8]}
MCMemory == [p \in 0..15 |-> (3 * p + p \div 4) % 4]
=============================================================================
