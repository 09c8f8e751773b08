----------------------------- MODULE MCVectorRun -----------------------------
(* Instances of VectorRun. *)
EXTENDS VectorRun, TLC

MCExponent == (2 :> 3) @@ (4 :> 4)

V(r) == View(r, 0, 16)
W(r) == View(r, 0, 32)
M(n) == Memory("mem", 0, n)
EAX == General("rax", 4)

\* Legacy forms of two operands, and VEX forms of two or three.
Legacy2(op, k, arg) == {X86!Insn(op, k, FALSE, arg, <<V("v0"), s>>) : s \in {V("v1"), M(16)}}
Vex3(op, k, arg) ==
    {X86!Insn(op, k, TRUE, arg, <<V("v0"), V("v1"), V("v0")>>),
     X86!Insn(op, k, TRUE, arg, <<W("v0"), W("v1"), M(32)>>)}
Vex2(op, k, arg) ==
    {X86!Insn(op, k, TRUE, arg, <<V("v0"), V("v1")>>), X86!Insn(op, k, TRUE, arg, <<W("v1"), W("v0")>>)}
Binary(op, k, arg) == Legacy2(op, k, arg) \cup Vex3(op, k, arg)
Unary(op, k, arg) == Legacy2(op, k, arg) \cup Vex2(op, k, arg)

S(f) == SignedOp(f)
U(f) == LaneOp(f)
IntOps == {U("add"), U("sub"), S("max"), U("max"), S("min"), U("min"),
           S("sat"), U("sat"), Subtracting(S("sat")), Subtracting(U("sat"))}
X86Ints ==
    UNION {Binary("int", k, f) : k \in {1, 2, 4}, f \in IntOps}
    \cup UNION {Binary("int", k, Rounding(U("halve"))) : k \in {1, 2}}
    \cup UNION {Binary("int", 2, f) : f \in {S("mulhigh"), U("mulhigh"), U("mul")}}
    \cup UNION {Unary("int1", k, U("abs")) : k \in {1, 2, 4}}
    \cup UNION {Binary("bits", 1, f) : f \in {"and", "or", "xor", "andnot"}}
    \cup {X86!Insn("bits", 1, v, "xor", <<V("v1"), V("v1")>>) : v \in {FALSE}}
    \cup Binary("madd", 2, "none")
    \cup UNION {Binary("compare", k, [f |-> f, signed |-> TRUE]) : k \in {1, 2, 4}, f \in {"eq", "gt"}}
    \cup UNION {Unary("move", k, "none") : k \in {4}}
    \cup {X86!Insn("move", 4, FALSE, "none", <<M(16), V("v0")>>), X86!Insn("move", 4, TRUE, "none", <<M(32), W("v0")>>)}
X86Permutes ==
    {X86!WithImm(x, n) : n \in {27, 228, 78}, x \in UNION {Unary("shuffle", p[1], p[2]) : p \in {<<4, "all">>, <<2, "low">>, <<2, "high">>}}}
    \cup UNION {Binary("unpack", k, f) : k \in {1, 2, 4, 8}, f \in {"high", "low"}}
    \cup {X86!WithImm(x, n) : n \in {0, 5, 16, 21, 32, 40}, x \in Binary("align", 1, "none")}
    \cup Binary("shuffleb", 1, "none")
    \cup UNION {Binary("pack", k, f) : k \in {2, 4}, f \in BOOLEAN}
    \cup {X86!WithImm(X86!Insn("byteshift", 1, FALSE, d, <<V("v0"), V("v0")>>), n) : d \in {"left", "right"}, n \in {0, 3, 17}}
    \cup {X86!WithImm(X86!Insn("byteshift", 1, TRUE, d, <<o, p>>), 3) : d \in {"left", "right"}, <<o, p>> \in {<<V("v1"), V("v0")>>, <<W("v1"), W("v0")>>}}
    \cup {X86!WithImm(x, n) : n \in {0, 3, 9, 10, 25}, x \in UNION {Unary("laneshift", k, f) : k \in {2, 4}, f \in {"shl", "shr", "sar"}}}
Pred(p, n) == [pred |-> p, negated |-> n]
Preds == {Pred(p, n) : p \in {"eq", "lt", "le", "unord"}, n \in BOOLEAN}
Scalar(op, k, arg) ==
    {X86!Insn(op, k, FALSE, arg, <<V("v0"), V("v1")>>), X86!Insn(op, k, FALSE, arg, <<V("v0"), M(k)>>),
     X86!Insn(op, k, TRUE, arg, <<V("v0"), V("v1"), V("v0")>>)}
X86Floats ==
    UNION {Binary("fp", k, f) : k \in {2, 4}, f \in {"fadd", "fsub", "fmul", "fdiv", "fmax", "fmin"}}
    \cup UNION {Binary("fmask", k, p) : k \in {2}, p \in Preds}
    \cup Unary("sqrt", 2, "none")
    \cup {X86!Insn("widen", 2, TRUE, "none", <<V("v0"), View("v1", 0, 8)>>),
          X86!Insn("widen", 2, TRUE, "none", <<W("v0"), V("v1")>>)}
    \cup {X86!Insn("narrow", 4, TRUE, m, <<View("v0", 0, 8), V("v1")>>) : m \in {"even", "zero", "up", "down"}}
    \cup {X86!Insn("narrow", 4, TRUE, m, <<V("v0"), W("v1")>>) : m \in {"even"}}
    \cup UNION {Scalar("sfp", k, f) : k \in {2, 4}, f \in {"fadd", "fmul", "fmax"}}
    \cup UNION {Scalar("smask", 2, p) : p \in {Pred("lt", TRUE), Pred("unord", FALSE)}}
    \cup Scalar("ssqrt", 2, "none")
    \cup UNION {{X86!Insn("fcompare", k, v, "none", <<V("v0"), s>>) : v \in BOOLEAN, s \in {V("v1"), M(k)}} : k \in {2, 4}}
X86Mixed ==
    UNION {Scalar("smove", k, "none") : k \in {2, 4}}
    \cup {X86!Insn("smove", 4, FALSE, "none", <<M(4), V("v0")>>)}
    \cup {X86!Insn("movemask", 1, v, "none", <<General("rax", 4), V("v0")>>) : v \in {FALSE}}
    \cup {X86!Insn("transfer", 4, v, "none", <<V("v0"), EAX>>) : v \in BOOLEAN}
    \cup {X86!Insn("transfer", 4, v, "none", <<EAX, V("v0")>>) : v \in BOOLEAN}
    \cup {X86!Insn("ptest", 1, v, "none", <<V("v0"), V("v1")>>) : v \in BOOLEAN}
    \cup {X86!Insn("int2fp", k, FALSE, "none", <<V("v0"), s>>) : k \in {2, 4}, s \in {EAX, M(4)}}
    \cup {X86!Insn("fp2int", k, FALSE, m, <<EAX, V("v0")>>) : k \in {2, 4}, m \in {"zero", "even"}}
    \cup {X86!Insn("fp2fp", p[1], FALSE, p[2], <<V("v0"), s>>) : p \in {<<2, 4>>, <<4, 2>>}, s \in {V("v1"), M(4)}}

----------------------------------------------------------------------------
\* AArch64.

A(op, arg, operands) == A64!Arm(op, arg, operands)
Q(r, k) == A64!Vector(r, 16 \div k, k)          \* 128 bits, and 64
D(r, k) == A64!Vector(r, 8 \div k, k)
E(r, k, i) == A64!Element(r, k, i)
R(r, k) == A64!Scalar(r, k)
G(n) == A64!Gpr("x0", n)
Same2(op, arg, k) == {A(op, arg, <<Q("v0", k), Q("v1", k)>>), A(op, arg, <<D("v0", k), D("v1", k)>>)}
Same3(op, arg, k) ==
    {A(op, arg, <<Q("v0", k), Q("v1", k), Q("v2", k)>>), A(op, arg, <<D("v0", k), D("v1", k), D("v2", k)>>)}
SameImm(op, arg, k, n) ==
    {A64!By(A(op, arg, <<Q("v0", k), Q("v1", k), A64!Constant>>), n), A64!By(A(op, arg, <<D("v0", k), D("v1", k), A64!Constant>>), n)}
\* The forms of the lower and of the upper half: sources that are half as
\* wide, and destinations that are.
Long3(op, arg, k) ==
    {A(op, arg, <<Q("v0", 2 * k), D("v1", k), D("v2", k)>>), A64!Upper(A(op, arg, <<Q("v0", 2 * k), Q("v1", k), Q("v2", k)>>))}
Long2(op, arg, k, n) ==
    {A64!By(x, n) : x \in {A(op, arg, <<Q("v0", 2 * k), D("v1", k), A64!Constant>>),
                           A64!Upper(A(op, arg, <<Q("v0", 2 * k), Q("v1", k), A64!Constant>>))}}
Narrow2(op, arg, k) ==
    {A(op, arg, <<D("v0", k), Q("v1", 2 * k)>>), A64!Upper(A(op, arg, <<Q("v0", k), Q("v1", 2 * k)>>))}
Narrow3(op, arg, k) ==
    {A(op, arg, <<D("v0", k), Q("v1", 2 * k), Q("v2", 2 * k)>>), A64!Upper(A(op, arg, <<Q("v0", k), Q("v1", 2 * k), Q("v2", 2 * k)>>))}
NarrowBy(op, arg, k, n) ==
    {A64!By(x, n) : x \in {A(op, arg, <<D("v0", k), Q("v1", 2 * k), A64!Constant>>),
                           A64!Upper(A(op, arg, <<Q("v0", k), Q("v1", 2 * k), A64!Constant>>))}}
LongElement3(op, arg, k, i) ==
    {A(op, arg, <<Q("v0", 2 * k), D("v1", k), E("v2", k, i)>>), A64!Upper(A(op, arg, <<Q("v0", 2 * k), Q("v1", k), E("v2", k, i)>>))}

Sat(f, to) == A64!SaturatingOp(f, to)
Tos == {"signed", "unsigned", "signed_to_unsigned"}
Saturated(f, k) ==
    {Sat(f, "signed"), Sat(f, "unsigned")}
    \cup (IF f = "addsub" THEN {Subtracting(Sat(f, "signed")), [Subtracting(Sat(f, "signed_to_unsigned")) EXCEPT !.signed = FALSE]} ELSE {})
    \cup (IF f = "halve" THEN {Rounding(Sat(f, "signed")), Rounding(Sat(f, "unsigned"))} ELSE {})
ShiftBy(f, signed, round, saturate) == [f |-> f, signed |-> signed, round |-> round, saturate |-> saturate]
Combine(f, signed, combine) == [f |-> f, signed |-> signed, combine |-> combine, long |-> f = "long", wide_first |-> FALSE, step |-> "none"]
Widening(f, signed, wide_first) == [f |-> f, signed |-> signed, wide_first |-> wide_first]
\* A shift to the left by less than a lane, one to the right by at most one.
EncodedShifts(forms) ==
    {x \in forms : x.imm \in (IF x.arg.f = "shr" THEN 1 ELSE 0)..(Bits(x.operands[1].k) - (IF x.arg.f = "shr" THEN 0 ELSE 1))}
A64Ints ==
    UNION {Same3("int", f, k) : k \in {1, 2, 4}, f \in {U("add"), U("sub"), S("max"), U("max"), S("min"), U("min")}}
    \cup UNION {Same3("int", U("mul"), k) : k \in {1, 2}}
    \cup UNION {Same3("int", U(f), 1) : f \in {"and", "or", "xor", "bic"}}
    \cup UNION {Same2("int", U(f), 1) : f \in {"not", "copy", "abs", "neg"}}
    \cup UNION {Same2("int", U(f), 4) : f \in {"abs", "neg"}}
    \cup UNION {Same2("bits", f, 1) : f \in {"cnt", "clz", "cls", "rbit"}}
    \cup UNION {Same2("bits", f, 2) : f \in {"clz", "cls"}}
    \cup UNION {Same3("pairwise", [A64!Fold(f) EXCEPT !.signed = g], k) : k \in {1, 2, 4}, f \in {"add", "max", "min"}, g \in BOOLEAN}
    \cup UNION {Same3("abd", [signed |-> g, acc |-> h], k) : k \in {1, 4}, g \in BOOLEAN, h \in BOOLEAN}
    \cup UNION {Same3("sat", f, k) : k \in {1, 2, 4}, f \in Saturated("addsub", 1) \cup Saturated("halve", 1)}
    \cup UNION {Same2("sat", f, k) : k \in {1, 4}, f \in {Sat("unary", "signed"), Subtracting(Sat("unary", "signed"))}}
    \cup {A("sat", f, <<R("v0", k), R("v1", k)>>) : k \in {1, 4}, f \in {Sat("unary", "signed"), Subtracting(Sat("unary", "signed"))}}
    \cup UNION {Same3("sat", f, 2) : f \in {Sat("dmulh", "signed"), Rounding(Sat("dmulh", "signed"))}}
    \cup UNION {Narrow2("sat", [Sat("narrow", to) EXCEPT !.signed = to # "unsigned"], k) : k \in {1, 2}, to \in Tos}
    \cup UNION {NarrowBy("sat", [Sat("shiftnarrow", to) EXCEPT !.round = r], k, n) :
                    k \in {1, 2}, to \in Tos \cup {"none"}, r \in BOOLEAN, n \in {1, 4, 5}}
    \cup UNION {Same2("mixed", f, k) : k \in {1, 2, 4}, f \in {"signed", "unsigned"}}
    \cup UNION {Long3("doublinglong", f, 2) \cup LongElement3("doublinglong", f, 2, 5) : f \in {"none", "add", "sub"}}
    \cup EncodedShifts(UNION {SameImm("shift", ShiftBy(f, g, h, FALSE), k, n) :
                    f \in {"shl", "sqshl", "shr"}, g \in BOOLEAN, h \in BOOLEAN, k \in {1, 2}, n \in {0, 1, 4, 5, 10}})
    \cup UNION {SameImm("shift", ShiftBy("sqshlu", TRUE, FALSE, FALSE), k, n) : k \in {1, 2}, n \in {0, 1, 4}}
    \cup UNION {Same3("shift", ShiftBy("reg", g, h, sat), k) : g \in BOOLEAN, h \in BOOLEAN, sat \in BOOLEAN, k \in {1, 2}}
    \cup EncodedShifts(UNION {SameImm("shiftinsert", [f |-> f, left |-> f = "shl"], k, n) : f \in {"shl", "shr"}, k \in {1, 2}, n \in {0, 3, 5, 10}})
    \cup UNION {Same3("compare", [f |-> f, signed |-> g], k) : f \in {"eq", "gt", "ge", "tst"}, g \in BOOLEAN, k \in {1, 4}}
    \cup UNION {SameImm("compare", [f |-> f, signed |-> TRUE], k, 0) : f \in {"eq", "gt", "ge"}, k \in {1, 4}}
    \cup Same2("estimate", "integer", 4)
A64Moves ==
    {A64!By(A("immediate", [lsl |-> 0, msl |-> m, invert |-> v], <<Q("v0", k), A64!Constant>>), n) :
        k \in {4}, m \in {0, 5}, v \in BOOLEAN, n \in {0, 19}}
    \cup {A64!By(A("immediate", [lsl |-> 5, msl |-> 0, invert |-> v], <<D("v0", 2), A64!Constant>>), 19) : v \in BOOLEAN}
    \cup {A("dup", "none", <<v, o>>) : v \in {Q("v0", 2), D("v0", 2)}, o \in {E("v1", 2, 6), G(4)}}
    \cup {A("dup", "none", <<Q("v0", 8), o>>) : o \in {E("v1", 8, 1), G(8)}}
    \cup {A64!By(x, n) : x \in Same3("ext", "none", 1), n \in {0, 3}}
    \cup {A64!By(A("ext", "none", <<Q("v0", 1), Q("v1", 1), Q("v2", 1)>>), 11)}
    \cup UNION {Same3("permute", [f |-> f, odd |-> g, n |-> 0], k) : f \in {"zip", "uzp", "trn"}, g \in BOOLEAN, k \in {1, 4}}
    \cup UNION {Same2("permute", [f |-> "rev", odd |-> FALSE, n |-> p[2]], p[1]) : p \in {<<1, 2>>, <<1, 4>>, <<1, 8>>, <<2, 4>>, <<2, 8>>, <<4, 8>>}}
    \cup {A("togpr", [signed |-> g], <<G(4), E("v1", k, 3)>>) : g \in BOOLEAN, k \in {1, 2, 4}}
    \cup UNION {{A("insert", "none", <<E("v0", k, 1), o>>) : o \in {E("v1", k, 3), G(4)}} : k \in {1, 4}}
    \cup {A("table", [keep |-> g], <<Q("v0", 1), A64!List(l, 16, 1), Q("v2", 1)>>) : g \in BOOLEAN, l \in {<<"v1">>, <<"v1", "v2">>}}
    \cup {A("table", [keep |-> g], <<D("v0", 1), A64!List(<<"v1">>, 16, 1), D("v0", 1)>>) : g \in BOOLEAN}
    \cup UNION {Same3("select", f, 1) : f \in {"bsl", "bit", "bif"}}
A64Widths ==
    UNION {Long3("widen", Widening(f, g, FALSE), k) : f \in {"add", "sub", "mul"}, g \in BOOLEAN, k \in {1, 2}}
    \cup UNION {{A("widen", Widening(f, g, TRUE), <<Q("v0", 2 * k), Q("v1", 2 * k), D("v2", k)>>),
                  A64!Upper(A("widen", Widening(f, g, TRUE), <<Q("v0", 2 * k), Q("v1", 2 * k), Q("v2", k)>>))} :
                    f \in {"add", "sub"}, g \in BOOLEAN, k \in {1, 2}}
    \cup UNION {Long2("widen", Widening("shift", g, FALSE), k, n) : g \in BOOLEAN, k \in {1, 2}, n \in {0, 3}}
    \cup UNION {Narrow2("widen", Widening("narrow", FALSE, FALSE), k) : k \in {1, 2}}
    \cup {A("pairlong", [signed |-> g, acc |-> h], <<Q("v0", 2 * k), Q("v1", k)>>) : g \in BOOLEAN, h \in BOOLEAN, k \in {1, 2}}
    \cup UNION {Narrow3("highnarrow", [sub |-> g, round |-> h], k) : g \in BOOLEAN, h \in BOOLEAN, k \in {1, 2}}
    \cup {A("reduce", [A64!Fold(f) EXCEPT !.signed = g], <<R("v0", o.k), o>>) :
            f \in {"add", "max", "min"}, g \in BOOLEAN, o \in {Q("v1", 1), D("v1", 2), Q("v1", 4)}}
    \cup {A("reduce", [A64!Fold("addlong") EXCEPT !.signed = g], <<R("v0", 2 * k), Q("v1", k)>>) : g \in BOOLEAN, k \in {1, 2}}
    \cup UNION {Same3("accumulate", Combine("int", FALSE, c), k) : c \in {"add", "sub"}, k \in {1, 2}}
    \cup UNION {Long3("accumulate", Combine("long", g, c), k) : g \in BOOLEAN, c \in {"add", "sub"}, k \in {1, 2}}
    \cup {A("element", Combine("int", FALSE, c), <<Q("v0", 2), Q("v1", 2), E("v2", 2, 5)>>) : c \in {"none", "add", "sub"}}
    \cup UNION {LongElement3("element", Combine("long", g, c), 2, 6) : g \in BOOLEAN, c \in {"none", "add", "sub"}}
    \cup {A("dot", [signed |-> g], <<Q("v0", 4), Q("v1", 1), o>>) : g \in BOOLEAN, o \in {Q("v2", 1), E("v2", 4, 2)}}
    \cup Long3("pmull", "none", 1)
Converting(f, signed, mode) ==
    [f |-> f, signed |-> signed, mode |-> mode, scales |-> f = "int" \/ mode = "zero", wide_first |-> FALSE]
Modes == {"zero", "even", "away", "up", "down"}
A64Floats(k) ==
    UNION {Same3("fp", f, k) : f \in {"fadd", "fsub", "fmul", "fdiv"}}
    \cup Same3("mulx", "none", k) \cup Same3("fabd", "none", k)
    \cup UNION {Same2("int", U(f), k) : f \in {"signflip", "signclear"}}
    \cup UNION {Same2("round", [mode |-> m, bits |-> n], k) : m \in Modes, n \in (IF k = 4 THEN {0, 3, 5} ELSE {0})}
    \cup UNION {Same3(op, [A64!Fold(f) EXCEPT !.number_wins = g], k) : op \in {"fold", "pairwise"}, f \in {"fmax", "fmin"}, g \in BOOLEAN}
    \cup Same3("pairwise", A64!Fold("fadd"), k)
    \cup {A("pairscalar", A64!Fold(f), <<R("v0", k), A64!Vector("v1", 2, k)>>) : f \in {"fadd", "fmax"}}
    \cup UNION {Same3("fcompare", [f |-> f, signed |-> TRUE], k) : f \in {"eq", "gt", "ge"}}
    \cup UNION {SameImm("fcompare", [f |-> f, signed |-> TRUE], k, 0) : f \in {"eq", "gt", "ge"}}
    \cup UNION {Same2("convert", Converting("float", g, m), k) : g \in BOOLEAN, m \in Modes}
    \cup {A("convert", Converting("float", g, m), <<d, R("v1", k)>>) : g \in BOOLEAN, m \in Modes \ {"zero"}, d \in {R("v0", k), G(2), G(4)}}
    \cup UNION {Same2("convert", Converting("int", g, "even"), k) : g \in BOOLEAN}
    \cup UNION {Same2("estimate", "float", k)}
    \cup {A("reduce", [A64!Fold(f) EXCEPT !.number_wins = g], <<R("v0", k), Q("v1", k)>>) : f \in {"fmax", "fmin"}, g \in BOOLEAN}
    \cup {A("element", Combine("float", FALSE, "none"), <<Q("v0", k), Q("v1", k), E("v2", k, 3)>>)}
A64Fixed == {A64!By(A("convert", Converting(f, g, "zero"), <<Q("v0", k), Q("v1", k)>>), n) :
                f \in {"int", "float"}, g \in BOOLEAN, k \in {2}, n \in {1, 4, 8}}
A64Narrows == Narrow2("convert", Converting("narrow", FALSE, "even"), 2)
A64Wide ==
    {A("convert", Converting("widen", FALSE, "even"), <<Q("v0", 4), D("v1", 2)>>),
     A64!Upper(A("convert", Converting("widen", FALSE, "even"), <<Q("v0", 4), Q("v1", 2)>>))}
A64Fused ==
    UNION {Same3("fused", f, 2) : f \in {"fmla", "fmls", "frecps", "frsqrts"}}
    \cup {A("element", [Combine("fused", FALSE, "none") EXCEPT !.step = f], <<Q("v0", 2), Q("v1", 2), E("v2", 2, 3)>>) : f \in {"fmla", "fmls"}}

----------------------------------------------------------------------------
\* Scalar floats, and structured loads and stores.
Scalar2(op, arg, k) == {A(op, arg, <<R("v0", k), R("v1", k)>>)}
Scalar3(op, arg, k) == {A(op, arg, <<R("v0", k), R("v1", k), R("v2", k)>>)}
Signs == [signed : BOOLEAN]
A64Scalars(k) ==
    UNION {Scalar3("sfp", f, k) : f \in {"fadd", "fsub", "fmul", "fdiv", "fmax", "fmin"}}
    \cup (IF k = 2 THEN Scalar2("ssqrt", "none", k) ELSE {})
    \cup UNION {Scalar2("sround", [mode |-> m, bits |-> n], k) : m \in Modes, n \in {0, 3, 5}}
    \cup Scalar3("smulx", "none", k) \cup Scalar2("srecpx", "none", k)
    \cup UNION {Scalar2("sunary", f, k) : f \in {"abs", "neg"}}
    \cup {A("fmov", "none", p) : p \in {<<R("v0", k), R("v1", k)>>, <<R("v0", k), G(4)>>, <<G(4), R("v0", k)>>}}
    \cup {A("fcmp", "none", <<R(r, k), o>>) : r \in {"v0", "v1", "v2"}, o \in {R("v1", k), R("v2", k), A64!Constant}}
    \cup {A("fcvt", "none", <<R("v0", 6 - k), R("v1", k)>>)}
    \cup {A("sint2fp", g, <<R("v0", k), o>>) : g \in Signs, o \in {G(4), G(2), R("v1", k)}}
    \cup {A("sfp2int", g, <<o, R("v1", k)>>) : g \in Signs, o \in {G(4), G(2), R("v0", k)}}
    \cup {A64!By(A("sint2fp", g, <<R("v0", k), G(2), A64!Constant>>), n) : g \in Signs, n \in {1, 10}}
    \cup {A64!By(A("sfp2int", g, <<G(2), R("v1", k), A64!Constant>>), n) : g \in Signs, n \in {1, 10}}
X(r) == A64!Base(r)
Structured(interleave, replicate, stores, operands) == A("structured", A64!Family(interleave, replicate, stores), operands)
Runs4 == <<<<"v4">>, <<"v5", "v0">>, <<"v1", "v2", "v3">>, <<"v4", "v5", "v0", "v1">>>>
A64Structured ==
    {Structured(1, FALSE, g, <<A64!List(Runs4[i], 8 \div k, k), X("x1")>>) : g \in BOOLEAN, i \in 1..4, k \in {1, 8}}
    \cup {Structured(1, FALSE, g, <<A64!List(Runs4[i], 4, 4), X("x1")>>) : g \in BOOLEAN, i \in 1..2}
    \cup {Structured(i, FALSE, g, <<A64!List(Runs4[i], 8 \div k, k), X("x1")>>) : g \in BOOLEAN, i \in 2..4, k \in {1, 2, 4}}
    \cup {Structured(i, FALSE, g, <<A64!ElementList(Runs4[i], k, 1), X("x1")>>) : g \in BOOLEAN, i \in 1..4, k \in {1, 4, 8}}
    \cup {Structured(i, TRUE, FALSE, <<A64!List(Runs4[i], 16 \div k, k), X("x1")>>) : i \in 1..4, k \in {1, 4}}
    \cup {A64!By(Structured(2, FALSE, g, <<A64!List(Runs4[2], 4, 2), X("x1"), o>>), 16) :
            g \in BOOLEAN, o \in {A64!Constant, A64!Gpr("x2", 8)}}
StructuredDeclined ==
    {Structured(2, FALSE, FALSE, <<A64!List(Runs4[2], 1, 8), X("x1")>>),
     Structured(2, FALSE, FALSE, <<A64!List(<<"v1", "v3">>, 4, 2), X("x1")>>),
     Structured(3, FALSE, TRUE, <<A64!List(Runs4[2], 4, 2), X("x1")>>),
     Structured(1, TRUE, TRUE, <<A64!List(Runs4[1], 4, 4), X("x1")>>),
     Structured(1, FALSE, FALSE, <<A64!ElementList(Runs4[1], 4, 4), X("x1")>>),
     Structured(1, FALSE, FALSE, <<A64!List(Runs4[1], 16, 1), X("x1"), A64!Gpr("x2", 4)>>)}

\* Forms the lifter declines: arrangements that differ, lanes of a size that
\* has no encoding, elements and amounts out of range.
A64Declined ==
    Same2("bits", "cnt", 2) \cup Same3("sat", Sat("dmulh", "signed"), 1)
    \cup {A("pairscalar", A64!Fold("max"), <<R("v0", 4), D("v1", 4)>>),
          A("int", U("add"), <<Q("v0", 1), Q("v1", 1), D("v2", 1)>>),
          A("dup", "none", <<Q("v0", 8), G(4)>>),
          A64!By(A("ext", "none", <<D("v0", 1), D("v1", 1), D("v2", 1)>>), 11),
          A("reduce", A64!Fold("add"), <<R("v0", 4), Q("v1", 1)>>)}
    \cup {A(op, arg, <<Q("v0", 4), Q("v1", 2), D("v2", 2)>>) :
            op \in {"widen"}, arg \in {Widening("add", TRUE, FALSE), Widening("add", TRUE, TRUE)}}
    \cup {A64!Upper(A("widen", Widening("narrow", FALSE, FALSE), <<D("v0", 1), D("v1", 2)>>))}

----------------------------------------------------------------------------
\* AArch32: q0 and q1 and the d and s registers of both.

Q2(n, k) == A32!Q32(n, k)
D2(n, k) == A32!D32(n, k)
S2(n, k) == A32!S32(n, k)
E2(n, k, i) == A32!Element32(n, k, i)
G2 == A32!Gpr("x0", 4)
Unary32(op, arg, k) == {A(op, arg, <<Q2(0, k), Q2(1, k)>>), A(op, arg, <<D2(1, k), D2(2, k)>>)}
Binary32(op, arg, k) == {A(op, arg, <<Q2(0, k), Q2(1, k), Q2(2, k)>>), A(op, arg, <<D2(1, k), D2(2, k), D2(5, k)>>)}
Amount32(op, arg, k, n) ==
    {A64!By(A(op, arg, <<Q2(0, k), Q2(1, k), A32!Constant>>), n), A64!By(A(op, arg, <<D2(1, k), D2(2, k), A32!Constant>>), n)}
ByElement32(op, arg, k, i) ==
    {A(op, arg, <<Q2(0, k), Q2(1, k), E2(4, k, i)>>), A(op, arg, <<D2(1, k), D2(2, k), E2(4, k, i)>>)}
Long32(op, arg, k) == {A(op, arg, <<Q2(0, 2 * k), D2(2, k), D2(5, k)>>)}
Accumulating(f, signed, acc, round) == [f |-> f, signed |-> signed, acc |-> acc, round |-> round]
A32Ints ==
    UNION {Binary32("int", f, k) : k \in {1, 2, 4}, f \in {U("add"), U("sub"), S("max"), U("max"), S("min"), U("min"),
                                S("sat"), U("sat"), Subtracting(S("sat")), Subtracting(U("sat")), S("halve"), U("halve"),
                                Subtracting(S("halve")), Subtracting(U("halve")), Rounding(S("halve")), Rounding(U("halve"))}}
    \cup UNION {Binary32("int", U("mul"), k) : k \in {1, 2}}
    \cup UNION {Binary32("int", U(f), 1) : f \in {"and", "or", "xor", "bic"}}
    \cup UNION {Unary32("int", U(f), 1) : f \in {"not", "abs", "neg"}} \cup UNION {Unary32("int", U(f), 4) : f \in {"abs", "neg"}}
    \cup UNION {Binary32("mla", [float |-> FALSE, sub |-> g], k) : g \in BOOLEAN, k \in {1, 2}}
    \cup EncodedShifts(UNION {Amount32("shiftimm", Accumulating(f, g, h, r), k, n) : f \in {"shr"}, g \in BOOLEAN, h \in BOOLEAN, r \in BOOLEAN,
                                k \in {1, 2}, n \in {1, 4, 5, 10}})
    \cup UNION {Amount32("shiftimm", Accumulating("shl", FALSE, FALSE, FALSE), 2, n) : n \in {0, 3, 9}}
    \cup UNION {Amount32("qshl", [signed |-> g], k, n) : g \in BOOLEAN, k \in {1, 2}, n \in {0, 1, 4}}
    \cup UNION {Binary32("shiftreg", [signed |-> g], k) : g \in BOOLEAN, k \in {1, 2}}
    \cup UNION {Unary32("qunary", [negate |-> g], k) : g \in BOOLEAN, k \in {1, 2, 4}}
    \cup UNION {Binary32("dmulh", [round |-> g], 2) \cup ByElement32("dmulh", [round |-> g], 2, 2) : g \in BOOLEAN}
    \cup UNION {Binary32("dmla", [sub |-> g], 2) \cup ByElement32("dmla", [sub |-> g], 2, 3) : g \in BOOLEAN}
    \cup UNION {Long32("dmull", c, 2) \cup {A("dmull", c, <<Q2(0, 4), D2(2, 2), E2(4, 2, 1)>>)} : c \in {"none", "add", "sub"}}
    \cup UNION {ByElement32("element", Combine("int", FALSE, c), 2, 1) : c \in {"none", "add", "sub"}}
    \cup {A("element", Combine("long", g, c), <<Q2(0, 4), D2(2, 2), E2(4, 2, 3)>>) : g \in BOOLEAN, c \in {"none", "add", "sub"}}
    \cup UNION {Binary32("abd", [signed |-> g, acc |-> h], k) : g \in BOOLEAN, h \in BOOLEAN, k \in {1, 2, 4}}
    \cup {A("pairlong", [signed |-> g, acc |-> h], <<Q2(0, 2 * k), Q2(1, k)>>) : g \in BOOLEAN, h \in BOOLEAN, k \in {1, 2}}
    \cup UNION {Binary32("compare", [f |-> f, signed |-> g], k) : f \in {"eq", "gt", "ge", "tst"}, g \in BOOLEAN, k \in {1, 4}}
    \cup UNION {Amount32("compare", [f |-> f, signed |-> TRUE], k, 0) : f \in {"eq", "gt", "ge"}, k \in {1, 4}}
    \cup {A("pairwise", [A64!Fold(f) EXCEPT !.signed = g], <<D2(1, k), D2(2, k), D2(5, k)>>) :
            f \in {"add", "max", "min"}, g \in BOOLEAN, k \in {1, 2, 4}}
    \cup Unary32("bits", "cnt", 1) \cup Unary32("bits", "clz", 1) \cup Unary32("bits", "clz", 2)
    \cup Unary32("estimate", "integer", 4)
    \cup UNION {Amount32("shiftinsert", [left |-> TRUE], k, n) : k \in {1, 2}, n \in {0, 3}}
    \cup UNION {Amount32("shiftinsert", [left |-> FALSE], k, n) : k \in {1, 2}, n \in {1, 5}}
    \cup UNION {Binary32("select", f, 1) : f \in {"bsl", "bit", "bif"}}
A32Moves ==
    UNION {{A64!By(x, n) : x \in Binary32("ext", "none", 1)} : n \in {0, 3, 7}}
    \cup UNION {Unary32("rev", [n |-> p[2]], p[1]) : p \in {<<1, 2>>, <<1, 4>>, <<1, 8>>, <<2, 4>>, <<2, 8>>, <<4, 8>>}}
    \cup {A("dup", "none", <<o, G2>>) : o \in {Q2(0, 1), D2(1, 2), Q2(1, 4)}}
    \cup UNION {Unary32("pairperm", [f |-> f], k) : f \in {"zip", "uzp", "trn"}, k \in {1, 2}}
    \cup Unary32("pairperm", [f |-> "trn"], 4)
    \cup {A("table", [keep |-> g], <<D2(1, 1), A32!Doublewords(l, 1), D2(5, 1)>>) : g \in BOOLEAN, l \in {<<2>>, <<1, 2>>, <<2, 3, 4, 5>>}}
A32Widths ==
    UNION {Long32("widen", Widening(f, g, FALSE), k) : f \in {"add", "sub", "mul"}, g \in BOOLEAN, k \in {1, 2}}
    \cup {A("widen", Widening(f, g, TRUE), <<Q2(0, 2 * k), Q2(1, 2 * k), D2(5, k)>>) : f \in {"add", "sub"}, g \in BOOLEAN, k \in {1, 2}}
    \cup {A("widen", Widening("extend", g, FALSE), <<Q2(0, 2 * k), D2(2, k)>>) : g \in BOOLEAN, k \in {1, 2}}
    \cup {A("narrow", [shifts |-> FALSE, round |-> FALSE], <<D2(1, k), Q2(1, 2 * k)>>) : k \in {1, 2}}
    \cup {A64!By(A("narrow", [shifts |-> TRUE, round |-> r], <<D2(1, k), Q2(1, 2 * k), A32!Constant>>), n) : k \in {1, 2}, r \in BOOLEAN, n \in {1, 4, 5}}
    \cup {A("satnarrow", p, <<D2(1, k), Q2(1, 2 * k)>>) : k \in {1, 2}, p \in {q \in [shifts : {FALSE}, round : {FALSE}, signed : BOOLEAN, to_unsigned : BOOLEAN] : q.to_unsigned => q.signed}}
    \cup {A64!By(A("satnarrow", p, <<D2(1, k), Q2(1, 2 * k), A32!Constant>>), n) : k \in {1, 2}, n \in {1, 5},
            p \in {q \in [shifts : {TRUE}, round : BOOLEAN, signed : BOOLEAN, to_unsigned : BOOLEAN] : q.to_unsigned => q.signed}}
    \cup {A("highnarrow", [sub |-> g, round |-> h], <<D2(1, k), Q2(1, 2 * k), Q2(2, 2 * k)>>) : g \in BOOLEAN, h \in BOOLEAN, k \in {1, 2}}
Rounds32 == {[mode |-> m, bits |-> 0] : m \in Modes}
\* Packed floats, and those of one register.
A32Floats(k) ==
    UNION {Binary32("fp", f, k) : f \in {"fadd", "fsub", "fmul", "fmax", "fmin"}}
    \cup UNION {Unary32("int", U(f), k) : f \in {"signflip", "signclear"}}
    \cup UNION {Binary32("mla", [float |-> TRUE, sub |-> g], k) : g \in BOOLEAN}
    \cup UNION {Unary32("round", r, k) : r \in Rounds32}
    \cup UNION {Binary32("fcompare", [f |-> f, signed |-> TRUE], k) : f \in {"eq", "gt", "ge"}}
    \cup UNION {Amount32("fcompare", [f |-> f, signed |-> TRUE], k, 0) : f \in {"eq", "gt", "ge"}}
    \cup UNION {ByElement32("element", Combine("float", FALSE, c), k, 1) : c \in {"none", "add", "sub"}}
    \cup Unary32("estimate", "float", k)
Vfp2(op, arg, k) == {A(op, arg, <<S2(1, k), S2(6, k)>>)}
Vfp3(op, arg, k) == {A(op, arg, <<S2(1, k), S2(6, k), S2(9, k)>>)}
Converting2(f, signed, mode, half) == [half |-> half] @@ Converting(f, signed, mode)
A32Scalars(k) ==
    UNION {Vfp3("fp", f, k) : f \in {"fadd", "fsub", "fmul", "fdiv", "fmax", "fmin"}}
    \cup UNION {Vfp2("int", U(f), k) : f \in {"signflip", "signclear"}}
    \cup UNION {Vfp2("round", r, k) : r \in Rounds32}
    \cup (IF k = 2 THEN Vfp2("vsqrt", "none", k) ELSE {})
    \cup Vfp2("vmov", "none", k)
    \cup {A("vcmp", "none", <<S2(n, k), o>>) : n \in {0, 1, 2, 3}, o \in {S2(5, k), S2(6, k), S2(1, k), A32!Constant}}
A32Wide ==
    UNION {Unary32("convert", Converting2(f, g, m, 0), 4) : f \in {"int", "float"}, g \in BOOLEAN, m \in Modes}
    \cup UNION {Vfp2("convert", Converting2(f, g, m, 0), 4) : f \in {"int", "float"}, g \in BOOLEAN, m \in Modes}
    \cup {A("convert", Converting2("narrow", FALSE, "even", 0), <<D2(1, 2), Q2(1, 4)>>)}
    \cup {A("convert", Converting2("narrow", FALSE, "even", h), <<S2(1, 2), S2(n, 4)>>) : h \in {0, 1}, n \in {4, 5, 6, 7}}
    \cup UNION {Amount32("convert", Converting2(f, g, "zero", 0), 4, 3) : f \in {"int", "float"}, g \in BOOLEAN}
    \cup {A64!By(A("convert", Converting2("float", g, "zero", 0), <<S2(1, 4), S2(1, 4), A32!Constant>>), n) : g \in BOOLEAN, n \in {1, 5, 20}}
    \cup {A("pairwise", A64!Fold(f), <<D2(1, 4), D2(2, 4), D2(5, 4)>>) : f \in {"fadd", "fmax", "fmin"}}
A32Narrow ==
    {A("convert", Converting2("widen", FALSE, "even", 0), <<Q2(0, 4), D2(2, 2)>>)}
    \cup {A("convert", Converting2("widen", FALSE, "even", h), <<S2(1, 4), S2(n, 2)>>) : h \in {0, 1}, n \in {4, 5, 6, 7}}
    \cup UNION {Binary32("fused", f, 2) : f \in {"fmla", "fmls", "frecps", "frsqrts"}}
    \cup UNION {Vfp2("convert", Converting2(f, g, "zero", 0), 2) : f \in {"int", "float"}, g \in BOOLEAN}
A32Lists == <<<<5>>, <<2, 3>>, <<1, 2, 3>>, <<0, 1, 2, 3>>>>
Apart == <<<<5>>, <<2, 4>>, <<1, 3, 5>>, <<0, 2, 4, 6>>>>
Access(i, stores, bang, operands) == A("structured", A32!Family32(i, stores, bang), operands)
X2 == A32!Base("x1")
A32Structured ==
    {Access(1, g, h, <<A32!Doublewords(A32Lists[i], k), X2>>) : g \in BOOLEAN, h \in BOOLEAN, i \in 1..4, k \in {1, 8}}
    \cup {Access(i, g, FALSE, <<A32!Doublewords(l[i], k), X2>>) : g \in BOOLEAN, i \in 2..4, l \in {A32Lists, Apart}, k \in {1, 2, 4}}
    \cup {Access(i, g, h, <<A32!Some(A32!Doublewords(A32Lists[i], k), "elements", 1), X2>>) : g \in BOOLEAN, h \in BOOLEAN, i \in 1..4, k \in {1, 4}}
    \cup {Access(i, FALSE, h, <<A32!Some(A32!Doublewords(A32Lists[i], k), "replicate", 0), X2>>) : h \in BOOLEAN, i \in 1..4, k \in {1, 4}}
    \cup {Access(2, g, FALSE, <<A32!Doublewords(A32Lists[2], 2), X2, A32!Gpr("x2", 4)>>) : g \in BOOLEAN}
    \cup {Access(1, FALSE, h, <<A32!Some(A32!Doublewords(A32Lists[2], 1), "replicate", 0), X2>>) : h \in BOOLEAN}
A32Declined ==
    {Access(2, FALSE, FALSE, <<A32!Doublewords(A32Lists[2], 8), X2>>), Access(2, FALSE, FALSE, <<A32!Doublewords(A32Lists[4], 1), X2>>),
     Access(1, FALSE, FALSE, <<A32!Doublewords(Apart[2], 1), X2>>),
     Access(1, FALSE, TRUE, <<A32!Doublewords(A32Lists[1], 1), X2, A32!Gpr("x2", 4)>>),
     Access(2, TRUE, FALSE, <<A32!Some(A32!Doublewords(A32Lists[2], 1), "replicate", 0), X2>>),
     Access(1, FALSE, FALSE, <<A32!Some(A32!Doublewords(A32Lists[1], 4), "elements", 2), X2>>)}
    \cup {A("pairperm", [f |-> f], <<D2(1, 4), D2(2, 4)>>) : f \in {"zip", "uzp"}}
    \cup {A("dup", "none", <<D2(1, 8), G2>>), A("abd", [signed |-> TRUE, acc |-> FALSE], <<D2(1, 1), D2(2, 1), Q2(1, 1)>>)}
    \cup {A64!By(A("ext", "none", <<D2(1, 1), D2(2, 1), D2(5, 1)>>), 9), A("fused", "fmla", <<S2(1, 2), S2(6, 2), S2(9, 2)>>)}
    \cup {A("satnarrow", [shifts |-> FALSE, round |-> FALSE, signed |-> FALSE, to_unsigned |-> TRUE], <<D2(1, 1), Q2(1, 2)>>)}
    \cup {A64!By(A("convert", Converting2("float", TRUE, "zero", 0), <<S2(1, 4), S2(1, 4), A32!Constant>>), 21),
          A("convert", Converting2("narrow", FALSE, "even", 0), <<D2(1, 2), D2(2, 4)>>)}

On(isa, on, codes) == {[isa |-> isa, on |-> on, code |-> c, declined |-> FALSE] : c \in codes}
Declining(isa, on, codes) == {[p EXCEPT !.declined = TRUE] : p \in On(isa, on, codes)}
Alone(forms) == {<<x>> : x \in forms}
LanesOf(forms, k) == {x \in forms : x.k = k}
MCPrograms ==
    On("x86", "bytes", Alone(X86Ints \cup X86Permutes \cup X86Mixed))
    \cup On("x86", "narrow", Alone(LanesOf(X86Floats \cup X86Mixed, 2)))
    \cup On("x86", "wide", Alone(LanesOf(X86Floats \cup X86Mixed, 4)))
    \cup On("a64", "a_bytes", Alone(A64Ints \cup A64Moves \cup A64Widths \cup A64Structured))
    \cup On("a64", "a_narrow", Alone(A64Floats(2) \cup A64Fixed \cup A64Wide \cup A64Fused \cup A64Scalars(2)))
    \cup On("a64", "a_wide", Alone(A64Floats(4) \cup A64Narrows \cup A64Scalars(4)))
    \cup Declining("a64", "a_bytes", Alone(A64Declined \cup StructuredDeclined))
    \cup On("a32", "b_bytes", Alone(A32Ints \cup A32Moves \cup A32Widths \cup A32Structured))
    \cup On("a32", "b_narrow", Alone(A32Floats(2) \cup A32Scalars(2) \cup A32Narrow))
    \cup On("a32", "b_wide", Alone(A32Floats(4) \cup A32Scalars(4) \cup A32Wide))
    \cup Declining("a32", "b_bytes", Alone(A32Declined))

----------------------------------------------------------------------------
\* What the registers hold: bytes of every size, and lanes that are floats of
\* every kind.
Cells == 0..47
Bytes(a, b) == [j \in Cells |-> (a * j + b) % 32]
Lanes(xs, k) == [j \in Cells |-> (xs[((j \div k) % Len(xs)) + 1] \div 32 ^ (j % k)) % 32]
Two1 == <<0, 512, 1, 448, 449, 896, 64, 450, 192, 513, 640, 63, 960, 128>>
Two2 == <<1, 0, 192, 448, 450, 192, 960, 514, 448, 449, 65, 191, 256, 0>>
Two3 == <<450, 449, 515, 192, 1, 193, 961, 700, 190, 320, 832, 448>>
\* Products next to two.
Two4 == <<257, 192, 448, 0, 257, 65, 320, 191>>
Two5 == <<191, 257, 0, 448, 193, 1, 450, 257>>
Four3 == <<32768 * 7 + 4096, 491521, 32768 * 8, 524288 + 32768 * 6, 491520, 0>>
Four1 == <<0, 491520, 491521, 32768 * 7, 1, 32768 * 9 + 4097>>
Four2 == <<524288, 491520 + 16400, 32768 * 8 + 1, 32768 * 7, 32767, 524288 + 32768 * 3>>
Of(a, b, m) == [v0 |-> a, v1 |-> b, mem |-> m, rax |-> [j \in 0..7 |-> (9 * j + 17) % 32]]
Low(v) == [j \in 0..15 |-> v[j]]
High(v) == [j \in 0..15 |-> v[j + 16]]
ArmOf(a, b, c) ==
    [v0 |-> Low(a), v1 |-> Low(b), v2 |-> Low(c), v3 |-> High(a), v4 |-> High(b), v5 |-> High(c),
     mem |-> Bytes(13, 9), x0 |-> [j \in 0..7 |-> (9 * j + 17) % 32],
     x1 |-> [j \in 0..7 |-> IF j = 0 THEN 4 ELSE 0], x2 |-> [j \in 0..7 |-> IF j = 0 THEN 7 ELSE 0]]
\* The general registers of AArch32 have four bytes.
Narrowed(c) == [r \in DOMAIN c |-> IF r \in {"x0", "x1", "x2"} THEN [j \in 0..3 |-> c[r][j]] ELSE c[r]]
Both(c) == {ArmOf(c[1], c[2], c[3]), ArmOf(c[2], c[3], c[1])}
MCContents ==
    [b_bytes |-> {Narrowed(c) : c \in Both(<<Bytes(7, 3), Bytes(11, 20), Bytes(13, 9)>>) \cup Both(<<Bytes(16, 15), Bytes(16, 0), Bytes(31, 16)>>)},
     b_narrow |-> {Narrowed(c) : c \in {ArmOf(Lanes(Two1, 2), Lanes(Two4, 2), Lanes(Two5, 2))} \cup Both(<<Lanes(Two1, 2), Lanes(Two2, 2), Lanes(Two3, 2)>>)},
     b_wide |-> {Narrowed(c) : c \in Both(<<Lanes(Four1, 4), Lanes(Four2, 4), Lanes(Four3, 4)>>)},
     bytes |-> {Of(Bytes(7, 3), Bytes(11, 20), Bytes(13, 9)), Of(Bytes(16, 15), Bytes(5, 31), Bytes(31, 16))},
     narrow |-> {Of(Lanes(Two1, 2), Lanes(Two2, 2), Lanes(Two2, 2))},
     a_bytes |-> {ArmOf(Bytes(7, 3), Bytes(11, 20), Bytes(13, 9)), ArmOf(Bytes(16, 15), Bytes(16, 0), Bytes(16, 16)),
                  ArmOf(Bytes(9, 1), Bytes(31, 16), Bytes(30, 19))},
     a_narrow |-> {ArmOf(Lanes(Two1, 2), Lanes(Two2, 2), Lanes(Two3, 2)), ArmOf(Lanes(Two2, 2), Lanes(Two3, 2), Lanes(Two1, 2))},
     a_wide |-> {ArmOf(Lanes(Four1, 4), Lanes(Four2, 4), Lanes(Four3, 4)), ArmOf(Lanes(Four3, 4), Lanes(Four2, 4), Lanes(Four1, 4))},
     wide |-> {Of(Lanes(Four1, 4), Lanes(Four2, 4), Lanes(Four2, 4))}]
=============================================================================
