----------------------------- MODULE MCLiftRun -----------------------------
(* Instances of LiftRun: short programs of every form of each instruction  *)
(* set, and longer ones of few.                                            *)
EXTENDS LiftRun, TLC

MCX86Bits == (8 :> 2) @@ (16 :> 4) @@ (32 :> 6) @@ (64 :> 8)
MCA64Bits == (8 :> 1) @@ (16 :> 2) @@ (32 :> 4) @@ (64 :> 8)
MCA32Bits == (8 :> 2) @@ (16 :> 4) @@ (32 :> 8) @@ (64 :> 16)
MCCountMask == (8 :> 3) @@ (16 :> 3) @@ (32 :> 3) @@ (64 :> 7)
MCValues == [isa \in {"x86", "a64", "a32"} |->
                IF isa = "x86" THEN {0, 31, 100, 128, 255} ELSE {0, 9, 131, 255}]

----------------------------------------------------------------------------
\* x86: every operation at every width, from a register, an immediate, memory.

Views == {"full", "dword", "word", "low", "high"}
Width == [full |-> 64, dword |-> 32, word |-> 16, low |-> 8, high |-> 8]
A(v) == X86!Reg("rax", v)
C(v) == X86!Reg("rcx", v)
Imm(n) == X86!Imm(n)
I(op, operands) == X86!Insn(op, operands)
M(base, disp, w) == X86!Mem(base, disp, w)

Sources(v) == {C(v), Imm(1), Imm(-1), M("rdx", 0, Width[v])}
Plain ==
    UNION {{I(op, <<A(v), s>>) : s \in Sources(v)} :
              op \in X86!Arithmetic \cup X86!Compares \cup {"mov"}, v \in Views}
Extending ==
    {I(op, <<A(p[1]), C(p[2])>>) : op \in {"movzx", "movsx"},
        p \in {<<"full", "word">>, <<"dword", "low">>, <<"word", "high">>, <<"full", "low">>}}
Others ==
    {I("sahf", <<>>), I("xor", <<A("full"), A("full")>>),
     I("xor", <<A("low"), A("low")>>), I("sub", <<A("word"), A("word")>>),
     I("lea", <<A("full"), M("rcx", 1, 64)>>),
     I("imul", <<A("dword"), C("dword"), Imm(3)>>),
     I("mov", <<M("rcx", 1, 8), A("low")>>), I("mov", <<M("rcx", 0, 16), A("word")>>),
     I("mov", <<M("none", 2, 64), A("full")>>), I("add", <<M("rcx", 1, 8), A("low")>>),
     I("shl", <<A("full"), C("low")>>), I("sar", <<A("low"), Imm(0)>>),
     I("cmp", <<A("low"), C("high")>>), I("test", <<A("full"), A("full")>>)}
Forms == Plain \cup Extending \cup Others

\* What the longer programs are made of: wide and narrow moves in either
\* direction, a store, a load, arithmetic and one shift.
Few == {I("mov", <<C("full"), A("full")>>), I("mov", <<A("dword"), X86!Reg("rdx", "dword")>>),
        I("sub", <<A("full"), Imm(1)>>), I("add", <<C("high"), A("low")>>),
        I("mov", <<M("rdx", 0, 8), A("low")>>),
        I("add", <<C("low"), M("rdx", 0, 8)>>), I("shl", <<C("word"), Imm(1)>>)}
Last == {I("cmp", <<A("full"), C("full")>>), I("test", <<C("low"), A("high")>>),
         I("sub", <<C("word"), A("word")>>), I("shr", <<C("low"), Imm(1)>>)}

X86Code ==
    {<<x>> : x \in Forms}
    \cup {<<x, y>> : x \in Extending \cup Others, y \in Extending \cup Others}
    \cup {<<x, y, z>> : x \in Few, y \in Few, z \in Last}

----------------------------------------------------------------------------
\* AArch64: x0 and x1 hold the chosen values.

XR(n, v) == A64!Reg(n, v)
Size == {"full", "dword"}
AI(op, s, o) == A64!Insn(op, s, o)
Specs(reg) == {A64!NoSpec, A64!By("lsl", Imm(1)), A64!By("asr", Imm(2)), A64!By("ror", Imm(3)),
               A64!By("lsr", Imm(1)), A64!Extend(16, TRUE, 1), A64!Extend(8, FALSE, 0)}
A64Data ==
    {A64!Spec2(AI(op, s, <<XR(d, v), XR("x0", v), XR("x1", v)>>), p) :
        op \in {"add", "sub", "and"}, s \in BOOLEAN, d \in {"x0", "xzr"}, v \in Size, p \in Specs("x1")}
    \cup {A64!Spec2(AI(op, s, <<XR("x1", v), XR("x0", v), XR("x1", v)>>), p) :
            op \in {"bic"}, s \in BOOLEAN, v \in Size, p \in {A64!NoSpec, A64!By("lsl", Imm(1))}}
    \cup {AI(op, FALSE, <<XR("x1", v), XR("x0", v), b>>) :
            op \in A64!ThreeOperands \cup A64!Complemented \cup A64!Shifts, v \in Size,
            b \in {XR("x1", "full"), Imm(3)}}
    \cup {AI(op, s, <<XR("x1", v), XR("x0", v), XR("x1", v)>>) :
            op \in {"adc", "sbc"}, s \in BOOLEAN, v \in Size}
    \cup {A64!Spec2(AI(op, s, <<XR("x1", v), XR("x0", v)>>), p) :
            op \in {"neg"}, s \in BOOLEAN, v \in Size, p \in {A64!NoSpec, A64!By("lsl", Imm(1))}}
    \cup {AI("ngc", s, <<XR("x1", v), XR("x0", v)>>) : s \in BOOLEAN, v \in Size}
    \cup {A64!Spec2(AI("mvn", FALSE, <<XR("x1", v), XR("x0", v)>>), p) :
            v \in Size, p \in {A64!NoSpec, A64!By("lsr", Imm(1))}}
    \cup {AI(op, FALSE, <<XR("x1", v), b>>) :
            op \in {"mov"}, v \in Size, b \in {XR("x0", "full"), XR("xzr", "full"), Imm(-1)}}
A64Compare ==
    {A64!Spec2(AI(op, TRUE, <<XR(a, v), XR("x1", v)>>), p) :
        op \in DOMAIN A64!Compares, a \in {"x0"}, v \in Size,
        p \in {A64!NoSpec, A64!By("lsl", Imm(1)), A64!By("asr", Imm(1))}}
    \cup {AI(op, TRUE, <<XR("x1", v), Imm(3)>>) : op \in DOMAIN A64!Compares, v \in Size}
On(x, cond) == [x EXCEPT !.cond = cond]
A64Select ==
    {On(AI(op, FALSE, <<XR("x2", v), XR("x0", v), XR("x1", v)>>), cond) :
        op \in DOMAIN A64!Selects, v \in {"dword"}, cond \in {"hs", "ls", "mi", "ge", "gt", "vs"}}
    \cup {On(AI(op, FALSE, <<XR("x0", v), XR("x1", v)>>), cond) :
            op \in DOMAIN A64!SelectAliases, v \in {"full"}, cond \in {"lo", "eq", "le"}}
    \cup {On(AI(op, FALSE, <<XR("x0", v)>>), cond) :
            op \in {"cset", "csetm"}, v \in Size, cond \in A64!ArmConditions}
    \cup {On(AI("csel", FALSE, <<XR("x2", "full"), XR("x0", "full"), XR("x1", "full")>>), "al")}
A64Off == {Imm(0), Imm(2), Imm(-3)}
A64Memory ==
    {AI(op, FALSE, <<XR("x1", v), A64!Mem("x0", off, mode)>>) :
        op \in A64!Loads \cup A64!Stores, v \in Size, off \in A64Off \ {Imm(0)},
        mode \in {"offset", "pre", "post"}}
    \cup {AI(op, FALSE, <<XR("x1", v), XR("x2", v), A64!Mem("x0", Imm(2), mode)>>) :
            op \in A64!Pairs, v \in Size, mode \in {"offset", "pre", "post"}}
    \cup {AI("ldp", FALSE, <<XR("x1", "full"), XR("x2", "full"), A64!Mem("x1", Imm(2), "offset")>>),
          AI("ldr", FALSE, <<XR("x0", "full"), A64!Mem("x0", XR("x2", "full"), "offset")>>),
          AI("str", FALSE, <<XR("x1", "dword"), A64!Mem("sp", Imm(-1), "pre")>>)}
\* A 32-bit ldrsw does not exist.
A64Forms == {x \in A64Data \cup A64Compare \cup A64Select \cup A64Memory :
                x.op = "ldrsw" => x.operands[1].view = "full"}

A64Few ==
    {A64!Spec2(AI("add", FALSE, <<XR("x0", "full"), XR("x0", "full"), XR("x1", "full")>>), A64!By("lsl", Imm(1))),
     AI("sub", TRUE, <<XR("x1", "dword"), XR("x0", "dword"), Imm(3)>>),
     AI("and", TRUE, <<XR("xzr", "full"), XR("x0", "full"), XR("x1", "full")>>),
     AI("adc", TRUE, <<XR("x1", "full"), XR("x0", "full"), XR("x1", "full")>>),
     AI("sbc", FALSE, <<XR("x0", "dword"), XR("x1", "dword"), XR("x0", "dword")>>),
     On(AI("csinc", FALSE, <<XR("x0", "full"), XR("x1", "full"), XR("x2", "full")>>), "ls"),
     On(AI("cneg", FALSE, <<XR("x1", "full"), XR("x0", "full")>>), "ge"),
     AI("str", FALSE, <<XR("x0", "dword"), A64!Mem("sp", Imm(2), "pre")>>),
     AI("ldrsb", FALSE, <<XR("x1", "full"), A64!Mem("sp", Imm(-1), "post")>>),
     AI("ldp", FALSE, <<XR("x0", "dword"), XR("x1", "dword"), A64!Mem("x2", Imm(1), "offset")>>),
     AI("stp", FALSE, <<XR("x0", "full"), XR("x1", "full"), A64!Mem("x2", Imm(1), "pre")>>)}
A64Last ==
    {A64!Spec2(AI("cmp", TRUE, <<XR("x0", "full"), XR("x1", "full")>>), A64!By("lsr", Imm(1))),
     AI("tst", TRUE, <<XR("x1", "dword"), Imm(1)>>), AI("cmn", TRUE, <<XR("x0", "dword"), XR("x1", "dword")>>)}

----------------------------------------------------------------------------
\* AArch32: r0 and r1 hold the chosen values.

R(n) == A32!Reg(n, "full")
BI(op, s, o) == A32!Insn(op, s, o)
A32Specs == {A32!NoSpec, A32!Rrx} \cup {A32!By(op, n) : op \in A32!Shifts, n \in {Imm(1), Imm(3), R("r1")}}
A32Data ==
    {A32!Spec2(BI(op, s, <<R("r2"), R("r0"), R("r1")>>), p) :
        op \in {"add", "sub", "and", "rsb", "bic"}, s \in BOOLEAN, p \in A32Specs}
    \cup {BI(op, s, <<R("r1"), R("r0"), b>>) :
            op \in A32!Arith, s \in {FALSE}, b \in {R("r1"), Imm(3)}}
    \cup {BI(op, s, <<R("r1"), R("r0"), R("r1")>>) : op \in {"eor", "orr", "mul", "adc", "sbc"}, s \in BOOLEAN}
    \cup {BI(op, FALSE, <<R("r0"), b>>) : op \in A32!ShortForms \ {"udiv", "sdiv"}, b \in {R("r1"), Imm(2)}}
    \cup {BI(op, s, <<R("r2"), R("r0"), b>>) :
            op \in A32!Shifts, s \in BOOLEAN, b \in {R("r1"), Imm(1), Imm(5)}}
    \cup {BI(op, s, <<R("r2"), R("r0"), Imm(8)>>) : op \in {"lsr", "asr"}, s \in BOOLEAN}
    \cup {BI("rrx", s, <<R("r2"), R("r0")>>) : s \in BOOLEAN}
    \cup {BI("mov", s, <<R("r2"), b>>) : s \in BOOLEAN, b \in {R("r0"), Imm(0)}}
    \cup {A32!Spec2(BI("mvn", FALSE, <<R("r2"), R("r0")>>), p) : p \in A32Specs}
    \cup {A32!Spec2(BI(op, FALSE, <<R("r2"), R("r0")>>), p) :
            op \in DOMAIN A32!Extends, p \in {A32!NoSpec, A32!By("ror", Imm(2))}}
    \cup {BI(op, FALSE, <<R("r2"), R("r0"), R("r1"), R("r3")>>) : op \in {"mla", "mls"}}
    \cup {BI(op, FALSE, <<R("r2"), R("r3"), R("r0"), R("r1")>>) : op \in {"umull", "smull"}}
    \cup {BI("rev", FALSE, <<R("r2"), R("r0")>>), BI("movw", FALSE, <<R("r0"), Imm(11)>>),
          BI("movt", FALSE, <<R("r0"), Imm(11)>>)}
A32Compare ==
    {A32!Spec2(BI(op, TRUE, <<R("r0"), R("r1")>>), p) : op \in DOMAIN A32!Compares, p \in A32Specs}
A32Off ==
    {Imm(2), Imm(-3), A32!Index("r2", FALSE, A32!NoSpec), A32!Index("r2", TRUE, A32!By("lsl", Imm(1))),
     A32!Index("r3", FALSE, A32!Rrx)}
A32Memory ==
    {BI(op, FALSE, <<R("r1"), A32!Mem("r0", off, mode)>>) :
        op \in A32!Loads \cup A32!Stores, off \in A32Off, mode \in {"offset", "pre", "post"}}
    \cup {BI(op, FALSE, <<R("r0"), R("r1"), A32!Mem("sp", off, mode)>>) :
            op \in A32!Pairs, off \in A32Off, mode \in {"offset", "pre", "post"}}
    \cup {BI("ldrd", FALSE, <<R("r0"), R("r1"), A32!Mem("r0", Imm(2), "offset")>>)}
    \cup {[BI("ldr", FALSE, <<R("r0"), A32!Mem("pc", Imm(4), "offset")>>) EXCEPT !.at = n, !.thumb = t] :
            n \in {0, 2, 4}, t \in BOOLEAN}
    \cup {[BI("add", FALSE, <<R("r0"), R("pc"), Imm(4)>>) EXCEPT !.at = 4, !.thumb = t] : t \in BOOLEAN}
Suffixes == {"ia", "ib", "da", "db", "fd", "ea", "fa", "ed"}
A32Lists ==
    {BI(op, FALSE, <<A32!List(l, "ia", TRUE)>>) :
        op \in {"push", "pop"}, l \in {<<"r0">>, <<"r0", "r1">>, <<"r0", "r1", "r2">>}}
    \cup {BI(op, FALSE, <<R("r3"), A32!List(<<"r0", "r1">>, suffix, wb)>>) :
            op \in {"ldm", "stm"}, suffix \in Suffixes, wb \in BOOLEAN}
    \cup {BI("ldm", FALSE, <<R("r0"), A32!List(<<"r0", "r1">>, "ia", FALSE)>>)}
A32Forms ==
    A32Data \cup A32Compare \cup A32Memory \cup A32Lists
    \cup {A32!If(x, cond) : cond \in {"eq", "hs", "ls", "lt", "gt", "pl"},
            x \in {A32!Spec2(BI("add", FALSE, <<R("r1"), R("r0"), R("r1")>>), A32!By("lsl", Imm(1))),
                   BI("mov", FALSE, <<R("r0"), Imm(4)>>), BI("cmp", TRUE, <<R("r0"), R("r1")>>),
                   BI("sub", TRUE, <<R("r0"), R("r0"), R("r1")>>),
                   BI("ldr", FALSE, <<R("r0"), A32!Mem("r2", Imm(1), "pre")>>),
                   BI("str", FALSE, <<R("r0"), A32!Mem("r2", Imm(1), "post")>>),
                   BI("str", FALSE, <<R("r0"), A32!Mem("r2", Imm(1), "offset")>>),
                   BI("push", FALSE, <<A32!List(<<"r0", "r1">>, "ia", TRUE)>>)}}

A32Few ==
    {A32!Spec2(BI("add", FALSE, <<R("r0"), R("r0"), R("r1")>>), A32!By("lsl", R("r2"))),
     BI("sub", TRUE, <<R("r1"), R("r0"), Imm(3)>>), BI("adc", FALSE, <<R("r1"), R("r0"), R("r1")>>),
     BI("sbc", TRUE, <<R("r0"), R("r1"), R("r0")>>), BI("rrx", FALSE, <<R("r0"), R("r0")>>),
     A32!If(BI("mov", FALSE, <<R("r0"), R("r1")>>), "hs"),
     A32!If(BI("rsb", FALSE, <<R("r1"), R("r0"), Imm(1)>>), "lt"),
     BI("push", FALSE, <<A32!List(<<"r0", "r1">>, "ia", TRUE)>>),
     BI("pop", FALSE, <<A32!List(<<"r0", "r2">>, "ia", TRUE)>>),
     A32!If(BI("str", FALSE, <<R("r0"), A32!Mem("sp", Imm(1), "offset")>>), "ne"),
     BI("ldrsb", FALSE, <<R("r1"), A32!Mem("sp", A32!Index("r3", TRUE, A32!By("lsr", Imm(1))), "pre")>>)}
A32Last ==
    {BI("cmp", TRUE, <<R("r0"), R("r1")>>), BI("cmn", TRUE, <<R("r0"), R("r2")>>),
     BI("sub", TRUE, <<R("r0"), R("r0"), R("r1")>>)}

----------------------------------------------------------------------------
\* One instruction alone, one with a compare after it, and three in a row.
Ask(isa, codes, what) ==
    {[isa |-> isa, code |-> c, ask |-> what, esil |-> "none"] : c \in codes}
\* The same from ESIL.
WithEsil(programs, e) == {[p EXCEPT !.esil = e] : p \in programs}
Short(forms, last) == {<<x>> : x \in forms} \cup {<<x, y>> : x \in forms, y \in last}
Long(few, last) == {<<x, y, z>> : x \in few, y \in few, z \in last}
OfMnemonics ==
    Ask("x86", X86Code, "flags")
    \cup Ask("a64", Short(A64Forms, A64Last) \cup Long(A64Few, A64Last), "flags")
    \cup Ask("a64", {<<x, y>> : x \in A64Few, y \in A64Few}, "x1")
    \cup Ask("a32", Short(A32Forms, A32Last) \cup Long(A32Few, A32Last), "flags")
    \cup Ask("a32", {<<x, y>> : x \in A32Few, y \in A32Few}, "r1")
HasString(p) == EsilOf(p.isa, p.code[1]) # <<EsilX86!Token("unknown")>>
MCPrograms ==
    OfMnemonics \cup WithEsil({p \in OfMnemonics : HasString(p)}, "all")
    \cup WithEsil({p \in OfMnemonics : HasString(p) /\ Len(p.code) = 3 /\ p.code[1] = p.code[2]}, "unflagged")

=============================================================================
