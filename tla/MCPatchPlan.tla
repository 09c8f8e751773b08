---------------------------- MODULE MCPatchPlan ----------------------------
(* Instances of PatchPlan: pairs of instructions of one mode.               *)
EXTENDS PatchPlan

X86 == {Instruction("x86", "jcc", w, "none") : w \in {8, 32}}
       \cup {Instruction("x86", "cmov", w, o) :
                w \in {16, 32, 64}, o \in {"register", "memory", "rip"}}
       \cup {Instruction("x86", "setcc", w, o) :
                w \in {16, 32, 64}, o \in {"register", "memory", "rip"}}
Arms == {<<"r0", "r1", "r2">>, <<"r1", "zr", "r1">>}
A64 == {Instruction("a64", op, w, o) : op \in Selects, w \in {32, 64}, o \in Arms}
       \cup {Instruction("a64", op, 32, "none") : op \in {"bcc", "cbz"}}
A32 == {Instruction("a32", "bcc", 32, "none")}
Thumb == {Instruction("thumb", "bcc", 16, "none"), Instruction("thumb", "bcc.w", 32, "none"),
          Instruction("thumb", "cbz", 16, "none")}

Next64 == {Instruction("a64", "bcc", 32, "none"), Instruction("a64", "csel", 64, <<"r0", "r1", "r2">>)}
MCPrograms == (X86 \X X86) \cup (A64 \X Next64) \cup (A32 \X A32) \cup (Thumb \X Thumb)
MCReports == {<<{}, {}>>} \cup {<<{g}, {}>> : g \in Gaps} \cup {<<{}, {"target"}>>}
=============================================================================
