----------------------------- MODULE PatchPlan -----------------------------
(***************************************************************************)
(* From proven conditions to replacement bytes: build_plan considers the   *)
(* findings of a report in order, rewrites the conditional instruction of  *)
(* each as one that ignores its condition, and refuses plans that overlap. *)
(* What the rewrites are for is then executed: two copies of a processor   *)
(* run the original and the patched bytes side by side.                    *)
(*                                                                         *)
(* A register holds four bits: the low two are its 32-bit view and the     *)
(* lowest one its 8- and 16-bit views.  Instructions are encoded with one  *)
(* token for a displacement and one for an immediate, so that lengths and  *)
(* the address of the next instruction are those of the encoding.          *)
(***************************************************************************)
EXTENDS Integers, Sequences, FiniteSets

CONSTANTS
    Programs,   \* pairs of adjacent instructions: see Instruction
    Reports,    \* what the two findings lack: subsets of Gaps, one for each
    Twice       \* whether the first finding may be reported twice

Gaps == {"kind", "confidence", "fallthrough", "target"}
ASSUME ReportAssumption == Reports \subseteq (SUBSET Gaps) \X (SUBSET Gaps)

\* The conditional instructions a finding is about: mode, operation, width and
\* operands.  The operands of a select are its destination and two sources.
Selects == {"cset", "csetm", "csel", "csinc", "csinv", "csneg", "cinc", "cinv", "cneg"}
Form(modes, ops, widths, operands) ==
    [mode : modes, op : ops, w : widths, operand : operands]
Names == {"r0", "r1", "r2", "zr"}
Conditional ==
    Form({"x86"}, {"jcc"}, {8, 32}, {"none"})
    \cup Form({"x86"}, {"cmov", "setcc"}, {16, 32, 64}, {"register", "memory", "rip"})
    \cup Form({"a64"}, Selects, {32, 64}, Names \X Names \X Names)
    \cup Form({"a64"}, {"bcc", "cbz"}, {32}, {"none"})
    \cup Form({"a32"}, {"bcc"}, {32}, {"none"})
    \cup Form({"thumb"}, {"bcc", "cbz"}, {16}, {"none"})
    \cup Form({"thumb"}, {"bcc.w"}, {32}, {"none"})
ASSUME ProgramsAssumption ==
    \A p \in Programs : p \in Conditional \X Conditional /\ p[1].mode = p[2].mode
ASSUME TwiceAssumption == Twice \in BOOLEAN

VARIABLES
    program,    \* the two instructions
    truth,      \* the constant value of the condition of each
    findings,   \* what the analyzer reported, in order
    relocated,  \* the instructions that overlap a relocation
    phase,      \* considering, planned, refused
    operations, \* the planned operations, in the order of their findings
    skipped,    \* the findings without an operation
    code,       \* the bytes after the operations
    original,   \* the processor that runs the bytes before them
    patched     \* the processor that runs the bytes after them

vars == <<program, truth, findings, relocated, phase, operations, skipped,
          code, original, patched>>
Exit == 20   \* where every taken branch goes
None == -1
Abort == [aborts |-> TRUE]
Skip == [skips |-> TRUE]

----------------------------------------------------------------------------
\* Instructions and their encoding.

Instruction(mode, op, w, operand) ==
    [mode |-> mode, op |-> op, w |-> w, operand |-> operand]
B(x) == [b |-> x]
Repeat(x, n) == [i \in 1..n |-> B(x)]
Prefix(w) == CASE w = 16 -> <<B("66")>> [] w = 64 -> <<B("REX")>> [] OTHER -> <<>>
ModRM(x) == <<[b |-> "ModRM", at |-> x]>>
            \o (IF x \in {"memory", "rip"} THEN <<B("disp")>> ELSE <<>>)
FixedWidth(x, n) == <<[b |-> "word", is |-> x]>> \o Repeat("more", n - 1)

\* The bytes of an instruction.
Encode(x) ==
    CASE x.mode # "x86" -> FixedWidth(x, IF x.mode = "thumb" /\ x.w = 16 THEN 2 ELSE 4)
      [] x.op = "jcc" /\ x.w = 8 -> <<B("7x"), B("rel")>>
      [] x.op = "jcc" /\ x.w # 8 -> <<B("0F"), B("8x")>> \o Repeat("rel", 4)
      [] x.op = "cmov" -> Prefix(x.w) \o <<B("0F"), B("4x")>> \o ModRM(x.operand)
      [] x.op = "setcc" -> Prefix(x.w) \o <<B("0F"), B("9x")>> \o ModRM(x.operand)

Start(i) == IF i = 1 THEN 0 ELSE Len(Encode(program[1]))
End == Start(2) + Len(Encode(program[2]))
Place(bytes, at, base) ==
    [a \in DOMAIN base |-> IF a \in at..(at + Len(bytes) - 1)
                           THEN bytes[a - at + 1] ELSE base[a]]

----------------------------------------------------------------------------
\* The processor.  A word decodes in its own mode only, and bytes of several
\* tokens only from their first one.

Step(op, w, operand, len, imm) ==
    [op |-> op, w |-> w, operand |-> operand, len |-> len, imm |-> imm]
Fault == Step("fault", 0, "none", 0, 0)
DispOf(x) == IF x \in {"memory", "rip"} THEN 1 ELSE 0

DecodeX86(bytes, pc) ==
    LET p == IF bytes[pc].b \in {"66", "REX"} THEN 1 ELSE 0
        w == CASE bytes[pc].b = "66" -> 16 [] bytes[pc].b = "REX" -> 64 [] OTHER -> 32
        opcode == bytes[pc + p].b
        second == bytes[pc + p + 1]
        third == bytes[pc + p + 2]
    IN  CASE opcode = "90" -> Step("nop", w, "none", p + 1, 0)
          [] opcode = "7x" -> Step("jcc", w, "none", 2, 0)
          [] opcode = "EB" -> Step("jmp", w, "none", 2, 0)
          [] opcode = "E9" -> Step("jmp", w, "none", 5, 0)
          [] opcode = "8B" /\ second.b = "ModRM" ->
                Step("mov", w, second.at, p + 2 + DispOf(second.at), 0)
          [] opcode = "C6" /\ second.b = "ModRM" ->
                LET n == p + 2 + DispOf(second.at) IN
                Step("store", 8, second.at, n + 1, bytes[pc + n].imm)
          [] opcode = "0F" /\ second.b = "8x" -> Step("jcc", w, "none", 6, 0)
          [] opcode = "0F" /\ second.b = "4x" ->
                Step("cmov", w, third.at, p + 3 + DispOf(third.at), 0)
          [] opcode = "0F" /\ second.b = "9x" ->
                Step("setcc", 8, third.at, p + 3 + DispOf(third.at), 0)
          [] OTHER -> Fault

DecodeArm(bytes, pc, mode) ==
    LET x == bytes[pc].is
        len == IF mode = "thumb" /\ x.w = 16 THEN 2 ELSE 4
    IN  IF bytes[pc].b = "word" /\ x.mode = mode THEN Step(x.op, x.w, x.operand, len, 0)
        ELSE Fault

Decode(bytes, pc, mode) ==
    IF mode = "x86" THEN DecodeX86(bytes, pc) ELSE DecodeArm(bytes, pc, mode)

Registers == {"r0", "r1", "r2"}
Memory == 0..24
Read(regs, r) == IF r = "zr" THEN 0 ELSE regs[r]
View(v, w) == CASE w = 64 -> v [] w = 32 -> v % 4 [] OTHER -> v % 2
\* A 32-bit result clears the upper half, a narrower one leaves it.
Merge(old, v, w) == IF w < 32 THEN (old - (old % 2)) + (v % 2) ELSE View(v, w)
\* All x86 forms have destination (or setcc target) r0 and source r1.
Address(d, next) == IF d.operand = "rip" THEN next + 1 ELSE 0
Source(d, s, next) == IF d.operand = "register" THEN s.regs["r1"]
                      ELSE s.mem[Address(d, next)]
WriteRM(d, s, next, v) ==
    IF d.operand = "register"
    THEN [s EXCEPT !.regs = [s.regs EXCEPT !["r0"] = Merge(s.regs["r0"], v, 8)],
                   !.pc = next]
    ELSE LET a == Address(d, next) IN
         [s EXCEPT !.mem = [s.mem EXCEPT ![a] = Merge(s.mem[a], v, 8)], !.pc = next]
Assign(s, r, v, w, next) ==
    [s EXCEPT !.regs = IF r = "zr" THEN s.regs
                       ELSE [s.regs EXCEPT ![r] = Merge(s.regs[r], v, w)],
              !.pc = next]

\* What the conditional selects of AArch64 write when their condition is c.
\* The two-operand aliases stand for the form with the condition inverted.
Selected(d, s, c) ==
    LET n == View(Read(s.regs, d.operand[2]), d.w)
        m == View(Read(s.regs, d.operand[3]), d.w)
    IN  CASE d.op = "cset" -> IF c THEN 1 ELSE 0
          [] d.op = "csetm" -> IF c THEN 15 ELSE 0
          [] d.op = "csel" -> IF c THEN n ELSE m
          [] d.op = "csinc" -> IF c THEN n ELSE (m + 1) % 16
          [] d.op = "csinv" -> IF c THEN n ELSE 15 - m
          [] d.op = "csneg" -> IF c THEN n ELSE (16 - m) % 16
          [] d.op = "cinc" -> IF c THEN (n + 1) % 16 ELSE n
          [] d.op = "cinv" -> IF c THEN 15 - n ELSE n
          [] d.op = "cneg" -> IF c THEN (16 - n) % 16 ELSE n

\* One instruction of a processor in state s, whose condition, if any, is c.
Execute(d, s, c) ==
    LET next == s.pc + d.len IN
    CASE d.op = "fault" -> [s EXCEPT !.pc = None]
      [] d.op = "nop" -> [s EXCEPT !.pc = next]
      [] d.op \in {"jmp", "b"} -> [s EXCEPT !.pc = Exit]
      [] d.op \in {"jcc", "bcc", "cbz", "bcc.w"} -> [s EXCEPT !.pc = IF c THEN Exit ELSE next]
      [] d.op = "store" -> WriteRM(d, s, next, d.imm)
      [] d.op = "setcc" -> WriteRM(d, s, next, IF c THEN 1 ELSE 0)
      [] d.op = "mov" -> Assign(s, "r0", Source(d, s, next), d.w, next)
      [] d.op = "cmov" -> Assign(s, "r0", IF c THEN Source(d, s, next) ELSE s.regs["r0"],
                                 d.w, next)
      [] d.op \in Selects -> Assign(s, d.operand[1], Selected(d, s, c), d.w, next)
      [] d.op = "mov_imm" -> Assign(s, d.operand[1], d.operand[2], d.w, next)
      [] d.op = "mov_reg" -> Assign(s, d.operand[1], Read(s.regs, d.operand[2]), d.w, next)
      [] d.op = "add_one" ->
            Assign(s, d.operand[1], (Read(s.regs, d.operand[2]) + 1) % 16, d.w, next)
      [] d.op = "mvn" -> Assign(s, d.operand[1], 15 - Read(s.regs, d.operand[2]), d.w, next)
      [] d.op = "neg" ->
            Assign(s, d.operand[1], (16 - Read(s.regs, d.operand[2])) % 16, d.w, next)

----------------------------------------------------------------------------
\* The rewrites.

Nop(mode, size) ==
    CASE mode = "x86" -> Repeat("90", size)
      [] mode = "thumb" -> IF size = 2 THEN FixedWidth(Instruction("thumb", "nop", 16, "none"), 2)
                           ELSE FixedWidth(Instruction("thumb", "nop", 16, "none"), 2)
                                \o FixedWidth(Instruction("thumb", "nop", 16, "none"), 2)
      [] OTHER -> FixedWidth(Instruction(mode, "nop", 32, "none"), 4)

\* SETcc becomes a store of a byte: the opcode pair becomes one byte, the
\* addressing bytes are kept, and the immediate fills the byte that is freed.
PatchSetcc(bytes, value) ==
    LET p == IF bytes[1].b = "REX" THEN 1 ELSE 0 IN
    IF bytes[p + 1].b = "0F" /\ bytes[p + 2].b = "9x"
    THEN SubSeq(bytes, 1, p) \o <<B("C6")>> \o SubSeq(bytes, p + 3, Len(bytes))
         \o <<[b |-> "imm", imm |-> IF value THEN 1 ELSE 0]>>
    ELSE <<>>

\* CMOVcc becomes a load, and the byte that is freed a NOP after it.
PatchCmov(bytes) ==
    LET p == IF bytes[1].b \in {"66", "REX"} THEN 1 ELSE 0 IN
    IF bytes[p + 1].b = "0F" /\ bytes[p + 2].b = "4x"
    THEN SubSeq(bytes, 1, p) \o <<B("8B")>> \o SubSeq(bytes, p + 3, Len(bytes))
         \o <<B("90")>>
    ELSE <<>>

\* What the assembler of radare2 returns for an unconditional branch.
Assembled(mode) ==
    CASE mode = "x86" -> {<<B("EB"), B("rel")>>, <<B("E9")>> \o Repeat("rel", 4)}
      [] mode = "thumb" -> {FixedWidth(Instruction("thumb", "b", 16, "none"), 2),
                            FixedWidth(Instruction("thumb", "b", 32, "none"), 4)}
      [] OTHER -> {FixedWidth(Instruction(mode, "b", 32, "none"), 4)}

Pad(mode, bytes, size) ==
    IF mode = "x86" THEN bytes \o Repeat("90", size - Len(bytes)) ELSE bytes

\* Mutant: the sources of a conditional select are swapped.
SelectSourceMutant(value, rn, rm) == IF value THEN rm ELSE rn

\* Which source of a conditional select the move that replaces it reads.
SelectSource(value, rn, rm) == IF value THEN rn ELSE rm

\* The instruction that replaces a conditional select.  The aliases take the
\* arms of the three-operand form, as they are.
SelectAsm(x, value) ==
    LET rd == x.operand[1]
        rn == x.operand[2]
        rm == IF x.op \in {"cinc", "cinv", "cneg"} THEN rn ELSE x.operand[3]
        Imm(v) == Instruction(x.mode, "mov_imm", x.w, <<rd, v>>)
        Reg(op, r) == Instruction(x.mode, op, x.w, <<rd, r>>)
    IN  CASE x.op = "cset" -> Imm(IF value THEN 1 ELSE 0)
          [] x.op = "csetm" -> Imm(IF value THEN 15 ELSE 0)
          [] x.op = "csel" -> Reg("mov_reg", SelectSource(value, rn, rm))
          [] value /\ x.op \notin {"cset", "csetm", "csel"} -> Reg("mov_reg", rn)
          [] ~value /\ x.op \in {"csinc", "cinc"} -> Reg("add_one", rm)
          [] ~value /\ x.op \in {"csinv", "cinv"} -> Reg("mvn", rm)
          [] ~value /\ x.op \in {"csneg", "cneg"} -> Reg("neg", rm)

----------------------------------------------------------------------------
\* The planner.

\* How the mnemonic is classified; what is Other has no rewrite.  AArch32 knows
\* the branches with a condition suffix: no compare-and-branch, no ".w".
MnemonicKind(x) ==
    CASE x.op \in {"jcc", "bcc"} -> "Jcc"
      [] x.op = "cbz" /\ x.mode = "a64" -> "Jcc"
      [] x.op = "setcc" -> "SetCc"
      [] x.op = "cmov" -> "CMovCc"
      [] x.op \in Selects -> "Select"
      [] OTHER -> "Other"

Finding(i, gaps) ==
    [at |-> i, gaps |-> gaps, verdict |-> truth[i]]
SizeOf(f) == Len(Encode(program[f.at]))

Operation(f, bytes) == [address |-> Start(f.at), size |-> SizeOf(f), bytes |-> bytes]

\* A branch that is never taken is erased; one that always is, replaced by an
\* unconditional branch if that fits.
PlanJcc(f) ==
    LET mode == program[f.at].mode
        size == SizeOf(f)
    IN  IF ~f.verdict THEN {Operation(f, Nop(mode, size))}
        ELSE IF "target" \in f.gaps THEN {Skip}
        ELSE {IF Len(b) > size \/ (mode # "x86" /\ Len(b) # size) THEN Skip
              ELSE Operation(f, Pad(mode, b, size)) : b \in Assembled(mode)}
             \cup {Abort}

PlanSetcc(f) ==
    LET b == PatchSetcc(Encode(program[f.at]), f.verdict) IN
    {IF b = <<>> THEN Skip ELSE Operation(f, b)}

PlanCmov(f) ==
    LET b == IF f.verdict THEN PatchCmov(Encode(program[f.at]))
             ELSE Nop("x86", SizeOf(f))
    IN  {IF b = <<>> THEN Skip ELSE Operation(f, b)}

PlanSelect(f) ==
    {Operation(f, FixedWidth(SelectAsm(program[f.at], f.verdict), 4)), Abort}

\* What may come of one finding: it is skipped, it gets an operation, or it
\* ends the plan, when the assembler fails or the bytes may not be changed.
Consider(f) ==
    LET kind == MnemonicKind(program[f.at]) IN
    IF {"kind", "confidence"} \cap f.gaps # {} \/ kind = "Other" THEN {Skip}
    ELSE IF "fallthrough" \in f.gaps THEN {Skip}
    ELSE IF f.at \in relocated THEN {Abort}
    ELSE CASE kind = "Jcc" -> PlanJcc(f)
           [] kind = "SetCc" -> PlanSetcc(f)
           [] kind = "CMovCc" -> PlanCmov(f)
           [] kind = "Select" -> PlanSelect(f)

\* A skipped finding is recorded.
Skipped(decision, f) == IF decision = Skip THEN Append(skipped, f.at) ELSE skipped

\* The next finding is considered.
ConsiderFinding ==
    /\ phase = "considering"
    /\ findings # <<>>
    /\ \E decision \in Consider(Head(findings)) :
        /\ phase' = IF decision = Abort THEN "refused" ELSE phase
        /\ operations' = IF decision \in {Abort, Skip} THEN operations
                         ELSE Append(operations, decision)
        /\ skipped' = Skipped(decision, Head(findings))
    /\ findings' = Tail(findings)
    /\ UNCHANGED <<program, truth, relocated, code, original, patched>>

\* Mutant: operations that begin at one address are taken for the same one.
OverlapsMutant(p, q) ==
    p.address < q.address /\ p.address + p.size > q.address

\* One operation runs into another that does not begin before it.
Overlaps(p, q) ==
    p.address <= q.address /\ p.address + p.size > q.address

\* All findings are considered: the operations are the plan, unless two of
\* them overlap.  The plan is then written over the copy.
BuildPlan ==
    /\ phase = "considering"
    /\ findings = <<>>
    /\ LET clash == \E i, j \in DOMAIN operations : i # j /\ Overlaps(operations[i], operations[j])
           At(a) == {i \in DOMAIN operations :
                        a \in operations[i].address..(operations[i].address + operations[i].size - 1)}
       IN  /\ phase' = IF clash THEN "refused" ELSE "planned"
           /\ code' = IF clash THEN code
                      ELSE [a \in DOMAIN code |->
                              IF At(a) = {} THEN code[a]
                              ELSE LET o == operations[CHOOSE i \in At(a) : TRUE]
                                   IN  o.bytes[a - o.address + 1]]
    /\ UNCHANGED <<program, truth, findings, relocated, operations, skipped,
                   original, patched>>

----------------------------------------------------------------------------
\* The two processors.

Blank == [a \in 0..Exit |-> B("hlt")]
OriginalCode == Place(Encode(program[2]), Start(2), Place(Encode(program[1]), 0, Blank))
Reset == [pc |-> 0,
          regs |-> [r0 |-> 13, r1 |-> 6, r2 |-> 11],
          mem |-> [a \in Memory |-> (5 * a + 3) % 16]]
Running(s) == s.pc \in 0..(End - 1)
ConditionAt(pc) == IF pc = 0 THEN truth[1] ELSE truth[2]

StepOriginal ==
    /\ phase = "planned"
    /\ original.pc = patched.pc
    /\ Running(original)
    /\ original' = Execute(Decode(OriginalCode, original.pc, program[1].mode), original,
                           ConditionAt(original.pc))
    /\ patched' = Execute(Decode(code, patched.pc, program[1].mode), patched,
                          ConditionAt(patched.pc))
    /\ UNCHANGED <<program, truth, findings, relocated, phase, operations, skipped, code>>

\* The replacement of one instruction may take several.
StepPatched ==
    /\ phase = "planned"
    /\ original.pc # patched.pc
    /\ Running(patched)
    /\ patched' = Execute(Decode(code, patched.pc, program[1].mode), patched, FALSE)
    /\ UNCHANGED <<program, truth, findings, relocated, phase, operations, skipped, code,
                   original>>

Init ==
    /\ program \in Programs
    /\ truth \in [1..2 -> BOOLEAN]
    /\ \E r \in Reports, again \in {FALSE, Twice} :
        findings = <<Finding(1, r[1]), Finding(2, r[2])>>
                   \o (IF again THEN <<Finding(1, r[1])>> ELSE <<>>)
    /\ relocated \in {{}, {2}}
    /\ phase = "considering"
    /\ operations = <<>>
    /\ skipped = <<>>
    /\ code = OriginalCode
    /\ original = Reset
    /\ patched = Reset

Next == ConsiderFinding \/ BuildPlan \/ StepOriginal \/ StepPatched
Spec == Init /\ [][Next]_vars

----------------------------------------------------------------------------
\* Rewrites that are known to change what the instruction does: a load relative
\* to the instruction pointer, which moves by the byte that is freed; a 32-bit
\* conditional move that is erased with the upper half it would clear; an alias
\* of a conditional select, whose condition is the inverse of the one it is
\* given the arms of.
Divergent(i) ==
    LET x == program[i] IN
    \/ x.op = "cmov" /\ x.operand = "rip" /\ truth[i]
    \/ x.op = "cmov" /\ x.w = 32 /\ ~truth[i]
    \/ x.op \in {"cinc", "cinv", "cneg"}

Agree == original.pc = patched.pc => original = patched
NeverFaults == patched.pc # None

\* Whatever the conditions, the forms and the widths, the patched bytes take
\* registers, memory and control where the original bytes take them: no shorter
\* replacement leaves a tail that decodes as something else, and none of them
\* runs into the next instruction.
PatchedSimulates ==
    (\A i \in 1..2 : ~Divergent(i)) => Agree /\ NeverFaults

\* Whatever is reported twice, no byte of the image belongs to two operations,
\* and each operation fills exactly the bytes of the instruction it replaces.
OperationsDisjoint ==
    phase = "planned" =>
        \A i, j \in DOMAIN operations :
            /\ Len(operations[i].bytes) = operations[i].size
            /\ i # j => ((operations[i].address..(operations[i].address + operations[i].size - 1))
                         \cap (operations[j].address..(operations[j].address + operations[j].size - 1))) = {}

=============================================================================
