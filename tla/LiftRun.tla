------------------------------- MODULE LiftRun -------------------------------
(***************************************************************************)
(* A block of instructions and the branch that ends it, three times in     *)
(* step: as a processor executes it, as the lifter lowers every            *)
(* instruction, and as the slice lowers the instructions it keeps.  The    *)
(* slice starts where the backward walk ended, from free inputs: the       *)
(* machine's own state there is one choice of them.                        *)
(***************************************************************************)
EXTENDS Integers, Sequences, FiniteSets

CONSTANTS
    X86Bits, A64Bits, A32Bits,          \* the scaled widths
    X86Cells, ArmCells,                 \* the bytes of memory
    CountMask, AmountMask,              \* what shift counts are masked with
    Programs,    \* records of a set of instructions, the code, what is asked, and the
                 \* instructions lifted from ESIL: "none", "unflagged" or "all"
    Values       \* initial values of two registers, by set of instructions

ASSUME WidthAssumption ==
    /\ \A b \in {X86Bits, A64Bits, A32Bits} :
        /\ DOMAIN b = {8, 16, 32, 64}
        /\ 0 < b[8] /\ 2 * b[8] <= b[16] /\ b[16] < b[32] /\ b[32] < b[64]
    /\ \A w \in DOMAIN X86Bits : CountMask[w] < 2 ^ X86Bits[8] \/ w = 64

VARIABLES
    program, pc,       \* the block, and the next of its instructions
    real,              \* the processor
    lifted,            \* the statements of every instruction
    sliced             \* the statements of the instructions of the slice

vars == <<program, pc, real, lifted, sliced>>

X86 == INSTANCE LiftX86 WITH Bits <- X86Bits, Ptr <- 64, Cells <- X86Cells
A64 == INSTANCE LiftA64 WITH Bits <- A64Bits, Ptr <- 64, Cells <- ArmCells, Arm32 <- FALSE
A32 == INSTANCE LiftA32 WITH Bits <- A32Bits, Ptr <- 32, Cells <- ArmCells, Arm32 <- TRUE
EsilX86 == INSTANCE EsilMachine WITH Bits <- X86Bits, Ptr <- 64, Cells <- X86Cells, Arm <- FALSE
EsilA64 == INSTANCE EsilMachine WITH Bits <- A64Bits, Ptr <- 64, Cells <- ArmCells, Arm <- TRUE
EsilA32 == INSTANCE EsilMachine WITH Bits <- A32Bits, Ptr <- 32, Cells <- ArmCells, Arm <- TRUE

Flags == X86!Flags
Unk == X86!Unk
Sound(v, actual) == X86!Sound(v, actual)

Execute(isa, s, x) ==
    CASE isa = "x86" -> X86!Execute(s, x) [] isa = "a64" -> A64!Execute(s, x)
      [] isa = "a32" -> A32!Execute(s, x)
LiftByMnemonic(isa, env, x) ==
    CASE isa = "x86" -> X86!LiftInstruction(env, x) [] isa = "a64" -> A64!LiftInstruction(env, x)
      [] isa = "a32" -> A32!LiftInstruction(env, x)
Analyze(isa, x) ==
    CASE isa = "x86" -> X86!Analyze(x) [] isa = "a64" -> A64!Analyze(x) [] isa = "a32" -> A32!Analyze(x)
HasUnmodellable(isa, x) ==
    CASE isa = "x86" -> X86!HasUnmodellable(x) [] isa = "a64" -> A64!HasUnmodellable(x)
      [] isa = "a32" -> A32!HasUnmodellable(x)

----------------------------------------------------------------------------
\* The ladder of lift_instruction: the ESIL string of an instruction, where it
\* has one that the stack machine can take, comes before its mnemonic.

EsilOf(isa, x) ==
    CASE isa = "x86" -> EsilX86!EsilOfX86(x) [] isa = "a64" -> EsilA64!EsilOfArm(x)
      [] isa = "a32" -> EsilA32!EsilOfArm(x)
LiftEsil(isa, esil) ==
    CASE isa = "x86" -> EsilX86!LiftEsil(esil) [] isa = "a64" -> EsilA64!LiftEsil(esil)
      [] isa = "a32" -> EsilA32!LiftEsil(esil)
RunStatements(isa, env, statements) ==
    CASE isa = "x86" -> EsilX86!RunStatements(env, statements)
      [] isa = "a64" -> EsilA64!RunStatements(env, statements)
      [] isa = "a32" -> EsilA32!RunStatements(env, statements)

\* radare2 drops the shift specifier of an ARM instruction from its string, and
\* a gate keeps back the strings that set flags.
HasShiftSpecifier(isa, x) == isa # "x86" /\ x.spec.kind # "none"
ConsidersEsil(isa, x, esil) ==
    /\ program.esil # "none"
    /\ ~HasShiftSpecifier(isa, x)
    /\ program.esil = "all" \/ ~EsilX86!AssignsWithoutFlags(esil)
\* Several environments after the instruction.
LiftInstruction(isa, envs, x) ==
    LET esil == EsilOf(isa, x)
        m == LiftEsil(isa, esil)
    IN  IF ConsidersEsil(isa, x, esil) /\ EsilX86!Lifts(m)
        THEN [env \in envs |-> RunStatements(isa, env, m.statements)]
        ELSE [env \in envs |-> LiftByMnemonic(isa, env, x)]

----------------------------------------------------------------------------
\* The backward walk over one block.

Meet(w, i, x, e) ==
    LET wanted == (w.flags /\ e.flags) \/ e.defs \cap w.live # {} \/ e.memory
    IN  IF w.status # "walking" THEN w
        ELSE IF (e.memory /\ HasUnmodellable(program.isa, x)) \/ e.other
        THEN [w EXCEPT !.status = "truncated"]
        ELSE IF ~wanted THEN [w EXCEPT !.first = i]
        ELSE LET live == (w.live \ e.defs) \cup e.uses
                 flags == (w.flags /\ ~e.flags) \/ e.reads
             IN  [kept |-> w.kept \cup {i}, live |-> live, flags |-> flags, first |-> i,
                  status |-> IF ~flags /\ live = {} THEN "done" ELSE "walking"]
WalkStep(w, i) == Meet(w, i, program.code[i], Analyze(program.isa, program.code[i]))
\* What a branch reads: the flags, or the one register of cbz and its like.
WalkStart(n) ==
    [kept |-> {}, first |-> n + 1, status |-> "walking", flags |-> program.ask = "flags",
     live |-> IF program.ask = "flags" THEN {} ELSE {program.ask}]
Walk ==
    LET n == Len(program.code)
        w[i \in 1..(n + 1)] == IF i = n + 1 THEN WalkStart(n) ELSE WalkStep(w[i + 1], i)
    IN  w[1]

----------------------------------------------------------------------------
\* The registers of a block: two of chosen values and the others fixed.
Start(isa, a, b) ==
    LET cells == IF isa = "x86" THEN X86Cells ELSE ArmCells
        byte == 2 ^ (CASE isa = "x86" -> X86Bits [] isa = "a64" -> A64Bits [] isa = "a32" -> A32Bits)[8]
    IN  [regs |-> CASE isa = "x86" -> [rax |-> a, rcx |-> b, rdx |-> 5]
                    [] isa = "a64" -> [x0 |-> a, x1 |-> b, x2 |-> 5, sp |-> 4]
                    [] isa = "a32" -> [r0 |-> a, r1 |-> b, r2 |-> 5, r3 |-> 3, sp |-> 4, pc |-> 0],
         flags |-> [f \in Flags |-> IF f \in {"CF", "OF"} /\ isa # "x86" THEN a % 2 ELSE 0],
         hole |-> FALSE,
         mem |-> [c \in 0..(cells - 1) |-> (3 * c + 1) % byte]]

Init ==
    /\ program \in Programs
    /\ pc = 1
    /\ \E a, b \in Values[program.isa] : real = Start(program.isa, a, b)
    /\ lifted = real
    /\ sliced = real

\* The two environments after an instruction is lifted in each.
Lifts(after, walk) ==
    /\ lifted' = after[lifted]
    /\ sliced' = IF pc < walk.first THEN real' ELSE IF pc \in walk.kept THEN after[sliced] ELSE sliced
Step ==
    /\ pc <= Len(program.code)
    /\ real' = Execute(program.isa, real, program.code[pc])
    /\ Lifts(LiftInstruction(program.isa, {lifted, sliced}, program.code[pc]), Walk)
    /\ pc' = pc + 1
    /\ UNCHANGED program

Next == Step
Spec == Init /\ [][Next]_vars

----------------------------------------------------------------------------
Ended == pc = Len(program.code) + 1
Registers == DOMAIN real.regs
SomeInsn(P(_)) == \E i \in DOMAIN program.code : P(program.code[i])

\* A shift by a register that holds zero leaves the flags alone, and the lifter
\* does not: x86.rs says so where it happens.
ZeroShift(x) ==
    /\ program.isa = "x86" /\ x.op \in {"shl", "shr", "sar"}
    /\ x.operands[2].kind # "immediate"
\* A write to part of a register keeps the rest of it, and the table of effects
\* does not say that the register is read.
PartialWrite(x) ==
    /\ program.isa = "x86"
    /\ x.op \in {"mov", "movzx", "movsx", "imul", "lea", "xor"}
    /\ x.operands[1].kind = "register"
    /\ x.operands[1].view \in {"word", "low", "high"}
\* An instruction that writes some of the flags passes for one that writes all.
LeavesFlags(x) ==
    CASE program.isa = "x86" ->
            \/ x.op = "sahf"
            \/ /\ x.op \in {"shl", "shr", "sar"}
               /\ x.operands[2].kind = "immediate" /\ x.operands[2].n = 0
      [] program.isa = "a64" -> FALSE
      [] program.isa = "a32" -> A32!LeavesFlags(x)
\* Division by zero is zero on ARM and all ones in SMT-LIB.
Divides(x) == program.isa # "x86" /\ x.op \in {"udiv", "sdiv"}
\* The base of a multiple load is overwritten before its last address is taken.
ReloadsBase(x) ==
    CASE program.isa = "x86" -> FALSE
      [] program.isa = "a64" -> x.op = "ldp" /\ x.operands[1].r = x.operands[3].base
      [] program.isa = "a32" -> A32!ReloadsBase(x)
\* Of AArch32 alone: a condition read again once a flag of it was written, and
\* a carry that the table of effects does not know is read.
RereadsFlags(x) == program.isa = "a32" /\ A32!RereadsFlags(x)
HiddenCarry(x) == program.isa = "a32" /\ A32!HiddenCarry(x)
\* $o takes the carries of a subtraction for those of an addition.  They differ
\* where what is subtracted is the least integer, and radare2 makes up for it
\* in the strings of x86 only.
LeastSubtrahend ==
    /\ pc > 1 /\ program.isa # "x86" /\ program.esil = "all"
    /\ LET x == program.code[pc - 1] IN
       /\ x.op = "cmp" /\ ~HasShiftSpecifier(program.isa, x)
       /\ CASE program.isa = "a64" -> A64!IsLeast(real, x) [] program.isa = "a32" -> A32!IsLeast(real, x)

Lowered == ~(SomeInsn(ZeroShift) \/ SomeInsn(Divides) \/ SomeInsn(ReloadsBase) \/ SomeInsn(RereadsFlags))

\* Whatever the views of a register the instructions go through, the lifted
\* statements give every register, flag and byte the value the processor gives
\* it, or leave it free.
LiftAgrees ==
    ~lifted.hole /\ Lowered =>
        /\ \A r \in Registers : r = "pc" \/ Sound(lifted.regs[r], real.regs[r])
        /\ \A f \in Flags : Sound(lifted.flags[f], real.flags[f]) \/ (f = "OF" /\ LeastSubtrahend)
        /\ \A c \in DOMAIN real.mem : Sound(lifted.mem[c], real.mem[c])

\* What the slice says of a branch that follows, whatever its condition.
SliceTellsTheTruth ==
    IF program.ask # "flags" THEN Sound(sliced.regs[program.ask], real.regs[program.ask])
    ELSE \A cc \in X86!Conditions :
            (program.isa # "x86" => cc \notin {"p", "np"}) =>
                Sound(X86!Condition(sliced.flags, cc), X86!Flag(X86!Holds(real.flags, cc)))
Complete == Ended /\ Walk.status # "truncated" /\ ~sliced.hole

\* What the slice says of the branch is what the program does: the table of
\* effects, the walk and the lifter agree on what each instruction reads and
\* writes.
SliceDecides ==
    Complete /\ Lowered /\ ~LeastSubtrahend /\ ~(SomeInsn(PartialWrite) \/ SomeInsn(LeavesFlags) \/ SomeInsn(HiddenCarry))
        => SliceTellsTheTruth

=============================================================================
