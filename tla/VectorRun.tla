------------------------------ MODULE VectorRun ------------------------------
(***************************************************************************)
(* Short programs of vector instructions, executed by a processor and, in  *)
(* step, as the lifter lowers them.                                        *)
(***************************************************************************)
EXTENDS VectorFloats

CONSTANTS
    Block,         \* the bytes of a permute block of x86
    Programs,      \* records of a set of instructions, the code, its contents, and
                   \* whether the lifter declines it
    Contents       \* what the registers and the memory hold at first

VARIABLES
    program, pc,       \* the block, and the next of its instructions
    real,              \* the processor
    lifted             \* the statements

vars == <<program, pc, real, lifted>>

X86 == INSTANCE VectorX86
A64 == INSTANCE VectorA64Scalar
A32 == INSTANCE VectorA32

Flags == DOMAIN NoFlags
\* What a declined form computes is of no interest.
Execute(s, x) ==
    CASE program.declined -> s
      [] program.isa = "x86" -> X86!Execute(s, x)
      [] program.isa = "a64" -> A64!ExecuteA64(s, x)
      [] program.isa = "a32" -> A32!ExecuteA32(s, x)
LiftInstruction(s, x) ==
    CASE program.isa = "x86" -> X86!LiftInstruction(s, x)
      [] program.isa = "a64" -> A64!LiftA64(s, x)
      [] program.isa = "a32" -> A32!LiftA32(s, x)
Step ==
    /\ pc <= Len(program.code)
    /\ LET x == program.code[pc] IN
        /\ real' = Execute(real, x)
        /\ lifted' = LiftInstruction(lifted, x)
    /\ pc' = pc + 1
    /\ UNCHANGED program

Init ==
    /\ program \in Programs
    /\ pc = 1
    /\ \E c \in Contents[program.on] : real = [regs |-> c, flags |-> NoFlags, hole |-> FALSE]
    /\ lifted = real

Next == Step
Spec == Init /\ [][Next]_vars

----------------------------------------------------------------------------
SomeInsn(P(_)) == \E i \in DOMAIN program.code : P(program.code[i])
\* Shifts by bytes shift each 128-bit block; the lifter shifts the register.
ByteShiftsWhole(x) == x.op = "byteshift" /\ X86!Dst(x).n > Block
\* A scalar load of the legacy encoding leaves the bits above the low 128.
LegacyLoadClears(x) == x.op = "smove" /\ ~x.vex /\ X86!Second(x).kind = "memory" /\ X86!Dst(x).kind = "register"
\* The manual reduces floats in pairs; the lifter from the first to the last.
ReducesInOrder(x) == x.op = "reduce" /\ x.arg.f \in {"fmax", "fmin"}
\* A fixed-point integer is rounded once; the lifter rounds, and then scales.
ScalesAfterRounding(x) == ((x.op = "convert" /\ x.arg.f = "int") \/ x.op = "sint2fp") /\ x.imm # 0
\* The steps of Newton's method round the product first; the lifter does not.
StepsFuse(x) == x.op = "fused" /\ x.arg \in {"frecps", "frsqrts"}
\* A result of 16 bits clears the rest of its s register, or extends to it;
\* the lifter keeps the rest, or takes both halves for lanes.
HalfInSingle(x) ==
    /\ x.op \in A32!VfpOps /\ A32!IsS(A32!Dest(x)) /\ A32!Dest(x).k = 2
    /\ x.op # "vcmp" /\ ~(x.op = "convert" /\ x.arg.f = "narrow")
\* vld1 fills its two registers with one element; the lifter reads two.
ReplicatesTwo(x) ==
    /\ x.op = "structured" /\ x.arg.interleave = 1
    /\ A32!Is(A32!Op(x, 1), "replicate") /\ Len(A32!Op(x, 1).list) > 1
Excluded(x) ==
    CASE program.isa = "x86" -> ByteShiftsWhole(x) \/ LegacyLoadClears(x)
      [] program.isa = "a64" -> ReducesInOrder(x) \/ ScalesAfterRounding(x)
      [] program.isa = "a32" -> StepsFuse(x) \/ HalfInSingle(x) \/ ReplicatesTwo(x) \/ ScalesAfterRounding(x)

\* A form that the lifter is to decline it declines, and it declines no other:
\* each operand's width, arrangement, index and amount is judged against the
\* rest of the instruction (the *_shape functions, x86_simd_shape).
DeclinesOnlyOtherForms == pc > Len(program.code) => lifted.hole = program.declined

\* ARM has no parity flag.
NotAFlag == IF program.isa = "x86" THEN {} ELSE {"PF"}
Agree ==
    /\ \A r \in DOMAIN real.regs : \A j \in DOMAIN real.regs[r] :
            lifted.regs[r][j] \in {Unk, real.regs[r][j]}
    /\ \A f \in Flags \ NotAFlag : lifted.flags[f] \in {Unk, real.flags[f]}

\* What the statements of a block say of a vector register, a general one, the
\* memory or a flag is what the processor leaves there: the lanes of packed,
\* widening, narrowing, saturating, permuting and structured forms, and the
\* bytes above a written view (lift/simd.rs and the lowerings of each ISA).
LanesAgree == ~lifted.hole /\ ~SomeInsn(Excluded) => Agree

=============================================================================
