----------------------------- MODULE LiftMachine -----------------------------
(***************************************************************************)
(* What the lifters of the instruction sets share: bit-vectors of a few    *)
(* widths, registers seen through views, a memory of bytes, and values     *)
(* that may be unknown.                                                    *)
(*                                                                         *)
(* A width is a number of bits given by Bits, and all of them are scaled   *)
(* down together: a byte of memory has Bits[8] bits.  What a lifter leaves *)
(* as Expr::Unknown is Unk, and so is whatever is computed from it; a flag *)
(* that a manual leaves undefined is Undefined.                            *)
(***************************************************************************)
EXTENDS Integers, Sequences, FiniteSets, Bitwise

CONSTANTS
    Bits,        \* the scaled widths
    Ptr,         \* the width of a pointer: 64 or 32
    Cells        \* how many bytes of memory there are

Flags == {"ZF", "CF", "SF", "OF", "PF"}
Unk == -1
Undefined == -2

----------------------------------------------------------------------------
\* Bit-vectors.

Extract(x, hi, lo) == (x \div 2 ^ lo) % 2 ^ (hi - lo + 1)
Bit(x, i) == Extract(x, i, i)
Modulus(w) == 2 ^ Bits[w]
Msb(x, w) == Bit(x, Bits[w] - 1)
Signed(x, w) == IF Msb(x, w) = 1 THEN x - Modulus(w) ELSE x
Complement(x, w) == Modulus(w) - 1 - x
Flag(b) == IF b THEN 1 ELSE 0
Bytes(w) == (Bits[w] + Bits[8] - 1) \div Bits[8]
Overflows(n, w) == Flag(n < -(Modulus(w) \div 2) \/ n >= Modulus(w) \div 2)
FromBits(bit(_), n) ==
    LET sum[i \in 0..n] == IF i = 0 THEN 0 ELSE sum[i - 1] + bit(i - 1) * 2 ^ (i - 1)
    IN  sum[n]

\* Unknowns spread.
U1(x, v) == IF x = Unk THEN Unk ELSE v
U2(x, y, v) == IF x = Unk \/ y = Unk THEN Unk ELSE v
Sound(v, actual) == v = Unk \/ v = actual

\* Flags of a result, and Expr::Ite.
Zf(r) == U1(r, Flag(r = 0))
Sf(r, w) == U1(r, Flag(Signed(r, w) < 0))
Ite(c, a, b) == IF a = b THEN a ELSE IF c = Unk THEN Unk ELSE IF c = 1 THEN a ELSE b

----------------------------------------------------------------------------
\* Operands.

Reg(r, v) == [kind |-> "register", r |-> r, view |-> v]
Imm(n) == [kind |-> "immediate", n |-> n]

\* The bits of a register that a name addresses; a dword write clears the rest
\* of its parent.
Layout(v) ==
    CASE v = "full" -> [lo |-> 0, hi |-> Bits[Ptr] - 1, zero |-> FALSE]
      [] v = "dword" -> [lo |-> 0, hi |-> Bits[32] - 1, zero |-> TRUE]
      [] v = "word" -> [lo |-> 0, hi |-> Bits[16] - 1, zero |-> FALSE]
      [] v = "low" -> [lo |-> 0, hi |-> Bits[8] - 1, zero |-> FALSE]
      [] v = "high" -> [lo |-> Bits[8], hi |-> 2 * Bits[8] - 1, zero |-> FALSE]
WidthOf(v) == CASE v = "full" -> Ptr [] v = "dword" -> 32 [] v = "word" -> 16 [] OTHER -> 8

OperandWidth(o) ==
    CASE o.kind = "register" -> WidthOf(o.view)
      [] o.kind = "memory" -> o.w
      [] OTHER -> Ptr
BinopWidth(a, b) ==
    CASE b.kind = "immediate" /\ a.kind # "immediate" -> OperandWidth(a)
      [] a.kind = "immediate" /\ b.kind # "immediate" -> OperandWidth(b)
      [] OTHER -> IF OperandWidth(a) >= OperandWidth(b) THEN OperandWidth(a) ELSE OperandWidth(b)

\* The part of a register that a processor reads.
PartOf(s, o) == Extract(s.regs[o.r], Layout(o.view).hi, Layout(o.view).lo)

\* read_operand_at: a narrower register is extended with zeros, a wider one
\* cut.  The zero register of AArch64 is a constant.
ReadAt(env, o, w) ==
    CASE o.kind = "register" /\ o.r = "xzr" -> 0
      [] o.kind = "register" /\ o.r # "xzr" -> U1(env.regs[o.r], PartOf(env, o) % Modulus(w))
      [] o.kind = "immediate" -> o.n % Modulus(w)
      [] OTHER -> Unk

\* The value of the parent once bits lo to hi of it hold v.
ParentWrite(old, v, l) ==
    IF l.lo = 0 /\ (l.zero \/ l.hi + 1 = Bits[Ptr]) THEN v
    ELSE U2(old, v, (IF l.hi + 1 < Bits[Ptr]
                     THEN Extract(old, Bits[Ptr] - 1, l.hi + 1) * 2 ^ (l.hi + 1) ELSE 0)
                    + v * 2 ^ l.lo + (old % 2 ^ l.lo))
\* What is written to the zero register is never read.
WriteRegister(env, o, v) ==
    IF o.r = "xzr" THEN env
    ELSE [env EXCEPT !.regs[o.r] = ParentWrite(env.regs[o.r], v, Layout(o.view))]

Unsupported(env) == [env EXCEPT !.hole = TRUE]
SetFlags(env, f) == [env EXCEPT !.flags = f]

----------------------------------------------------------------------------
\* Memory, little-endian.

LoadReal(s, a, w) ==
    LET byte(i) == s.mem[(a + i) % Cells] * 2 ^ (i * Bits[8])
        sum[i \in 0..Bytes(w)] == IF i = 0 THEN 0 ELSE sum[i - 1] + byte(i - 1)
    IN  sum[Bytes(w)] % Modulus(w)
StoreReal(s, a, v, w) ==
    [s EXCEPT !.mem = [c \in DOMAIN s.mem |->
        LET i == (c - a) % Cells IN
        IF i < Bytes(w) THEN Extract(v, (i + 1) * Bits[8] - 1, i * Bits[8]) ELSE s.mem[c]]]

\* IrStmt::LoadMem and IrStmt::StoreMem.
LoadMem(env, a, w) ==
    IF a = Unk \/ \E i \in 0..(Bytes(w) - 1) : env.mem[(a + i) % Cells] = Unk THEN Unk
    ELSE LoadReal(env, a, w)
StoreMem(env, a, v, w) ==
    IF a = Unk THEN [env EXCEPT !.mem = [c \in DOMAIN env.mem |-> Unk]]
    ELSE IF v = Unk
    THEN [env EXCEPT !.mem = [c \in DOMAIN env.mem |->
                IF (c - a) % Cells < Bytes(w) THEN Unk ELSE env.mem[c]]]
    ELSE StoreReal(env, a, v, w)

----------------------------------------------------------------------------
\* Conditions over the flags, by their x86 names.

Conditions == {"e", "ne", "a", "ae", "b", "be", "g", "ge", "l", "le",
               "s", "ns", "o", "no", "p", "np"}
Holds(f, cc) ==
    CASE cc = "e" -> f.ZF = 1                    [] cc = "ne" -> f.ZF = 0
      [] cc = "a" -> f.CF = 0 /\ f.ZF = 0        [] cc = "be" -> f.CF = 1 \/ f.ZF = 1
      [] cc = "ae" -> f.CF = 0                   [] cc = "b" -> f.CF = 1
      [] cc = "ge" -> f.SF = f.OF                [] cc = "l" -> f.SF # f.OF
      [] cc = "g" -> f.ZF = 0 /\ f.SF = f.OF     [] cc = "le" -> f.ZF = 1 \/ f.SF # f.OF
      [] cc = "s" -> f.SF = 1                    [] cc = "ns" -> f.SF = 0
      [] cc = "o" -> f.OF = 1                    [] cc = "no" -> f.OF = 0
      [] cc = "p" -> f.PF = 1                    [] cc = "np" -> f.PF = 0
UsedBy(cc) ==
    CASE cc \in {"e", "ne"} -> {"ZF"} [] cc \in {"a", "be"} -> {"CF", "ZF"}
      [] cc \in {"ae", "b"} -> {"CF"} [] cc \in {"ge", "l"} -> {"SF", "OF"}
      [] cc \in {"g", "le"} -> {"ZF", "SF", "OF"} [] cc \in {"s", "ns"} -> {"SF"}
      [] cc \in {"o", "no"} -> {"OF"} [] cc \in {"p", "np"} -> {"PF"}

\* A condition of lifted flags is known when it comes out the same however the
\* unknown flags it uses are chosen.
Condition(f, cc) ==
    LET free == {x \in UsedBy(cc) : f[x] = Unk}
        outcomes == {Holds([x \in Flags |-> IF x \in free THEN c[x] ELSE f[x]], cc) :
                        c \in [free -> {0, 1}]}
    IN  CASE outcomes = {TRUE} -> 1 [] outcomes = {FALSE} -> 0 [] OTHER -> Unk

----------------------------------------------------------------------------
\* What an instruction defines, reads and observes.

Effect(defs, uses, flags, memory) ==
    [defs |-> defs, uses |-> uses, flags |-> flags, memory |-> memory,
     reads |-> FALSE, other |-> FALSE]
OtherEffect(memory) == [Effect({}, {}, FALSE, memory) EXCEPT !.other = TRUE]
DefOf(o) == IF o.kind = "register" THEN {o.r} ELSE {}
=============================================================================
