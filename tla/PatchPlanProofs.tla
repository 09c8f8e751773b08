--------------------------- MODULE PatchPlanProofs ---------------------------
(***************************************************************************)
(* The plan, for every pair of conditional instructions and whatever is    *)
(* reported of them: the operations fill the instructions they replace and *)
(* keep out of each other's bytes, and the patched code does what the      *)
(* original does.                                                          *)
(***************************************************************************)
EXTENDS PatchPlan, TLAPS

IsSequence(s) == \E S : s \in Seq(S)

\* What comes of putting one sequence after another.
LEMMA Joined ==
    ASSUME NEW s, NEW t, IsSequence(s), IsSequence(t)
    PROVE  /\ IsSequence(s \o t) /\ Len(s \o t) = Len(s) + Len(t)
           /\ Len(s) \in Nat /\ Len(t) \in Nat
<1>1. PICK S, T : s \in Seq(S) /\ t \in Seq(T)
  BY DEF IsSequence
<1>2. s \in Seq(S \cup T) /\ t \in Seq(S \cup T)
  BY <1>1
<1>3. QED
  BY <1>2 DEF IsSequence

LEMMA Appended ==
    ASSUME NEW s, IsSequence(s), NEW x
    PROVE  /\ IsSequence(Append(s, x))
           /\ \A i \in DOMAIN Append(s, x) :
                \/ i \in DOMAIN s /\ Append(s, x)[i] = s[i]
                \/ Append(s, x)[i] = x
<1>1. PICK S : s \in Seq(S)
  BY DEF IsSequence
<1>2. s \in Seq(S \cup {x})
  BY <1>1
<1>3. Append(s, x) \in Seq(S \cup {x}) /\ Len(Append(s, x)) = Len(s) + 1
      /\ Append(s, x)[Len(s) + 1] = x /\ \A i \in 1..Len(s) : Append(s, x)[i] = s[i]
  BY <1>2
<1>4. DOMAIN s = 1..Len(s) /\ DOMAIN Append(s, x) = 1..(Len(s) + 1) /\ Len(s) \in Nat
  BY <1>2, <1>3
<1>5. QED
  BY <1>3, <1>4 DEF IsSequence

LEMMA Singles == \A x : IsSequence(<<x>>) /\ Len(<<x>>) = 1
<1> TAKE x
<1>1. <<x>> \in Seq({x})
  OBVIOUS
<1>2. QED
  BY <1>1 DEF IsSequence

LEMMA Empty == IsSequence(<<>>) /\ Len(<<>>) = 0
<1>1. <<>> \in Seq({})
  OBVIOUS
<1>2. QED
  BY <1>1 DEF IsSequence

LEMMA Repeated ==
    ASSUME NEW x, NEW n \in Nat
    PROVE  IsSequence(Repeat(x, n)) /\ Len(Repeat(x, n)) = n
<1>1. Repeat(x, n) \in Seq({B(x)}) /\ Len(Repeat(x, n)) = n
  BY DEF Repeat
<1>2. QED
  BY <1>1 DEF IsSequence

LEMMA Words ==
    ASSUME NEW x, NEW n \in {2, 4}
    PROVE  IsSequence(FixedWidth(x, n)) /\ Len(FixedWidth(x, n)) = n
<1>1. IsSequence(Repeat("more", n - 1)) /\ Len(Repeat("more", n - 1)) = n - 1
  BY Repeated
<1>2. IsSequence(<<[b |-> "word", is |-> x]>>) /\ Len(<<[b |-> "word", is |-> x]>>) = 1
  BY Singles
<1>3. QED
  BY <1>1, <1>2, Joined DEF FixedWidth

\* The encoding of an instruction, and how many bytes it has at least.
LEMMA Encoded ==
    ASSUME NEW x \in Conditional
    PROVE  /\ IsSequence(Encode(x)) /\ Len(Encode(x)) \in Nat
           /\ x.mode = "x86" => Len(Encode(x)) >= 2
           /\ x.op \in {"cmov", "setcc"} => Len(Encode(x)) >= 3
           /\ x.mode \in {"a64", "a32"} => Len(Encode(x)) = 4
           /\ x.mode = "thumb" => Len(Encode(x)) \in {2, 4}
           /\ x.op = "jcc" => Len(Encode(x)) \in {2, 6}
<1>1. CASE x.mode # "x86"
  <2>1. /\ Encode(x) = FixedWidth(x, IF x.mode = "thumb" /\ x.w = 16 THEN 2 ELSE 4)
        /\ x.op \notin {"cmov", "setcc", "jcc"}
    BY <1>1 DEF Encode, Conditional, Form, Selects
  <2>2. QED
    BY <1>1, <2>1, Words DEF Conditional, Form
<1>2. CASE x.op = "jcc"
  <2>0. x.mode = "x86" /\ x.op \notin {"cmov", "setcc"}
    BY <1>2 DEF Conditional, Form, Selects
  <2>1. CASE x.w = 8
    <3>1. Encode(x) = <<B("7x"), B("rel")>> /\ <<B("7x"), B("rel")>> \in Seq({B("7x"), B("rel")})
      BY <1>2, <2>1 DEF Encode, Conditional, Form
    <3>2. IsSequence(Encode(x)) /\ Len(Encode(x)) = 2
      BY <3>1 DEF IsSequence
    <3>3. QED
      BY <2>0, <3>2
  <2>2. CASE x.w # 8
    <3>1. Encode(x) = <<B("0F"), B("8x")>> \o Repeat("rel", 4)
      BY <1>2, <2>2 DEF Encode, Conditional, Form
    <3>2. <<B("0F"), B("8x")>> \in Seq({B("0F"), B("8x")}) /\ Len(<<B("0F"), B("8x")>>) = 2
      OBVIOUS
    <3>3. IsSequence(<<B("0F"), B("8x")>>)
      BY <3>2 DEF IsSequence
    <3>4. IsSequence(Encode(x)) /\ Len(Encode(x)) = 6
      BY <3>1, <3>2, <3>3, Repeated, Joined
    <3>5. QED
      BY <2>0, <3>4
  <2>3. QED
    BY <2>1, <2>2
<1>3. CASE x.op \in {"cmov", "setcc"}
  <2>1. PICK y : Encode(x) = Prefix(x.w) \o <<B("0F"), B(y)>> \o ModRM(x.operand)
    <3>1. x.mode = "x86" /\ x.op # "jcc"
      BY <1>3 DEF Conditional, Form, Selects
    <3>2. CASE x.op = "cmov"
      BY <3>1, <3>2, Zenon DEF Encode
    <3>3. CASE x.op = "setcc"
      BY <3>1, <3>3, Zenon DEF Encode
    <3>4. QED
      BY <1>3, <3>2, <3>3
  <2>2. IsSequence(Prefix(x.w))
    BY Singles, Empty DEF Prefix
  <2>3. IsSequence(<<B("0F"), B(y)>>) /\ Len(<<B("0F"), B(y)>>) = 2
    <3>1. <<B("0F"), B(y)>> \in Seq({B("0F"), B(y)}) /\ Len(<<B("0F"), B(y)>>) = 2
      OBVIOUS
    <3>2. QED
      BY <3>1 DEF IsSequence
  <2>4. IsSequence(ModRM(x.operand)) /\ Len(ModRM(x.operand)) >= 1
    <3>1. IsSequence(IF x.operand \in {"memory", "rip"} THEN <<B("disp")>> ELSE <<>>)
      BY Singles, Empty
    <3>2. IsSequence(<<[b |-> "ModRM", at |-> x.operand]>>)
          /\ Len(<<[b |-> "ModRM", at |-> x.operand]>>) = 1
      BY Singles
    <3>3. QED
      BY <3>1, <3>2, Joined DEF ModRM
  <2>5. IsSequence(Prefix(x.w) \o <<B("0F"), B(y)>>)
        /\ Len(Prefix(x.w) \o <<B("0F"), B(y)>>) >= 2
        /\ Len(Prefix(x.w) \o <<B("0F"), B(y)>>) \in Nat
    BY <2>2, <2>3, Joined
  <2>6. IsSequence(Encode(x)) /\ Len(Encode(x)) >= 3 /\ Len(Encode(x)) \in Nat
    BY <2>1, <2>4, <2>5, Joined
  <2>7. QED
    BY <1>3, <2>6 DEF Conditional, Form, Selects
<1>4. QED
  BY <1>1, <1>2, <1>3 DEF Conditional, Form

-----------------------------------------------------------------------------
(* Every rewrite has the length of what it replaces. *)

\* A byte is taken out after the first p and one is added at the end.
LEMMA Exchanged ==
    ASSUME NEW s, IsSequence(s), NEW p \in {0, 1}, Len(s) >= p + 2, NEW x, NEW y
    PROVE  Len(SubSeq(s, 1, p) \o <<x>> \o SubSeq(s, p + 3, Len(s)) \o <<y>>) = Len(s)
<1>0. PICK S : s \in Seq(S)
  BY DEF IsSequence
<1>1. PICK n \in Nat : n = Len(s) /\ n >= p + 2
  BY <1>0
<1>2. IsSequence(SubSeq(s, 1, p)) /\ Len(SubSeq(s, 1, p)) = p
  <2>1. SubSeq(s, 1, p) \in Seq(S) /\ Len(SubSeq(s, 1, p)) = p
    BY <1>0, <1>1
  <2>2. QED
    BY <2>1 DEF IsSequence
<1>3. IsSequence(SubSeq(s, p + 3, n)) /\ Len(SubSeq(s, p + 3, n)) = n - (p + 2)
  <2>1. SubSeq(s, p + 3, n) \in Seq(S) /\ Len(SubSeq(s, p + 3, n)) = n - (p + 2)
    BY <1>0, <1>1
  <2>2. QED
    BY <2>1 DEF IsSequence
<1>4. IsSequence(<<x>>) /\ Len(<<x>>) = 1 /\ IsSequence(<<y>>) /\ Len(<<y>>) = 1
  BY Singles
<1>5. PICK a, b : a = SubSeq(s, 1, p) /\ b = SubSeq(s, p + 3, n)
  OBVIOUS
<1>6. IsSequence(a \o <<x>>) /\ Len(a \o <<x>>) = p + 1
  BY <1>2, <1>4, <1>5, Joined
<1>7. IsSequence((a \o <<x>>) \o b) /\ Len((a \o <<x>>) \o b) = (p + 1) + (n - (p + 2))
  BY <1>3, <1>5, <1>6, Joined
<1>8. Len(((a \o <<x>>) \o b) \o <<y>>) = (p + 1) + (n - (p + 2)) + 1
  BY <1>4, <1>7, Joined
<1>9. (p + 1) + (n - (p + 2)) + 1 = n
  OBVIOUS
<1>10. QED
  BY <1>1, <1>5, <1>8, <1>9, Zenon

\* The rewrite of SETcc is as long as what it replaces, or none.
LEMMA SetccLength ==
    ASSUME NEW s, IsSequence(s), Len(s) >= 3, NEW v
    PROVE  PatchSetcc(s, v) = <<>> \/ Len(PatchSetcc(s, v)) = Len(s)
<1>1. Len(s) \in Nat
  BY DEF IsSequence
<1> DEFINE p == IF s[1].b = "REX" THEN 1 ELSE 0
<1>2. p \in {0, 1} /\ Len(s) >= p + 2
  BY <1>1
<1>3. \/ PatchSetcc(s, v) = <<>>
      \/ PatchSetcc(s, v) = SubSeq(s, 1, p) \o <<B("C6")>> \o SubSeq(s, p + 3, Len(s))
                              \o <<[b |-> "imm", imm |-> IF v THEN 1 ELSE 0]>>
  BY Zenon DEF PatchSetcc
<1> HIDE DEF p
<1>4. \A x, y : Len(SubSeq(s, 1, p) \o <<x>> \o SubSeq(s, p + 3, Len(s)) \o <<y>>) = Len(s)
  BY <1>2, Exchanged
<1>5. QED
  BY <1>3, <1>4, Zenon

\* So is the rewrite of CMOVcc.
LEMMA CmovLength ==
    ASSUME NEW s, IsSequence(s), Len(s) >= 3
    PROVE  PatchCmov(s) = <<>> \/ Len(PatchCmov(s)) = Len(s)
<1>1. Len(s) \in Nat
  BY DEF IsSequence
<1> DEFINE p == IF s[1].b \in {"66", "REX"} THEN 1 ELSE 0
<1>2. p \in {0, 1} /\ Len(s) >= p + 2
  BY <1>1
<1>3. \/ PatchCmov(s) = <<>>
      \/ PatchCmov(s) = SubSeq(s, 1, p) \o <<B("8B")>> \o SubSeq(s, p + 3, Len(s))
                              \o <<B("90")>>
  BY Zenon DEF PatchCmov
<1> HIDE DEF p
<1>4. \A x, y : Len(SubSeq(s, 1, p) \o <<x>> \o SubSeq(s, p + 3, Len(s)) \o <<y>>) = Len(s)
  BY <1>2, Exchanged
<1>5. QED
  BY <1>3, <1>4, Zenon

\* So are the NOPs.
LEMMA NopLength ==
    ASSUME NEW mode \in {"x86", "thumb", "a64", "a32"}, NEW n \in Nat,
           mode = "thumb" => n \in {2, 4}, mode \in {"a64", "a32"} => n = 4
    PROVE  Len(Nop(mode, n)) = n
<1> DEFINE nop == Instruction("thumb", "nop", 16, "none")
<1>1. CASE mode = "x86"
  BY <1>1, Repeated DEF Nop
<1>2. CASE mode = "thumb"
  <2>1. Len(FixedWidth(nop, 2)) = 2 /\ IsSequence(FixedWidth(nop, 2))
    BY Words
  <2>2. Len(FixedWidth(nop, 2) \o FixedWidth(nop, 2)) = 2 + 2
    <3>1. PICK w : w = FixedWidth(nop, 2)
      OBVIOUS
    <3>2. Len(w \o w) = 2 + 2
      BY <2>1, <3>1, Joined
    <3>3. QED
      BY <3>1, <3>2
  <2>3. Nop(mode, n) = IF n = 2 THEN FixedWidth(nop, 2)
                       ELSE FixedWidth(nop, 2) \o FixedWidth(nop, 2)
    BY <1>2 DEF Nop
  <2>4. QED
    BY <1>2, <2>1, <2>2, <2>3
<1>3. CASE mode \in {"a64", "a32"}
  <2>1. Nop(mode, n) = FixedWidth(Instruction(mode, "nop", 32, "none"), 4)
    BY <1>3 DEF Nop
  <2>2. QED
    BY <1>3, <2>1, Words
<1>4. QED
  BY <1>1, <1>2, <1>3

\* What the assembler returns is a sequence, and padded up to the size it has
\* that size.
LEMMA PadLength ==
    ASSUME NEW mode, NEW b \in Assembled(mode), NEW n \in Nat,
           ~(Len(b) > n \/ (mode # "x86" /\ Len(b) # n))
    PROVE  Len(Pad(mode, b, n)) = n
<1>1. CASE mode # "x86"
  BY <1>1 DEF Pad
<1>2. CASE mode = "x86"
  <2>1. b \in {<<B("EB"), B("rel")>>, <<B("E9")>> \o Repeat("rel", 4)}
    BY <1>2 DEF Assembled
  <2>2. IsSequence(b)
    <3>1. IsSequence(<<B("EB"), B("rel")>>)
      <4>1. <<B("EB"), B("rel")>> \in Seq({B("EB"), B("rel")})
        OBVIOUS
      <4>2. QED
        BY <4>1 DEF IsSequence
    <3>2. IsSequence(<<B("E9")>> \o Repeat("rel", 4))
      BY Singles, Repeated, Joined
    <3>3. QED
      BY <2>1, <3>1, <3>2
  <2>3. Len(b) \in Nat /\ Len(b) <= n
    BY <2>2 DEF IsSequence
  <2>4. n - Len(b) \in Nat
    BY <2>3
  <2>5. IsSequence(Repeat("90", n - Len(b))) /\ Len(Repeat("90", n - Len(b))) = n - Len(b)
    BY <2>4, Repeated
  <2>6. Len(b \o Repeat("90", n - Len(b))) = Len(b) + (n - Len(b))
    BY <2>2, <2>5, Joined
  <2>7. QED
    BY <1>2, <2>3, <2>6 DEF Pad
<1>3. QED
  BY <1>1, <1>2

-----------------------------------------------------------------------------
(* The planner. *)

\* The bytes of an operation are as many as it has room for.
Fills(o) == o.address \in Nat /\ o.size \in Nat /\ Len(o.bytes) = o.size
Reported == [at : 1..2, gaps : SUBSET Gaps, verdict : BOOLEAN]

PlanInv ==
    /\ program \in Conditional \X Conditional
    /\ truth \in [1..2 -> BOOLEAN]
    /\ findings \in Seq(Reported)
    /\ IsSequence(operations)
    /\ \A i \in DOMAIN operations : Fills(operations[i])
    /\ phase = "planned" =>
          \A i, j \in DOMAIN operations : i # j => ~Overlaps(operations[i], operations[j])

\* An operation is where its instruction is, and of its length.
LEMMA OperationFills ==
    ASSUME PlanInv, NEW f \in Reported, NEW b, Len(b) = SizeOf(f)
    PROVE  Fills(Operation(f, b))
<1>1. program[1] \in Conditional /\ program[f.at] \in Conditional /\ f.at \in {1, 2}
  BY DEF PlanInv, Reported
<1>2. SizeOf(f) \in Nat /\ Start(f.at) \in Nat
  BY <1>1, Encoded DEF SizeOf, Start
<1>3. QED
  BY <1>2 DEF Fills, Operation

\* Whatever comes of a finding, an operation fills its instruction.
LEMMA ConsiderFills ==
    ASSUME PlanInv, NEW f \in Reported, NEW d \in Consider(f), d \notin {Abort, Skip}
    PROVE  Fills(d)
<1>1. PICK x \in Conditional : x = program[f.at]
  BY DEF PlanInv, Reported
<1>2. PICK n \in Nat : n = SizeOf(f) /\ n = Len(Encode(x))
  BY <1>1, Encoded DEF SizeOf
<1>3. x.mode \in {"x86", "thumb", "a64", "a32"}
  BY DEF Conditional, Form
<1>4. CASE MnemonicKind(x) = "Jcc" /\ d \in PlanJcc(f)
  <2>1. Len(Nop(x.mode, n)) = n
    BY <1>2, <1>3, Encoded, NopLength
  <2>2. \A b \in Assembled(x.mode) :
           ~(Len(b) > n \/ (x.mode # "x86" /\ Len(b) # n)) => Len(Pad(x.mode, b, n)) = n
    BY PadLength
  <2>3. \/ d = Operation(f, Nop(x.mode, n))
        \/ \E b \in Assembled(x.mode) :
             ~(Len(b) > n \/ (x.mode # "x86" /\ Len(b) # n)) /\ d = Operation(f, Pad(x.mode, b, n))
    BY <1>1, <1>2, <1>4 DEF PlanJcc
  <2>4. QED
    BY <1>2, <2>1, <2>2, <2>3, OperationFills
<1>5. CASE MnemonicKind(x) = "SetCc" /\ d \in PlanSetcc(f)
  <2>1. x.op = "setcc"
    BY <1>5 DEF MnemonicKind
  <2>2. d = Operation(f, PatchSetcc(Encode(x), f.verdict)) /\ PatchSetcc(Encode(x), f.verdict) # <<>>
    BY <1>1, <1>5 DEF PlanSetcc
  <2>3. QED
    BY <1>2, <2>1, <2>2, Encoded, SetccLength, OperationFills
<1>6. CASE MnemonicKind(x) = "CMovCc" /\ d \in PlanCmov(f)
  <2>1. x.op = "cmov" /\ x.mode = "x86"
    BY <1>6 DEF MnemonicKind, Conditional, Form, Selects
  <2>2. \/ d = Operation(f, PatchCmov(Encode(x))) /\ PatchCmov(Encode(x)) # <<>>
        \/ d = Operation(f, Nop("x86", n))
    BY <1>1, <1>2, <1>6 DEF PlanCmov
  <2>3. PatchCmov(Encode(x)) = <<>> \/ Len(PatchCmov(Encode(x))) = n
    BY <1>2, <2>1, Encoded, CmovLength
  <2>4. Len(Nop("x86", n)) = n
    BY NopLength
  <2>5. QED
    BY <1>2, <2>2, <2>3, <2>4, OperationFills
<1>7. CASE MnemonicKind(x) = "Select" /\ d \in PlanSelect(f)
  <2>1. x.op \in Selects /\ x.mode = "a64"
    BY <1>7 DEF MnemonicKind, Conditional, Form, Selects
  <2>2. d = Operation(f, FixedWidth(SelectAsm(x, f.verdict), 4))
    BY <1>1, <1>7 DEF PlanSelect
  <2>3. n = 4
    BY <1>2, <2>1, Encoded
  <2>4. Len(FixedWidth(SelectAsm(x, f.verdict), 4)) = 4
    BY Words
  <2>5. QED
    BY <1>2, <2>2, <2>3, <2>4, OperationFills
<1>8. \/ MnemonicKind(x) = "Jcc" /\ d \in PlanJcc(f)
      \/ MnemonicKind(x) = "SetCc" /\ d \in PlanSetcc(f)
      \/ MnemonicKind(x) = "CMovCc" /\ d \in PlanCmov(f)
      \/ MnemonicKind(x) = "Select" /\ d \in PlanSelect(f)
  <2>1. MnemonicKind(x) \in {"Jcc", "SetCc", "CMovCc", "Select", "Other"}
    BY DEF MnemonicKind
  <2>2. QED
    BY <1>1, <2>1 DEF Consider
<1>9. QED
  BY <1>4, <1>5, <1>6, <1>7, <1>8

\* Nothing is planned at first.
LEMMA InitPlanInv == Init => PlanInv
<1> SUFFICES ASSUME Init PROVE PlanInv
  OBVIOUS
<1>1. program \in Conditional \X Conditional /\ truth \in [1..2 -> BOOLEAN]
  BY ProgramsAssumption DEF Init
<1>2. PICK r \in Reports, again \in {FALSE, Twice} :
         findings = <<Finding(1, r[1]), Finding(2, r[2])>>
                    \o (IF again THEN <<Finding(1, r[1])>> ELSE <<>>)
  BY DEF Init
<1>3. Finding(1, r[1]) \in Reported /\ Finding(2, r[2]) \in Reported
  BY <1>1, ReportAssumption DEF Finding, Reported
<1>4. findings \in Seq(Reported)
  BY <1>2, <1>3
<1>5. QED
  BY <1>1, <1>4, Empty DEF Init, PlanInv

\* Each operation added fills its place and overlaps none before it.
LEMMA NextPlanInv == PlanInv /\ [Next]_vars => PlanInv'
<1> SUFFICES ASSUME PlanInv, [Next]_vars PROVE PlanInv'
  OBVIOUS
<1>1. CASE ConsiderFinding
  <2>1. Head(findings) \in Reported /\ Tail(findings) \in Seq(Reported)
    BY <1>1 DEF PlanInv, ConsiderFinding
  <2>2. PICK d \in Consider(Head(findings)) :
           /\ phase' = IF d = Abort THEN "refused" ELSE phase
           /\ operations' = IF d \in {Abort, Skip} THEN operations ELSE Append(operations, d)
    BY <1>1 DEF ConsiderFinding
  <2>3. phase' # "planned"
    BY <1>1, <2>2 DEF ConsiderFinding
  <2>4. IsSequence(operations') /\ \A i \in DOMAIN operations' : Fills(operations'[i])
    <3>1. CASE d \in {Abort, Skip}
      BY <2>2, <3>1 DEF PlanInv
    <3>2. CASE d \notin {Abort, Skip}
      <4>1. Fills(d)
        BY <2>1, <3>2, ConsiderFills
      <4>2. QED
        BY <2>2, <3>2, <4>1, Appended DEF PlanInv
    <3>3. QED
      BY <3>1, <3>2
  <2>5. QED
    BY <1>1, <2>1, <2>3, <2>4 DEF PlanInv, ConsiderFinding, IsSequence, Fills
<1>2. CASE BuildPlan
  BY <1>2 DEF BuildPlan, PlanInv, IsSequence, Fills, Overlaps
<1>3. CASE StepOriginal \/ StepPatched \/ UNCHANGED vars
  BY <1>3 DEF StepOriginal, StepPatched, vars, PlanInv, IsSequence, Fills, Overlaps
<1>4. QED
  BY <1>1, <1>2, <1>3 DEF Next

\* For every pair of conditional instructions, whatever is reported of them
\* and however often, a plan writes no byte twice, and each operation the
\* bytes of its instruction.
THEOREM PlanIsDisjoint == Spec => []OperationsDisjoint
<1>1. Init => PlanInv
  BY InitPlanInv
<1>2. PlanInv /\ [Next]_vars => PlanInv'
  BY NextPlanInv
<1>3. PlanInv => OperationsDisjoint
  <2> SUFFICES ASSUME PlanInv, phase = "planned",
                      NEW i \in DOMAIN operations, NEW j \in DOMAIN operations
               PROVE  /\ Len(operations[i].bytes) = operations[i].size
                      /\ i # j =>
                           ((operations[i].address..(operations[i].address + operations[i].size - 1))
                            \cap (operations[j].address..(operations[j].address + operations[j].size - 1))) = {}
    BY DEF OperationsDisjoint
  <2>1. Fills(operations[i]) /\ Fills(operations[j])
    BY DEF PlanInv
  <2>2. i # j => ~Overlaps(operations[i], operations[j]) /\ ~Overlaps(operations[j], operations[i])
    BY DEF PlanInv
  <2>3. QED
    BY <2>1, <2>2 DEF Fills, Overlaps
<1>4. QED
  BY <1>1, <1>2, <1>3, PTL DEF Spec

-----------------------------------------------------------------------------
\* A processor: what its registers and memory hold, and where it is.
Word == 0..15
Widths == {8, 16, 32, 64}
State == [pc : Nat, regs : [Registers -> Word], mem : [Memory -> Word]]

\* The low part of one word beside the high part of another is a word.
LEMMA Halves ==
    \A old, v \in Word : /\ (old - (old % 2)) + (v % 2) \in Word
                         /\ (old - (old % 2)) + (old % 2) = old
                         /\ v % 4 \in Word /\ v % 2 \in Word
BY DEF Word

LEMMA Merged ==
    ASSUME NEW old \in Word, NEW v \in Word, NEW w \in Widths
    PROVE  Merge(old, v, w) \in Word /\ View(v, w) \in Word
BY Halves DEF Merge, View, Widths
\* An assignment moves on and changes the registers alone, as much wherever it
\* moves to.
RegistersAfter(s, r, v, w) ==
    IF r = "zr" THEN s.regs ELSE [s.regs EXCEPT ![r] = Merge(s.regs[r], v, w)]

LEMMA Assigned ==
    ASSUME NEW s \in State, NEW n \in Nat, NEW v \in Word, NEW w \in Widths, NEW r \in Names
    PROVE  /\ Assign(s, r, v, w, n) \in State
           /\ Assign(s, r, v, w, n).pc = n
           /\ Assign(s, r, v, w, n).mem = s.mem
           /\ Assign(s, r, v, w, n).regs = RegistersAfter(s, r, v, w)
<1>1. r # "zr" => r \in Registers /\ s.regs[r] \in Word
  BY DEF State, Names, Registers
<1>2. r # "zr" => Merge(s.regs[r], v, w) \in Word
  BY <1>1, Merged
<1>3. PICK g : g = RegistersAfter(s, r, v, w)
  OBVIOUS
<1>4. g \in [Registers -> Word]
  BY <1>1, <1>2, <1>3 DEF State, RegistersAfter
<1>5. Assign(s, r, v, w, n) = [s EXCEPT !.regs = g, !.pc = n]
  BY <1>3, Zenon DEF Assign, RegistersAfter
<1>6. PICK t : t = [s EXCEPT !.regs = g, !.pc = n]
  OBVIOUS
<1>7. t \in State /\ t.pc = n /\ t.mem = s.mem /\ t.regs = g
  BY <1>4, <1>6 DEF State
<1>8. QED
  BY <1>3, <1>5, <1>6, <1>7, Zenon

\* A store of a byte.
LEMMA Stored == ASSUME NEW s \in State, NEW n \in 0..23, NEW v \in Word, NEW d
   PROVE WriteRM(d, s, n, v) \in State /\ WriteRM(d,s,n,v).pc = n
<1>0. n \in Nat
  OBVIOUS
<1>1. CASE d.operand = "register"
  <2>1. Merge(s.regs["r0"], v, 8) \in Word
    BY Merged DEF State, Registers, Widths
  <2>2. PICK g : g = [s.regs EXCEPT !["r0"] = Merge(s.regs["r0"], v, 8)]
    OBVIOUS
  <2>3. g \in [Registers -> Word]
    BY <2>1, <2>2 DEF State
  <2>4. WriteRM(d, s, n, v) = [s EXCEPT !.regs = g, !.pc = n]
    BY <1>1, <2>2, Zenon DEF WriteRM
  <2>5. QED
    BY <1>0, <2>3, <2>4 DEF State
<1>2. CASE d.operand # "register"
  <2>0. PICK a : a = Address(d, n)
    OBVIOUS
  <2>1. a \in Memory
    BY <2>0 DEF Address, Memory
  <2>2. Merge(s.mem[a], v, 8) \in Word
    BY <2>1, Merged DEF State, Widths
  <2>3. PICK g : g = [s.mem EXCEPT ![a] = Merge(s.mem[a], v, 8)]
    OBVIOUS
  <2>4. g \in [Memory -> Word]
    BY <2>2, <2>3 DEF State
  <2>5. WriteRM(d, s, n, v) = [s EXCEPT !.mem = g, !.pc = n]
    BY <1>2, <2>0, <2>3 DEF WriteRM
  <2>6. QED
    BY <1>0, <2>4, <2>5 DEF State
<1>3. QED
  BY <1>1, <1>2

\* One sequence after another, and what is where.
Cat(s, t) == s \o t

\* Both parts are found again in what they are joined to.
LEMMA JoinedAt ==
    ASSUME NEW s, NEW t, IsSequence(s), IsSequence(t)
    PROVE  /\ IsSequence(Cat(s, t)) /\ Len(Cat(s, t)) = Len(s) + Len(t)
           /\ Len(s) \in Nat /\ Len(t) \in Nat
           /\ \A k \in 1..Len(s) : Cat(s, t)[k] = s[k]
           /\ \A k \in 1..Len(t) : Cat(s, t)[Len(s) + k] = t[k]
<1>1. PICK S, T : s \in Seq(S) /\ t \in Seq(T)
  BY DEF IsSequence
<1>2. s \in Seq(S \cup T) /\ t \in Seq(S \cup T)
  BY <1>1
<1>3. /\ \A k \in 1..Len(s) : (s \o t)[k] = s[k]
      /\ \A k \in 1..Len(t) : (s \o t)[Len(s) + k] = t[k]
  BY <1>2
<1>4. /\ IsSequence(s \o t) /\ Len(s \o t) = Len(s) + Len(t)
      /\ Len(s) \in Nat /\ Len(t) \in Nat
  BY Joined
<1>5. QED
  BY <1>3, <1>4, Zenon DEF Cat

LEMMA CatSequence ==
    ASSUME NEW s, NEW t, IsSequence(s), IsSequence(t)
    PROVE  IsSequence(Cat(s, t))
BY JoinedAt

LEMMA CatLength ==
    ASSUME NEW s, NEW t, IsSequence(s), IsSequence(t)
    PROVE  Len(Cat(s, t)) = Len(s) + Len(t) /\ Len(s) \in Nat /\ Len(t) \in Nat
BY JoinedAt

LEMMA CatHead ==
    ASSUME NEW s, NEW t, IsSequence(s), IsSequence(t)
    PROVE  \A k \in 1..Len(s) : Cat(s, t)[k] = s[k]
BY JoinedAt

LEMMA CatTail ==
    ASSUME NEW s, NEW t, IsSequence(s), IsSequence(t)
    PROVE  \A k \in 1..Len(t) : Cat(s, t)[Len(s) + k] = t[k]
BY JoinedAt

\* A byte is taken out after the first p and one is added at the end.
Exchange(s, p, x, y) == SubSeq(s, 1, p) \o <<x>> \o SubSeq(s, p + 3, Len(s)) \o <<y>>

LEMMA ExchangedAt ==
    ASSUME NEW s, IsSequence(s), NEW p \in {0, 1}, Len(s) >= p + 2, NEW x, NEW y
    PROVE  /\ Len(Exchange(s, p, x, y)) = Len(s)
           /\ p = 1 => Exchange(s, p, x, y)[1] = s[1]
           /\ Exchange(s, p, x, y)[p + 1] = x
           /\ \A k \in (p + 2)..(Len(s) - 1) : Exchange(s, p, x, y)[k] = s[k + 1]
           /\ Exchange(s, p, x, y)[Len(s)] = y
<1>0. PICK S : s \in Seq(S)
  BY DEF IsSequence
<1>1. PICK n \in Nat : n = Len(s) /\ n >= p + 2
  BY <1>0
<1>5. PICK a, b : a = SubSeq(s, 1, p) /\ b = SubSeq(s, p + 3, n)
  OBVIOUS
<1>2. /\ IsSequence(a) /\ Len(a) = p /\ (p = 1 => a[1] = s[1])
  <2>1. a \in Seq(S) /\ Len(a) = p
    BY <1>0, <1>1, <1>5
  <2>2. p = 1 => a[1] = s[1]
    BY <1>0, <1>1, <1>5
  <2>3. QED
    BY <2>1, <2>2 DEF IsSequence
<1>3. /\ IsSequence(b) /\ Len(b) = n - (p + 2)
      /\ \A k \in 1..(n - (p + 2)) : b[k] = s[k + (p + 2)]
  <2>1. b \in Seq(S) /\ Len(b) = n - (p + 2)
    BY <1>0, <1>1, <1>5
  <2>2. \A k \in 1..(n - (p + 2)) : b[k] = s[k + (p + 2)]
    BY <1>0, <1>1, <1>5
  <2>3. QED
    BY <2>1, <2>2 DEF IsSequence
<1>4. /\ IsSequence(<<x>>) /\ Len(<<x>>) = 1 /\ <<x>>[1] = x
      /\ IsSequence(<<y>>) /\ Len(<<y>>) = 1 /\ <<y>>[1] = y
  BY Singles
<1>6. PICK u, v : u = <<x>> /\ v = <<y>>
  OBVIOUS
<1>7. /\ IsSequence(u) /\ Len(u) = 1 /\ u[1] = x
      /\ IsSequence(v) /\ Len(v) = 1 /\ v[1] = y
  BY <1>4, <1>6
<1>8. PICK h : /\ h = Cat(a, u) /\ IsSequence(h) /\ Len(h) = p + 1
               /\ h[p + 1] = x /\ (p = 1 => h[1] = s[1])
  <2>0. Len(Cat(a, u)) = Len(a) + Len(u)
    BY <1>2, <1>7, CatLength
  <2>1. IsSequence(Cat(a, u)) /\ Len(Cat(a, u)) = p + 1
    BY <1>2, <1>7, <2>0, CatSequence
  <2>2. Cat(a, u)[p + 1] = x
    <3>1. \A k \in 1..Len(u) : Cat(a, u)[Len(a) + k] = u[k]
      BY <1>2, <1>7, CatTail
    <3>2. Cat(a, u)[Len(a) + 1] = u[1]
      BY <1>7, <3>1
    <3>3. QED
      BY <1>2, <1>7, <3>2
  <2>3. p = 1 => Cat(a, u)[1] = s[1]
    BY <1>2, <1>7, CatHead
  <2>4. QED
    BY <2>1, <2>2, <2>3
<1>9. PICK g : /\ g = Cat(h, b) /\ IsSequence(g) /\ Len(g) = n - 1
               /\ g[p + 1] = x /\ (p = 1 => g[1] = s[1])
               /\ \A k \in 1..(n - (p + 2)) : g[p + 1 + k] = s[k + (p + 2)]
  <2>0. Len(Cat(h, b)) = Len(h) + Len(b)
    BY <1>3, <1>8, CatLength
  <2>1. IsSequence(Cat(h, b)) /\ Len(Cat(h, b)) = (p + 1) + (n - (p + 2))
    BY <1>3, <1>8, <2>0, CatSequence
  <2>2. (p + 1) + (n - (p + 2)) = n - 1
    OBVIOUS
  <2>3. \A k \in 1..(p + 1) : Cat(h, b)[k] = h[k]
    BY <1>3, <1>8, CatHead
  <2>4. \A k \in 1..(n - (p + 2)) : Cat(h, b)[(p + 1) + k] = b[k]
    BY <1>3, <1>8, CatTail
  <2>5. p + 1 \in 1..(p + 1) /\ (p = 1 => 1 \in 1..(p + 1))
    OBVIOUS
  <2>6. PICK g : g = Cat(h, b)
    OBVIOUS
  <2>7. IsSequence(g) /\ Len(g) = n - 1
    BY <2>1, <2>2, <2>6
  <2>8. g[p + 1] = x /\ (p = 1 => g[1] = s[1])
    BY <1>8, <2>3, <2>5, <2>6
  <2>9. \A k \in 1..(n - (p + 2)) : g[p + 1 + k] = s[k + (p + 2)]
    BY <1>3, <2>4, <2>6
  <2>10. QED
    BY <2>6, <2>7, <2>8, <2>9
<1>12. PICK f : /\ f = Cat(g, v) /\ f[n] = y /\ f[p + 1] = x /\ (p = 1 => f[1] = s[1])
                /\ \A k \in 1..(n - (p + 2)) : f[p + 1 + k] = s[k + (p + 2)]
  <2>1. \A k \in 1..(n - 1) : Cat(g, v)[k] = g[k]
    BY <1>7, <1>9, CatHead
  <2>2. Cat(g, v)[n] = y
    <3>3. IsSequence(g) /\ IsSequence(v)
      BY <1>7, <1>9
    <3>0. \A k \in 1..Len(v) : Cat(g, v)[Len(g) + k] = v[k]
      BY <3>3, CatTail
    <3>1. Cat(g, v)[Len(g) + 1] = v[1]
      BY <1>7, <3>0
    <3>2. Len(g) + 1 = n
      BY <1>9
    <3>4. QED
      BY <1>7, <3>1, <3>2
  <2>3. p + 1 \in 1..(n - 1) /\ 1 \in 1..(n - 1)
    BY <1>1
  <2>4. \A k \in 1..(n - (p + 2)) : p + 1 + k \in 1..(n - 1)
    BY <1>1
  <2>5. QED
    BY <1>9, <2>1, <2>2, <2>3, <2>4
<1>13. f = Exchange(s, p, x, y)
  BY <1>1, <1>5, <1>6, <1>8, <1>9, <1>12, Zenon DEF Cat, Exchange
<1>14. Len(Exchange(s, p, x, y)) = Len(s)
  <2>1. Len(Cat(g, v)) = Len(g) + Len(v)
    BY <1>7, <1>9, CatLength
  <2>2. Len(f) = (n - 1) + 1
    BY <1>7, <1>9, <1>12, <2>1
  <2>3. (n - 1) + 1 = n
    OBVIOUS
  <2>4. QED
    BY <1>1, <1>13, <2>2, <2>3, Zenon
<1>10. \A k \in (p + 2)..(n - 1) : f[k] = s[k + 1]
  <2> TAKE k \in (p + 2)..(n - 1)
  <2>1. PICK j \in 1..(n - (p + 2)) : k = p + 1 + j /\ k + 1 = j + (p + 2)
    <3>1. k - (p + 1) \in 1..(n - (p + 2)) /\ k = p + 1 + (k - (p + 1))
          /\ k + 1 = (k - (p + 1)) + (p + 2)
      OBVIOUS
    <3>2. QED
      BY <3>1
  <2>2. QED
    BY <1>12, <2>1
<1>11. QED
  BY <1>1, <1>10, <1>12, <1>13, <1>14, Zenon

LEMMA RepeatedAt ==
    ASSUME NEW x, NEW n \in Nat
    PROVE  \A k \in 1..n : Repeat(x, n)[k] = B(x)
BY DEF Repeat

LEMMA WordAt ==
    ASSUME NEW x, NEW n \in {2, 4}
    PROVE  FixedWidth(x, n)[1] = [b |-> "word", is |-> x]
<1>1. IsSequence(Repeat("more", n - 1)) /\ Len(Repeat("more", n - 1)) = n - 1
  BY Repeated
<1>2. PICK h : /\ h = <<[b |-> "word", is |-> x]>> /\ h[1] = [b |-> "word", is |-> x]
               /\ IsSequence(h) /\ Len(h) = 1
  <2>1. PICK h : h = <<[b |-> "word", is |-> x]>>
    OBVIOUS
  <2>2. IsSequence(h) /\ Len(h) = 1
    BY <2>1, Singles
  <2>3. h[1] = [b |-> "word", is |-> x]
    BY <2>1
  <2>4. QED
    BY <2>1, <2>2, <2>3
<1>3. PICK r : r = Repeat("more", n - 1)
  OBVIOUS
<1>4. Cat(h, r)[1] = h[1]
  <2>1. \A k \in 1..Len(h) : Cat(h, r)[k] = h[k]
    BY <1>1, <1>2, <1>3, CatHead
  <2>2. QED
    BY <1>2, <2>1
<1>5. FixedWidth(x, n) = Cat(h, r)
  BY <1>2, <1>3, Zenon DEF FixedWidth, Cat
<1>6. QED
  BY <1>2, <1>4, <1>5, Zenon

\* The bytes of the two-byte forms with an operand.
OpcodeOf(x) == IF x.op = "cmov" THEN "4x" ELSE "9x"
Prefixed(x) == IF x.w = 32 THEN 0 ELSE 1
Byte(w) == IF w = 16 THEN B("66") ELSE B("REX")

\* Prefix, escape, opcode and operand, in that order.
LEMMA EncodedAt ==
    ASSUME NEW x \in Conditional, x.op \in {"cmov", "setcc"}, NEW p, p = Prefixed(x)
    PROVE  /\ p \in {0, 1}
           /\ Len(Encode(x)) = p + 3 + DispOf(x.operand)
           /\ p = 1 => Encode(x)[1] = Byte(x.w)
           /\ Encode(x)[p + 1] = B("0F")
           /\ Encode(x)[p + 2] = B(OpcodeOf(x))
           /\ Encode(x)[p + 3] = [b |-> "ModRM", at |-> x.operand]
<1>1. /\ x.mode = "x86" /\ x.w \in {16, 32, 64} /\ x.op # "jcc"
      /\ Encode(x) = Prefix(x.w) \o <<B("0F"), B(OpcodeOf(x))>> \o ModRM(x.operand)
  <2>1. x.mode = "x86" /\ x.w \in {16, 32, 64} /\ x.op # "jcc"
    BY DEF Conditional, Form, Selects
  <2>2. CASE x.op = "cmov"
    BY <2>1, <2>2, Zenon DEF Encode, OpcodeOf
  <2>3. CASE x.op = "setcc"
    <3>1. OpcodeOf(x) = "9x"
      BY <2>3 DEF OpcodeOf
    <3>2. Encode(x) = Prefix(x.w) \o <<B("0F"), B("9x")>> \o ModRM(x.operand)
      BY <2>1, <2>3, Zenon DEF Encode
    <3>3. QED
      BY <2>1, <3>1, <3>2, Zenon
  <2>4. QED
    BY <2>1, <2>2, <2>3
<1>2. PICK a : /\ a = Prefix(x.w) /\ IsSequence(a) /\ Len(a) = p
               /\ p = 1 => a[1] = Byte(x.w)
  <2>1. CASE x.w = 32
    <3>1. Prefix(x.w) = <<>> /\ p = 0
      BY <2>1 DEF Prefix, Prefixed
    <3>2. QED
      BY <3>1, Empty
  <2>2. CASE x.w # 32
    <3>1. Prefix(x.w) = <<Byte(x.w)>> /\ p = 1
      BY <1>1, <2>2 DEF Prefix, Prefixed, Byte
    <3>2. PICK y : y = Byte(x.w)
      OBVIOUS
    <3>3. IsSequence(<<y>>) /\ Len(<<y>>) = 1 /\ <<y>>[1] = y
      BY Singles
    <3>4. QED
      BY <3>1, <3>2, <3>3
  <2>3. QED
    BY <2>1, <2>2
<1>3. p \in {0, 1}
  BY DEF Prefixed
<1>4. PICK o : /\ o = <<B("0F"), B(OpcodeOf(x))>> /\ IsSequence(o) /\ Len(o) = 2
               /\ o[1] = B("0F") /\ o[2] = B(OpcodeOf(x))
  <2>1. PICK y, z : y = B("0F") /\ z = B(OpcodeOf(x))
    OBVIOUS
  <2>2. <<y, z>> \in Seq({y, z}) /\ Len(<<y, z>>) = 2 /\ <<y, z>>[1] = y /\ <<y, z>>[2] = z
    OBVIOUS
  <2>3. QED
    BY <2>1, <2>2 DEF IsSequence
<1>5. PICK m : /\ m = ModRM(x.operand) /\ IsSequence(m) /\ Len(m) = 1 + DispOf(x.operand)
               /\ m[1] = [b |-> "ModRM", at |-> x.operand]
  <2>1. PICK y, z : y = [b |-> "ModRM", at |-> x.operand] /\ z = B("disp")
    OBVIOUS
  <2>2. PICK h, t : h = <<y>> /\ t = (IF x.operand \in {"memory", "rip"} THEN <<z>> ELSE <<>>)
    OBVIOUS
  <2>3. IsSequence(h) /\ Len(h) = 1 /\ h[1] = y
    BY <2>2, Singles
  <2>4. IsSequence(t) /\ Len(t) = DispOf(x.operand)
    BY <2>2, Singles, Empty DEF DispOf
  <2>5. IsSequence(Cat(h, t)) /\ Len(Cat(h, t)) = 1 + DispOf(x.operand) /\ Cat(h, t)[1] = y
    <3>1. Len(Cat(h, t)) = Len(h) + Len(t)
      BY <2>3, <2>4, CatLength
    <3>2. \A k \in 1..Len(h) : Cat(h, t)[k] = h[k]
      BY <2>3, <2>4, CatHead
    <3>3. IsSequence(Cat(h, t))
      BY <2>3, <2>4, CatSequence
    <3>4. QED
      BY <2>3, <2>4, <3>1, <3>2, <3>3
  <2>6. Cat(h, t) = ModRM(x.operand)
    BY <2>1, <2>2, Zenon DEF ModRM, Cat
  <2>7. QED
    BY <2>1, <2>5, <2>6
<1>6. PICK g : /\ g = Cat(a, o) /\ IsSequence(g) /\ Len(g) = p + 2
               /\ p = 1 => g[1] = Byte(x.w)
               /\ g[p + 1] = B("0F") /\ g[p + 2] = B(OpcodeOf(x))
  <2>1. IsSequence(Cat(a, o)) /\ Len(Cat(a, o)) = p + 2
    <3>1. Len(Cat(a, o)) = Len(a) + Len(o)
      BY <1>2, <1>4, CatLength
    <3>2. IsSequence(Cat(a, o))
      BY <1>2, <1>4, CatSequence
    <3>3. QED
      BY <1>2, <1>3, <1>4, <3>1, <3>2
  <2>2. p = 1 => Cat(a, o)[1] = Byte(x.w)
    BY <1>2, <1>4, CatHead
  <2>3. Cat(a, o)[Len(a) + 1] = o[1] /\ Cat(a, o)[Len(a) + 2] = o[2]
    <3>1. IsSequence(a) /\ IsSequence(o)
      BY <1>2, <1>4
    <3>2. \A k \in 1..Len(o) : Cat(a, o)[Len(a) + k] = o[k]
      BY <3>1, CatTail
    <3>3. QED
      BY <1>4, <3>2
  <2>4. QED
    BY <1>2, <1>4, <2>1, <2>2, <2>3
<1>7. DispOf(x.operand) \in {0, 1}
  BY DEF DispOf
<1>8. /\ Len(Cat(g, m)) = p + 3 + DispOf(x.operand)
      /\ p = 1 => Cat(g, m)[1] = Byte(x.w)
      /\ Cat(g, m)[p + 1] = B("0F")
      /\ Cat(g, m)[p + 2] = B(OpcodeOf(x))
      /\ Cat(g, m)[p + 3] = [b |-> "ModRM", at |-> x.operand]
  <2>1. Len(Cat(g, m)) = (p + 2) + (1 + DispOf(x.operand))
    <3>1. Len(Cat(g, m)) = Len(g) + Len(m)
      BY <1>5, <1>6, CatLength
    <3>2. QED
      BY <1>5, <1>6, <3>1
  <2>2. p + 1 \in 1..(p + 2) /\ p + 2 \in 1..(p + 2) /\ (p = 1 => 1 \in 1..(p + 2))
    BY <1>3
  <2>3. \A k \in 1..(p + 2) : Cat(g, m)[k] = g[k]
    BY <1>5, <1>6, CatHead
  <2>4. Cat(g, m)[Len(g) + 1] = m[1]
    <3>1. IsSequence(g) /\ IsSequence(m)
      BY <1>5, <1>6
    <3>2. \A k \in 1..Len(m) : Cat(g, m)[Len(g) + k] = m[k]
      BY <3>1, CatTail
    <3>3. Len(m) \in {1, 2}
      BY <1>5, <1>7
    <3>4. QED
      BY <3>2, <3>3
  <2>5. Len(g) + 1 = p + 3 /\ (p + 2) + (1 + DispOf(x.operand)) = p + 3 + DispOf(x.operand)
    BY <1>3, <1>6, <1>7
  <2>6. QED
    BY <1>5, <1>6, <2>1, <2>2, <2>3, <2>4, <2>5
<1>9. Encode(x) = Cat(g, m)
  BY <1>1, <1>2, <1>4, <1>5, <1>6, Zenon DEF Cat
<1>10. QED
  BY <1>3, <1>8, <1>9, Zenon

\* The bytes of an image from an address on.
Holds(c, at, b) == \A k \in 1..Len(b) : c[at + k - 1] = b[k]

\* A prefix of p bytes that makes the width w, or none.
Lead(c, at, p, w) ==
    \/ p = 0 /\ c[at].b \notin {"66", "REX"} /\ w = 32
    \/ p = 1 /\ c[at] = Byte(w) /\ w \in {16, 64}

\* What the decoder makes of an x86 instruction with a prefix of p bytes.
LEMMA DecodedX86 ==
    ASSUME NEW c, NEW at \in Nat, NEW p, NEW w, Lead(c, at, p, w)
    PROVE  /\ c[at + p].b = "90" => DecodeX86(c, at) = Step("nop", w, "none", p + 1, 0)
           /\ c[at + p].b = "7x" => DecodeX86(c, at) = Step("jcc", w, "none", 2, 0)
           /\ c[at + p].b = "EB" => DecodeX86(c, at) = Step("jmp", w, "none", 2, 0)
           /\ c[at + p].b = "E9" => DecodeX86(c, at) = Step("jmp", w, "none", 5, 0)
           /\ c[at + p].b = "8B" /\ c[at + p + 1].b = "ModRM" =>
                DecodeX86(c, at) = Step("mov", w, c[at + p + 1].at,
                                        p + 2 + DispOf(c[at + p + 1].at), 0)
           /\ c[at + p].b = "C6" /\ c[at + p + 1].b = "ModRM" =>
                DecodeX86(c, at) = Step("store", 8, c[at + p + 1].at,
                                        p + 2 + DispOf(c[at + p + 1].at) + 1,
                                        c[at + (p + 2 + DispOf(c[at + p + 1].at))].imm)
           /\ c[at + p].b = "0F" /\ c[at + p + 1].b = "8x" =>
                DecodeX86(c, at) = Step("jcc", w, "none", 6, 0)
           /\ c[at + p].b = "0F" /\ c[at + p + 1].b = "4x" =>
                DecodeX86(c, at) = Step("cmov", w, c[at + p + 2].at,
                                        p + 3 + DispOf(c[at + p + 2].at), 0)
           /\ c[at + p].b = "0F" /\ c[at + p + 1].b = "9x" =>
                DecodeX86(c, at) = Step("setcc", 8, c[at + p + 2].at,
                                        p + 3 + DispOf(c[at + p + 2].at), 0)
<1>1. p = (IF c[at].b \in {"66", "REX"} THEN 1 ELSE 0)
  BY DEF Lead, Byte, B
<1>2. w = (CASE c[at].b = "66" -> 16 [] c[at].b = "REX" -> 64 [] OTHER -> 32)
  BY DEF Lead, Byte, B
<1> DEFINE opcode == c[at + p].b
           second == c[at + p + 1]
           third == c[at + p + 2]
<1>3. DecodeX86(c, at) =
         CASE opcode = "90" -> Step("nop", w, "none", p + 1, 0)
          [] opcode = "7x" -> Step("jcc", w, "none", 2, 0)
          [] opcode = "EB" -> Step("jmp", w, "none", 2, 0)
          [] opcode = "E9" -> Step("jmp", w, "none", 5, 0)
          [] opcode = "8B" /\ second.b = "ModRM" ->
                Step("mov", w, second.at, p + 2 + DispOf(second.at), 0)
          [] opcode = "C6" /\ second.b = "ModRM" ->
                Step("store", 8, second.at, p + 2 + DispOf(second.at) + 1,
                     c[at + (p + 2 + DispOf(second.at))].imm)
          [] opcode = "0F" /\ second.b = "8x" -> Step("jcc", w, "none", 6, 0)
          [] opcode = "0F" /\ second.b = "4x" ->
                Step("cmov", w, third.at, p + 3 + DispOf(third.at), 0)
          [] opcode = "0F" /\ second.b = "9x" ->
                Step("setcc", 8, third.at, p + 3 + DispOf(third.at), 0)
          [] OTHER -> Fault
  BY <1>1, <1>2, Zenon DEF DecodeX86
<1> HIDE DEF opcode, second, third
<1>4. /\ opcode = "90" => DecodeX86(c, at) = Step("nop", w, "none", p + 1, 0)
      /\ opcode = "7x" => DecodeX86(c, at) = Step("jcc", w, "none", 2, 0)
      /\ opcode = "EB" => DecodeX86(c, at) = Step("jmp", w, "none", 2, 0)
      /\ opcode = "E9" => DecodeX86(c, at) = Step("jmp", w, "none", 5, 0)
  BY <1>3
<1>5. /\ opcode = "8B" /\ second.b = "ModRM" =>
            DecodeX86(c, at) = Step("mov", w, second.at, p + 2 + DispOf(second.at), 0)
      /\ opcode = "C6" /\ second.b = "ModRM" =>
            DecodeX86(c, at) = Step("store", 8, second.at, p + 2 + DispOf(second.at) + 1,
                                    c[at + (p + 2 + DispOf(second.at))].imm)
  BY <1>3
<1>6. /\ opcode = "0F" /\ second.b = "8x" => DecodeX86(c, at) = Step("jcc", w, "none", 6, 0)
      /\ opcode = "0F" /\ second.b = "4x" =>
            DecodeX86(c, at) = Step("cmov", w, third.at, p + 3 + DispOf(third.at), 0)
      /\ opcode = "0F" /\ second.b = "9x" =>
            DecodeX86(c, at) = Step("setcc", 8, third.at, p + 3 + DispOf(third.at), 0)
  BY <1>3
<1>7. QED
  BY <1>4, <1>5, <1>6, Zenon DEF opcode, second, third

\* What the decoder makes of the encoding of an instruction.
Meaning(x) ==
    CASE x.mode # "x86" -> Step(x.op, x.w, x.operand, Len(Encode(x)), 0)
      [] x.op = "jcc" -> Step("jcc", 32, "none", Len(Encode(x)), 0)
      [] x.op = "cmov" -> Step("cmov", x.w, x.operand, Len(Encode(x)), 0)
      [] x.op = "setcc" -> Step("setcc", 8, x.operand, Len(Encode(x)), 0)

\* The decoder reads back what was encoded.
LEMMA EncodedDecodes ==
    ASSUME NEW x \in Conditional, NEW c, NEW at \in Nat, Holds(c, at, Encode(x))
    PROVE  Decode(c, at, x.mode) = Meaning(x)
<1>1. CASE x.mode # "x86"
  <2>1. PICK n \in {2, 4} : n = (IF x.mode = "thumb" /\ x.w = 16 THEN 2 ELSE 4)
    OBVIOUS
  <2>2. Encode(x) = FixedWidth(x, n)
    <3>1. Encode(x) = FixedWidth(x, IF x.mode = "thumb" /\ x.w = 16 THEN 2 ELSE 4)
      BY <1>1 DEF Encode, Conditional, Form, Selects
    <3>2. QED
      BY <2>1, <3>1, Zenon
  <2>3. Len(Encode(x)) = n /\ Encode(x)[1] = [b |-> "word", is |-> x]
    BY <2>2, Words, WordAt
  <2>4. c[at] = [b |-> "word", is |-> x]
    <3>1. c[at + 1 - 1] = Encode(x)[1]
      BY <2>3 DEF Holds
    <3>2. at + 1 - 1 = at
      OBVIOUS
    <3>3. QED
      BY <2>3, <3>1, <3>2
  <2>5. c[at].b = "word" /\ c[at].is = x
    BY <2>4
  <2>6. DecodeArm(c, at, x.mode) = Step(x.op, x.w, x.operand, n, 0)
    BY <2>1, <2>5 DEF DecodeArm
  <2>7. Meaning(x) = Step(x.op, x.w, x.operand, n, 0)
    <3>1. x.op \notin {"jcc", "cmov", "setcc"}
      BY <1>1 DEF Conditional, Form, Selects
    <3>2. QED
      BY <1>1, <2>3, <3>1 DEF Meaning
  <2>8. QED
    BY <1>1, <2>6, <2>7 DEF Decode
<1>2. CASE x.op = "jcc"
  <2>0. x.mode = "x86" /\ x.w \in {8, 32}
    BY <1>2 DEF Conditional, Form, Selects
  <2>1. CASE x.w = 8
    <3>1. Encode(x) = <<B("7x"), B("rel")>>
      BY <1>2, <2>0, <2>1 DEF Encode
    <3>2. Len(Encode(x)) = 2 /\ Encode(x)[1] = B("7x")
      BY <3>1
    <3>3. c[at] = B("7x")
      <4>1. c[at + 1 - 1] = Encode(x)[1]
        BY <3>2 DEF Holds
      <4>2. at + 1 - 1 = at
        OBVIOUS
      <4>3. QED
        BY <3>2, <4>1, <4>2
    <3>4. c[at].b = "7x" /\ c[at + 0].b = "7x"
      BY <3>3 DEF B
    <3>5. DecodeX86(c, at) = Step("jcc", 32, "none", 2, 0)
      <4>1. Lead(c, at, 0, 32)
        BY <3>4 DEF Lead
      <4>2. c[at + 0].b = "7x" => DecodeX86(c, at) = Step("jcc", 32, "none", 2, 0)
        BY <4>1, DecodedX86
      <4>3. QED
        BY <3>4, <4>2
    <3>6. Meaning(x) = Step("jcc", 32, "none", 2, 0)
      BY <1>2, <2>0, <3>2 DEF Meaning
    <3>7. QED
      BY <2>0, <3>5, <3>6 DEF Decode
  <2>2. CASE x.w = 32
    <3>1. Encode(x) = <<B("0F"), B("8x")>> \o Repeat("rel", 4)
      BY <1>2, <2>0, <2>2 DEF Encode
    <3>2. PICK o : /\ o = <<B("0F"), B("8x")>> /\ IsSequence(o) /\ Len(o) = 2
                   /\ o[1] = B("0F") /\ o[2] = B("8x")
      <4>1. PICK y, z : y = B("0F") /\ z = B("8x")
        OBVIOUS
      <4>2. <<y, z>> \in Seq({y, z}) /\ Len(<<y, z>>) = 2 /\ <<y, z>>[1] = y /\ <<y, z>>[2] = z
        OBVIOUS
      <4>3. QED
        BY <4>1, <4>2 DEF IsSequence
    <3>3. PICK e : /\ e = Encode(x) /\ Len(e) = 6 /\ e[1] = B("0F") /\ e[2] = B("8x")
      <4>1. PICK r : r = Repeat("rel", 4) /\ IsSequence(r) /\ Len(r) = 4
        BY Repeated
      <4>2. Len(Cat(o, r)) = Len(o) + Len(r)
        BY <3>2, <4>1, CatLength
      <4>3. \A k \in 1..Len(o) : Cat(o, r)[k] = o[k]
        BY <3>2, <4>1, CatHead
      <4>4. PICK e : e = Cat(o, r)
        OBVIOUS
      <4>5. Len(e) = Len(o) + Len(r)
        BY <4>2, <4>4
      <4>6. \A k \in 1..Len(o) : e[k] = o[k]
        BY <4>3, <4>4
      <4>7. Len(e) = 6
        BY <3>2, <4>1, <4>5
      <4>8. e[1] = B("0F") /\ e[2] = B("8x")
        BY <3>2, <4>6
      <4>9. e = Encode(x)
        BY <3>1, <3>2, <4>1, <4>4, Zenon DEF Cat
      <4>10. QED
        BY <4>7, <4>8, <4>9
    <3>4. c[at] = B("0F") /\ c[at + 1] = B("8x")
      <4>1. c[at + 1 - 1] = e[1] /\ c[at + 2 - 1] = e[2]
        BY <3>3 DEF Holds
      <4>2. at + 1 - 1 = at /\ at + 2 - 1 = at + 1
        OBVIOUS
      <4>3. QED
        BY <3>3, <4>1, <4>2
    <3>5. PICK p : p = 0 /\ c[at].b = "0F" /\ c[at + p].b = "0F" /\ c[at + p + 1].b = "8x"
      <4>1. at + 0 = at /\ at + 0 + 1 = at + 1
        OBVIOUS
      <4>2. c[at].b = "0F" /\ c[at + 0].b = "0F" /\ c[at + 0 + 1].b = "8x"
        BY <3>4, <4>1 DEF B
      <4>3. QED
        BY <4>2
    <3>6. DecodeX86(c, at) = Step("jcc", 32, "none", 6, 0)
      <4>1. Lead(c, at, p, 32)
        BY <3>5 DEF Lead
      <4>2. QED
        BY <3>5, <4>1, DecodedX86
    <3>7. Meaning(x) = Step("jcc", 32, "none", 6, 0)
      BY <1>2, <2>0, <3>3 DEF Meaning
    <3>8. QED
      BY <2>0, <3>6, <3>7 DEF Decode
  <2>3. QED
    BY <2>0, <2>1, <2>2
<1>3. CASE x.op \in {"cmov", "setcc"}
  <2>0. x.mode = "x86" /\ x.w \in {16, 32, 64}
    BY <1>3 DEF Conditional, Form, Selects
  <2>1. PICK p : p = Prefixed(x)
    OBVIOUS
  <2>2. PICK e : /\ e = Encode(x) /\ p \in {0, 1}
                 /\ Len(e) = p + 3 + DispOf(x.operand)
                 /\ p = 1 => e[1] = Byte(x.w)
                 /\ e[p + 1] = B("0F")
                 /\ e[p + 2] = B(OpcodeOf(x))
                 /\ e[p + 3] = [b |-> "ModRM", at |-> x.operand]
    BY <1>3, <2>1, EncodedAt
  <2>3. DispOf(x.operand) \in {0, 1}
    BY DEF DispOf
  <2>4. /\ p = 1 => c[at] = Byte(x.w)
        /\ c[at + p] = B("0F")
        /\ c[at + p + 1] = B(OpcodeOf(x))
        /\ c[at + p + 2] = [b |-> "ModRM", at |-> x.operand]
    <3>1. \A k \in 1..(p + 3) : c[at + k - 1] = e[k]
      BY <2>2, <2>3 DEF Holds
    <3>2. /\ at + (p + 1) - 1 = at + p /\ at + (p + 2) - 1 = at + p + 1
          /\ at + (p + 3) - 1 = at + p + 2 /\ at + 1 - 1 = at
      BY <2>2
    <3>3. /\ c[at + 1 - 1] = e[1]
          /\ c[at + (p + 1) - 1] = e[p + 1] /\ c[at + (p + 2) - 1] = e[p + 2]
          /\ c[at + (p + 3) - 1] = e[p + 3]
      BY <2>2, <3>1
    <3>4. QED
      BY <2>2, <3>2, <3>3
  <2>5. Lead(c, at, p, x.w)
    <3>1. CASE x.w = 32
      <4>1. p = 0
        BY <2>1, <3>1 DEF Prefixed
      <4>2. c[at] = B("0F")
        BY <2>4, <4>1
      <4>3. QED
        BY <3>1, <4>1, <4>2 DEF Lead, B
    <3>2. CASE x.w # 32
      BY <2>0, <2>1, <2>4, <3>2 DEF Lead, Prefixed
    <3>3. QED
      BY <3>1, <3>2
  <2>6. /\ c[at + p].b = "0F" /\ c[at + p + 1].b = OpcodeOf(x)
        /\ c[at + p + 2].at = x.operand
    BY <2>4 DEF B
  <2>7. CASE x.op = "cmov"
    <3>1. DecodeX86(c, at) = Step("cmov", x.w, x.operand, p + 3 + DispOf(x.operand), 0)
      BY <2>5, <2>6, <2>7, DecodedX86 DEF OpcodeOf
    <3>2. Meaning(x) = Step("cmov", x.w, x.operand, p + 3 + DispOf(x.operand), 0)
      BY <2>0, <2>2, <2>7 DEF Meaning
    <3>3. QED
      BY <2>0, <3>1, <3>2 DEF Decode
  <2>8. CASE x.op = "setcc"
    <3>1. DecodeX86(c, at) = Step("setcc", 8, x.operand, p + 3 + DispOf(x.operand), 0)
      BY <2>5, <2>6, <2>8, DecodedX86 DEF OpcodeOf
    <3>2. Meaning(x) = Step("setcc", 8, x.operand, p + 3 + DispOf(x.operand), 0)
      BY <2>0, <2>2, <2>8 DEF Meaning
    <3>3. QED
      BY <2>0, <3>1, <3>2 DEF Decode
  <2>9. QED
    BY <1>3, <2>7, <2>8
<1>4. QED
  BY <1>1, <1>2, <1>3 DEF Conditional, Form

\* What an operation does to a processor.
LEMMA Executed ==
    ASSUME NEW d, NEW s, NEW c, NEW next, next = s.pc + d.len
    PROVE  /\ d.op = "nop" => Execute(d, s, c) = [s EXCEPT !.pc = next]
           /\ d.op \in {"jmp", "b"} => Execute(d, s, c) = [s EXCEPT !.pc = Exit]
           /\ d.op \in {"jcc", "bcc", "cbz", "bcc.w"} =>
                Execute(d, s, c) = [s EXCEPT !.pc = IF c THEN Exit ELSE next]
           /\ d.op = "store" => Execute(d, s, c) = WriteRM(d, s, next, d.imm)
           /\ d.op = "setcc" => Execute(d, s, c) = WriteRM(d, s, next, IF c THEN 1 ELSE 0)
           /\ d.op = "mov" => Execute(d, s, c) = Assign(s, "r0", Source(d, s, next), d.w, next)
           /\ d.op = "cmov" =>
                Execute(d, s, c) = Assign(s, "r0", IF c THEN Source(d, s, next) ELSE s.regs["r0"],
                                          d.w, next)
           /\ d.op \in Selects =>
                Execute(d, s, c) = Assign(s, d.operand[1], Selected(d, s, c), d.w, next)
           /\ d.op = "mov_imm" =>
                Execute(d, s, c) = Assign(s, d.operand[1], d.operand[2], d.w, next)
           /\ d.op = "mov_reg" =>
                Execute(d, s, c) = Assign(s, d.operand[1], Read(s.regs, d.operand[2]), d.w, next)
           /\ d.op = "add_one" =>
                Execute(d, s, c) = Assign(s, d.operand[1],
                                          (Read(s.regs, d.operand[2]) + 1) % 16, d.w, next)
           /\ d.op = "mvn" =>
                Execute(d, s, c) = Assign(s, d.operand[1], 15 - Read(s.regs, d.operand[2]),
                                          d.w, next)
           /\ d.op = "neg" =>
                Execute(d, s, c) = Assign(s, d.operand[1],
                                          (16 - Read(s.regs, d.operand[2])) % 16, d.w, next)
<1>1. /\ d.op = "nop" => Execute(d, s, c) = [s EXCEPT !.pc = next]
      /\ d.op \in {"jmp", "b"} => Execute(d, s, c) = [s EXCEPT !.pc = Exit]
      /\ d.op \in {"jcc", "bcc", "cbz", "bcc.w"} =>
           Execute(d, s, c) = [s EXCEPT !.pc = IF c THEN Exit ELSE next]
  BY DEF Execute, Selects
<1>2. /\ d.op = "store" => Execute(d, s, c) = WriteRM(d, s, next, d.imm)
      /\ d.op = "setcc" => Execute(d, s, c) = WriteRM(d, s, next, IF c THEN 1 ELSE 0)
      /\ d.op = "mov" => Execute(d, s, c) = Assign(s, "r0", Source(d, s, next), d.w, next)
      /\ d.op = "cmov" =>
           Execute(d, s, c) = Assign(s, "r0", IF c THEN Source(d, s, next) ELSE s.regs["r0"],
                                     d.w, next)
  BY DEF Execute, Selects
<1>3. /\ d.op \in Selects =>
           Execute(d, s, c) = Assign(s, d.operand[1], Selected(d, s, c), d.w, next)
      /\ d.op = "mov_imm" =>
           Execute(d, s, c) = Assign(s, d.operand[1], d.operand[2], d.w, next)
      /\ d.op = "mov_reg" =>
           Execute(d, s, c) = Assign(s, d.operand[1], Read(s.regs, d.operand[2]), d.w, next)
  BY DEF Execute, Selects
<1>4. /\ d.op = "add_one" =>
           Execute(d, s, c) = Assign(s, d.operand[1],
                                     (Read(s.regs, d.operand[2]) + 1) % 16, d.w, next)
      /\ d.op = "mvn" =>
           Execute(d, s, c) = Assign(s, d.operand[1], 15 - Read(s.regs, d.operand[2]),
                                     d.w, next)
      /\ d.op = "neg" =>
           Execute(d, s, c) = Assign(s, d.operand[1],
                                     (16 - Read(s.regs, d.operand[2])) % 16, d.w, next)
  BY DEF Execute, Selects
<1>5. QED
  BY <1>1, <1>2, <1>3, <1>4, Zenon

\* The same of single operations.
LEMMA ExecutedJump ==
    ASSUME NEW d, NEW s, NEW c, d.op \in {"jmp", "b"}
    PROVE  Execute(d, s, c) = [s EXCEPT !.pc = Exit]
<1>1. PICK next : next = s.pc + d.len
  OBVIOUS
<1>2. QED
  BY <1>1, Executed

LEMMA ExecutedMove ==
    ASSUME NEW d, NEW s, NEW c, NEW next, next = s.pc + d.len
    PROVE  /\ d.op = "mov" => Execute(d, s, c) = Assign(s, "r0", Source(d, s, next), d.w, next)
           /\ d.op = "cmov" /\ c => Execute(d, s, c) = Assign(s, "r0", Source(d, s, next), d.w, next)
           /\ d.op = "cmov" /\ ~c => Execute(d, s, c) = Assign(s, "r0", s.regs["r0"], d.w, next)
BY Executed

\* A step that only moves on.
LEMMA Stepped ==
    ASSUME NEW s \in State, NEW n \in Nat
    PROVE  /\ [s EXCEPT !.pc = n] \in State
           /\ [s EXCEPT !.pc = n].pc = n
           /\ [s EXCEPT !.pc = n].regs = s.regs
           /\ [s EXCEPT !.pc = n].mem = s.mem
BY DEF State


\* Nothing but NOPs.
Sled(c, from, to) == \A a \in from..(to - 1) : c[a] = B("90")

\* The forms whose rewrite is known to differ, as the model names them.
DivergentForm(x, v) ==
    \/ x.op = "cmov" /\ x.operand = "rip" /\ v
    \/ x.op = "cmov" /\ x.w = 32 /\ ~v
    \/ x.op \in {"cinc", "cinv", "cneg"}

\* The bytes a rewrite may put in the place of an instruction.
Replaces(x, v, b) ==
    \/ /\ MnemonicKind(x) = "Jcc" /\ ~v
       /\ b = Nop(x.mode, Len(Encode(x)))
    \/ /\ MnemonicKind(x) = "Jcc" /\ v
       /\ \E a \in Assembled(x.mode) :
            /\ ~(Len(a) > Len(Encode(x)) \/ (x.mode # "x86" /\ Len(a) # Len(Encode(x))))
            /\ b = Pad(x.mode, a, Len(Encode(x)))
    \/ MnemonicKind(x) = "SetCc" /\ b = PatchSetcc(Encode(x), v) /\ b # <<>>
    \/ MnemonicKind(x) = "CMovCc" /\ v /\ b = PatchCmov(Encode(x)) /\ b # <<>>
    \/ MnemonicKind(x) = "CMovCc" /\ ~v /\ b = Nop("x86", Len(Encode(x)))
    \/ MnemonicKind(x) = "Select" /\ b = FixedWidth(SelectAsm(x, v), 4)

\* One processor is where the other is, or before it with nothing but NOPs
\* in between, and all else is the same.
Follows(x, c, at, t, u) ==
    /\ t \in State /\ u \in State
    /\ t.regs = u.regs /\ t.mem = u.mem
    /\ t.pc \in {at + Len(Encode(x)), Exit}
    /\ \/ u.pc = t.pc
       \/ /\ x.mode = "x86" /\ t.pc = at + Len(Encode(x))
          /\ u.pc \in (at + 1)..(t.pc - 1) /\ Sled(c, u.pc, t.pc)

\* An instruction takes from two to six bytes.
LEMMA EncodedShort ==
    ASSUME NEW x \in Conditional
    PROVE  Len(Encode(x)) \in 2..6
<1>1. CASE x.op \in {"cmov", "setcc"}
  <2>1. PICK p \in {0, 1} : Len(Encode(x)) = p + 3 + DispOf(x.operand)
    BY <1>1, EncodedAt
  <2>2. DispOf(x.operand) \in {0, 1}
    BY DEF DispOf
  <2>3. QED
    BY <2>1, <2>2
<1>2. CASE x.mode # "x86"
  <2>1. x.mode \in {"a64", "a32", "thumb"}
    BY <1>2 DEF Conditional, Form
  <2>2. QED
    BY <2>1, Encoded
<1>3. CASE x.op = "jcc"
  BY <1>3, Encoded
<1>4. QED
  BY <1>1, <1>2, <1>3 DEF Conditional, Form

\* What the conditional selects compute with stays in a word.
LEMMA Numbers ==
    \A n \in Word : /\ (n + 1) % 16 \in Word /\ 15 - n \in Word /\ (16 - n) % 16 \in Word
BY DEF Word

\* What a processor reads is a word.
LEMMA ReadIsWord ==
    ASSUME NEW s \in State, NEW r \in Names
    PROVE  Read(s.regs, r) \in Word
BY DEF Read, State, Names, Registers, Word

\* So is what a conditional select writes.
LEMMA SelectedIsWord ==
    ASSUME NEW d, NEW s \in State, NEW v \in BOOLEAN, d.op \in Selects, d.w \in {32, 64},
           d.operand \in Names \X Names \X Names
    PROVE  Selected(d, s, v) \in Word
<1>1. d.operand[2] \in Names /\ d.operand[3] \in Names
  OBVIOUS
<1>2. PICK n \in Word, m \in Word : n = View(Read(s.regs, d.operand[2]), d.w)
                                    /\ m = View(Read(s.regs, d.operand[3]), d.w)
  BY <1>1, ReadIsWord, Merged DEF Widths
<1>3. Selected(d, s, v) \in {1, 0, 15, n, m, (m + 1) % 16, 15 - m, (16 - m) % 16,
                             (n + 1) % 16, 15 - n, (16 - n) % 16}
  BY <1>2 DEF Selected, Selects
<1>4. 1 \in Word /\ 0 \in Word /\ 15 \in Word
  BY DEF Word
<1>5. QED
  BY <1>3, <1>4, Numbers
-----------------------------------------------------------------------------
\* An instruction that is left alone.
LEMMA EncodedExecutes ==
    ASSUME NEW x \in Conditional, NEW v \in BOOLEAN, NEW s \in State, s.pc \in 0..10
    PROVE  /\ Execute(Meaning(x), s, v) \in State
           /\ Execute(Meaning(x), s, v).pc \in {s.pc + Len(Encode(x)), Exit}
<1>0. PICK n \in Nat : n = Len(Encode(x)) /\ n <= 6
  <2>1. PICK k \in 2..6 : k = Len(Encode(x))
    BY EncodedShort
  <2>2. QED
    BY <2>1
<1>1. PICK next \in 0..23 : next = s.pc + n /\ next = s.pc + Len(Encode(x))
  <2>1. s.pc + n \in 0..23
    <3>1. PICK at \in 0..10 : at = s.pc
      OBVIOUS
    <3>2. at + n \in 0..23
      BY <1>0
    <3>3. QED
      BY <3>1, <3>2
  <2>2. QED
    BY <1>0, <2>1
<1>2. s.pc \in Nat /\ next \in Nat /\ Exit \in Nat
  BY DEF Exit, State
<1>8. PICK t : t = Execute(Meaning(x), s, v)
  OBVIOUS
<1>9. SUFFICES t \in State /\ t.pc \in {next, Exit}
  BY <1>1, <1>8
<1>3. CASE x.op \in {"jcc", "bcc", "cbz", "bcc.w"}
  <2>1. Meaning(x).op = x.op /\ Meaning(x).len = n
    BY <1>0, <1>3 DEF Meaning, Step, Conditional, Form, Selects
  <2>2. Execute(Meaning(x), s, v) = [s EXCEPT !.pc = IF v THEN Exit ELSE next]
    BY <1>1, <1>3, <2>1, Executed
  <2>3. QED
    BY <1>2, <1>8, <2>2, Stepped
<1>4. CASE x.op = "setcc"
  <2>1. Meaning(x).op = "setcc" /\ Meaning(x).len = n
    BY <1>0, <1>4 DEF Meaning, Step, Conditional, Form, Selects
  <2>2. Execute(Meaning(x), s, v) = WriteRM(Meaning(x), s, next, IF v THEN 1 ELSE 0)
    BY <1>1, <2>1, Executed
  <2>3. (IF v THEN 1 ELSE 0) \in Word
    BY DEF Word
  <2>4. QED
    BY <1>8, <2>2, <2>3, Stored
<1>5. CASE x.op = "cmov"
  <2>1. Meaning(x).op = "cmov" /\ Meaning(x).len = n /\ Meaning(x).w \in Widths
    BY <1>0, <1>5 DEF Meaning, Step, Conditional, Form, Selects, Widths
  <2>2. PICK q : q = IF v THEN Source(Meaning(x), s, next) ELSE s.regs["r0"]
    OBVIOUS
  <2>3. q \in Word
    <3>1. Address(Meaning(x), next) \in Memory
      BY DEF Address, Memory
    <3>2. Source(Meaning(x), s, next) \in Word
      BY <3>1 DEF Source, State, Registers
    <3>3. s.regs["r0"] \in Word
      BY DEF State, Registers
    <3>4. QED
      BY <2>2, <3>2, <3>3
  <2>4. Execute(Meaning(x), s, v) = Assign(s, "r0", q, Meaning(x).w, next)
    BY <1>1, <2>1, <2>2, Executed
  <2>5. "r0" \in Names
    BY DEF Names
  <2>6. QED
    BY <1>2, <1>8, <2>1, <2>3, <2>4, <2>5, Assigned
<1>6. CASE x.op \in Selects
  <2>1. /\ Meaning(x).op \in Selects /\ Meaning(x).len = n /\ Meaning(x).w \in {32, 64}
        /\ Meaning(x).operand \in Names \X Names \X Names
    BY <1>0, <1>6 DEF Meaning, Step, Conditional, Form, Selects
  <2>2. PICK q : q = Selected(Meaning(x), s, v)
    OBVIOUS
  <2>3. q \in Word
    BY <2>1, <2>2, SelectedIsWord
  <2>4. Execute(Meaning(x), s, v) = Assign(s, Meaning(x).operand[1], q, Meaning(x).w, next)
    BY <1>1, <2>1, <2>2, Executed
  <2>5. PICK r \in Names, w \in Widths : r = Meaning(x).operand[1] /\ w = Meaning(x).w
    BY <2>1 DEF Widths
  <2>6. Execute(Meaning(x), s, v) = Assign(s, r, q, w, next)
    BY <2>4, <2>5
  <2>7. QED
    BY <1>2, <1>8, <2>3, <2>6, Assigned
<1>7. QED
  BY <1>3, <1>4, <1>5, <1>6 DEF Conditional, Form, Selects

\* A byte that stands alone.
LEMMA FirstOf ==
    ASSUME NEW c, NEW at \in Nat, NEW b, Holds(c, at, b), Len(b) \in Nat, Len(b) >= 1
    PROVE  c[at] = b[1]
<1>1. c[at + 1 - 1] = b[1]
  BY DEF Holds
<1>2. at + 1 - 1 = at
  OBVIOUS
<1>3. QED
  BY <1>1, <1>2

LEMMA NopDecodes ==
    ASSUME NEW c, NEW at \in Nat, c[at] = B("90")
    PROVE  Decode(c, at, "x86") = Step("nop", 32, "none", 1, 0)
<1>1. PICK p : p = 0 /\ c[at + p].b = "90" /\ Lead(c, at, p, 32) /\ p + 1 = 1
  <2>1. at + 0 = at
    OBVIOUS
  <2>2. c[at + 0].b = "90"
    BY <2>1 DEF B
  <2>3. QED
    BY <2>2 DEF Lead, B
<1>2. DecodeX86(c, at) = Step("nop", 32, "none", p + 1, 0)
  BY <1>1, DecodedX86
<1>3. QED
  BY <1>1, <1>2 DEF Decode

\* The rewrite of SETcc decodes as a store of the value of its condition.
LEMMA SetccDecodes ==
    ASSUME NEW x \in Conditional, x.op = "setcc", NEW v \in BOOLEAN,
           NEW b, b = PatchSetcc(Encode(x), v), b # <<>>,
           NEW c, NEW at \in Nat, Holds(c, at, b)
    PROVE  Decode(c, at, "x86") =
             Step("store", 8, x.operand, Len(Encode(x)), IF v THEN 1 ELSE 0)
<1>1. PICK e, p : e = Encode(x) /\ p = Prefixed(x)
  OBVIOUS
<1>2. /\ IsSequence(e) /\ p \in {0, 1}
      /\ Len(e) = p + 3 + DispOf(x.operand)
      /\ p = 1 => e[1] = Byte(x.w)
      /\ e[p + 1] = B("0F")
      /\ e[p + 2] = B("9x")
      /\ e[p + 3] = [b |-> "ModRM", at |-> x.operand]
  <2>1. OpcodeOf(x) = "9x"
    BY DEF OpcodeOf
  <2>2. QED
    BY <1>1, <2>1, Encoded, EncodedAt
<1>3. PICK z \in {0, 1} : z = DispOf(x.operand)
  BY DEF DispOf
<1>4. PICK imm : imm = [b |-> "imm", imm |-> IF v THEN 1 ELSE 0]
  OBVIOUS
<1>5. /\ p = (IF e[1].b = "REX" THEN 1 ELSE 0)
      /\ p = 1 => x.w = 64
      /\ p = 0 => x.w = 32
  <2>1. x.w \in {16, 32, 64}
    BY DEF Conditional, Form, Selects
  <2>2. b # <<>> => e[(IF e[1].b = "REX" THEN 1 ELSE 0) + 1].b = "0F"
    BY <1>1, Zenon DEF PatchSetcc
  <2>3. CASE x.w = 32
    <3>1. p = 0 /\ e[1] = B("0F")
      BY <1>1, <1>2, <2>3 DEF Prefixed
    <3>2. QED
      BY <2>3, <3>1 DEF B
  <2>4. CASE x.w = 64
    <3>1. p = 1 /\ e[1] = B("REX")
      BY <1>1, <1>2, <2>4 DEF Prefixed, Byte
    <3>2. QED
      BY <2>4, <3>1 DEF B
  <2>5. CASE x.w = 16
    <3>1. e[1] = B("66")
      BY <1>1, <1>2, <2>5 DEF Prefixed, Byte
    <3>2. e[1].b = "66"
      BY <3>1 DEF B
    <3>3. e[0 + 1].b = "0F"
      BY <2>2, <3>2
    <3>4. QED
      BY <3>2, <3>3
  <2>6. QED
    BY <2>1, <2>3, <2>4, <2>5
<1>6. b = Exchange(e, p, B("C6"), imm)
  <2>1. b = (LET q == IF e[1].b = "REX" THEN 1 ELSE 0 IN
             SubSeq(e, 1, q) \o <<B("C6")>> \o SubSeq(e, q + 3, Len(e)) \o <<imm>>)
    BY <1>1, <1>4, Zenon DEF PatchSetcc
  <2>2. QED
    BY <1>5, <2>1, Zenon DEF Exchange
<1>7. PICK n \in Nat : n = Len(e) /\ n = p + 3 + z /\ n >= p + 2
  BY <1>2, <1>3
<1>8. /\ p = 1 => b[1] = e[1]
      /\ b[p + 1] = B("C6")
      /\ \A k \in (p + 2)..(n - 1) : b[k] = e[k + 1]
      /\ b[n] = imm
  <2>1. IsSequence(e) /\ p \in {0, 1} /\ Len(e) >= p + 2
    BY <1>2, <1>7
  <2>2. PICK y : y = B("C6")
    OBVIOUS
  <2>3. /\ p = 1 => Exchange(e, p, y, imm)[1] = e[1]
        /\ Exchange(e, p, y, imm)[p + 1] = y
        /\ \A k \in (p + 2)..(Len(e) - 1) : Exchange(e, p, y, imm)[k] = e[k + 1]
        /\ Exchange(e, p, y, imm)[Len(e)] = imm
    BY <2>1, ExchangedAt
  <2>4. QED
    BY <1>6, <1>7, <2>2, <2>3, Zenon
<1>9. Len(b) = n
  <2>1. IsSequence(e) /\ p \in {0, 1} /\ Len(e) >= p + 2
    BY <1>2, <1>7
  <2>2. \A y : Len(Exchange(e, p, y, imm)) = Len(e)
    BY <2>1, ExchangedAt
  <2>3. QED
    BY <1>6, <1>7, <2>2, Zenon
<1>10. b[p + 2] = [b |-> "ModRM", at |-> x.operand]
  <2>1. p + 2 \in (p + 2)..(n - 1) /\ (p + 2) + 1 = p + 3
    BY <1>2, <1>7
  <2>2. QED
    BY <1>2, <1>8, <2>1
<1>11. /\ p = 1 => c[at] = Byte(x.w)
       /\ c[at + p] = B("C6")
       /\ c[at + p + 1] = [b |-> "ModRM", at |-> x.operand]
       /\ c[at + (p + 2 + z)] = imm
  <2>1. \A k \in 1..n : c[at + k - 1] = b[k]
    BY <1>9 DEF Holds
  <2>2. 1 \in 1..n /\ p + 1 \in 1..n /\ p + 2 \in 1..n /\ n \in 1..n
    BY <1>2, <1>7
  <2>3. /\ c[at + 1 - 1] = b[1] /\ c[at + (p + 1) - 1] = b[p + 1]
        /\ c[at + (p + 2) - 1] = b[p + 2] /\ c[at + n - 1] = b[n]
    BY <2>1, <2>2
  <2>4. /\ at + 1 - 1 = at /\ at + (p + 1) - 1 = at + p /\ at + (p + 2) - 1 = at + p + 1
        /\ at + n - 1 = at + (p + 2 + z)
    BY <1>2, <1>7
  <2>5. QED
    BY <1>2, <1>8, <1>10, <2>3, <2>4
<1>12. Lead(c, at, p, x.w)
  <2>1. CASE p = 0
    <3>1. c[at] = B("C6")
      BY <1>11, <2>1
    <3>2. QED
      BY <1>5, <2>1, <3>1 DEF Lead, B
  <2>2. CASE p = 1
    BY <1>5, <1>11, <2>2 DEF Lead
  <2>3. QED
    BY <1>2, <2>1, <2>2
<1>13. /\ c[at + p].b = "C6" /\ c[at + p + 1].b = "ModRM" /\ c[at + p + 1].at = x.operand
       /\ c[at + (p + 2 + z)].imm = IF v THEN 1 ELSE 0
  BY <1>4, <1>11 DEF B
<1>14. DecodeX86(c, at) = Step("store", 8, x.operand, p + 2 + z + 1,
                               c[at + (p + 2 + z)].imm)
  <2>1. DecodeX86(c, at) = Step("store", 8, c[at + p + 1].at,
                                p + 2 + DispOf(c[at + p + 1].at) + 1,
                                c[at + (p + 2 + DispOf(c[at + p + 1].at))].imm)
    BY <1>12, <1>13, DecodedX86
  <2>2. QED
    BY <1>3, <1>13, <2>1, Zenon
<1>15. p + 2 + z + 1 = Len(Encode(x))
  BY <1>1, <1>2, <1>7
<1>16. QED
  BY <1>13, <1>14, <1>15 DEF Decode

\* The rewrite of CMOVcc decodes as a move, one byte shorter, before a NOP.
LEMMA CmovDecodes ==
    ASSUME NEW x \in Conditional, x.op = "cmov",
           NEW b, b = PatchCmov(Encode(x)), b # <<>>,
           NEW c, NEW at \in Nat, Holds(c, at, b)
    PROVE  /\ Decode(c, at, "x86") = Step("mov", x.w, x.operand, Len(Encode(x)) - 1, 0)
           /\ c[at + Len(Encode(x)) - 1] = B("90")
<1>1. PICK e, p : e = Encode(x) /\ p = Prefixed(x)
  OBVIOUS
<1>2. /\ IsSequence(e) /\ p \in {0, 1}
      /\ Len(e) = p + 3 + DispOf(x.operand)
      /\ p = 1 => e[1] = Byte(x.w)
      /\ e[p + 1] = B("0F")
      /\ e[p + 2] = B("4x")
      /\ e[p + 3] = [b |-> "ModRM", at |-> x.operand]
  <2>1. OpcodeOf(x) = "4x"
    BY DEF OpcodeOf
  <2>2. QED
    BY <1>1, <2>1, Encoded, EncodedAt
<1>3. PICK z \in {0, 1} : z = DispOf(x.operand)
  BY DEF DispOf
<1>4. x.w \in {16, 32, 64} /\ (p = 1 => x.w # 32) /\ (p = 0 => x.w = 32)
  BY <1>1 DEF Conditional, Form, Selects, Prefixed
<1>5. p = (IF e[1].b \in {"66", "REX"} THEN 1 ELSE 0)
  <2>1. CASE p = 0
    <3>1. e[1] = B("0F")
      BY <1>2, <2>1
    <3>2. QED
      BY <2>1, <3>1 DEF B
  <2>2. CASE p = 1
    BY <1>2, <2>2 DEF Byte, B
  <2>3. QED
    BY <1>2, <2>1, <2>2
<1>6. b = Exchange(e, p, B("8B"), B("90"))
  <2>1. b = (LET q == IF e[1].b \in {"66", "REX"} THEN 1 ELSE 0 IN
             SubSeq(e, 1, q) \o <<B("8B")>> \o SubSeq(e, q + 3, Len(e)) \o <<B("90")>>)
    BY <1>1, Zenon DEF PatchCmov
  <2>2. QED
    BY <1>5, <2>1, Zenon DEF Exchange
<1>7. PICK n \in Nat : n = Len(e) /\ n = p + 3 + z /\ n >= p + 2
  BY <1>2, <1>3
<1>8. /\ p = 1 => b[1] = e[1]
      /\ b[p + 1] = B("8B")
      /\ \A k \in (p + 2)..(n - 1) : b[k] = e[k + 1]
      /\ b[n] = B("90")
      /\ Len(b) = n
  <2>1. IsSequence(e) /\ p \in {0, 1} /\ Len(e) >= p + 2
    BY <1>2, <1>7
  <2>2. PICK y, f : y = B("8B") /\ f = B("90")
    OBVIOUS
  <2>3. /\ p = 1 => Exchange(e, p, y, f)[1] = e[1]
        /\ Exchange(e, p, y, f)[p + 1] = y
        /\ \A k \in (p + 2)..(Len(e) - 1) : Exchange(e, p, y, f)[k] = e[k + 1]
        /\ Exchange(e, p, y, f)[Len(e)] = f
        /\ Len(Exchange(e, p, y, f)) = Len(e)
    BY <2>1, ExchangedAt
  <2>4. QED
    BY <1>6, <1>7, <2>2, <2>3, Zenon
<1>10. b[p + 2] = [b |-> "ModRM", at |-> x.operand]
  <2>1. p + 2 \in (p + 2)..(n - 1) /\ (p + 2) + 1 = p + 3
    BY <1>2, <1>7
  <2>2. QED
    BY <1>2, <1>8, <2>1
<1>11. /\ p = 1 => c[at] = Byte(x.w)
       /\ c[at + p] = B("8B")
       /\ c[at + p + 1] = [b |-> "ModRM", at |-> x.operand]
       /\ c[at + n - 1] = B("90")
  <2>1. \A k \in 1..n : c[at + k - 1] = b[k]
    BY <1>8 DEF Holds
  <2>2. 1 \in 1..n /\ p + 1 \in 1..n /\ p + 2 \in 1..n /\ n \in 1..n
    BY <1>2, <1>7
  <2>3. /\ c[at + 1 - 1] = b[1] /\ c[at + (p + 1) - 1] = b[p + 1]
        /\ c[at + (p + 2) - 1] = b[p + 2] /\ c[at + n - 1] = b[n]
    BY <2>1, <2>2
  <2>4. /\ at + 1 - 1 = at /\ at + (p + 1) - 1 = at + p /\ at + (p + 2) - 1 = at + p + 1
    BY <1>2
  <2>5. QED
    BY <1>2, <1>8, <1>10, <2>3, <2>4
<1>12. Lead(c, at, p, x.w)
  <2>1. CASE p = 0
    <3>1. c[at] = B("8B")
      BY <1>11, <2>1
    <3>2. QED
      BY <1>4, <2>1, <3>1 DEF Lead, B
  <2>2. CASE p = 1
    BY <1>4, <1>11, <2>2 DEF Lead
  <2>3. QED
    BY <1>2, <2>1, <2>2
<1>13. c[at + p].b = "8B" /\ c[at + p + 1].b = "ModRM" /\ c[at + p + 1].at = x.operand
  BY <1>11 DEF B
<1>14. DecodeX86(c, at) = Step("mov", x.w, x.operand, p + 2 + z, 0)
  <2>1. DecodeX86(c, at) = Step("mov", x.w, c[at + p + 1].at,
                                p + 2 + DispOf(c[at + p + 1].at), 0)
    BY <1>12, <1>13, DecodedX86
  <2>2. QED
    BY <1>3, <1>13, <2>1, Zenon
<1>15. p + 2 + z = Len(Encode(x)) - 1 /\ at + n - 1 = at + Len(Encode(x)) - 1
  <2>1. n - 1 = p + 2 + z
    BY <1>2, <1>7
  <2>2. QED
    BY <1>1, <1>7, <2>1
<1>16. QED
  BY <1>11, <1>14, <1>15 DEF Decode

\* What the assembler returns for a branch, padded or not, decodes as a branch.
LEMMA AssembledDecodes ==
    ASSUME NEW mode \in {"x86", "a64", "a32", "thumb"}, NEW b \in Assembled(mode),
           NEW n \in 2..6, ~(Len(b) > n \/ (mode # "x86" /\ Len(b) # n)),
           NEW c, NEW at \in Nat, Holds(c, at, Pad(mode, b, n))
    PROVE  Decode(c, at, mode).op \in {"jmp", "b"}
<1>1. CASE mode = "x86"
  <2>1. PICK y \in {"EB", "E9"} : IsSequence(b) /\ Len(b) >= 1 /\ b[1] = B(y)
    <3>1. CASE b = <<B("EB"), B("rel")>>
      <4>1. b \in Seq({B("EB"), B("rel")}) /\ Len(b) = 2 /\ b[1] = B("EB")
        BY <3>1
      <4>2. QED
        BY <4>1 DEF IsSequence
    <3>2. CASE b = <<B("E9")>> \o Repeat("rel", 4)
      <4>1. PICK f : f = B("E9")
        OBVIOUS
      <4>2. PICK h, t : h = <<f>> /\ t = Repeat("rel", 4)
        OBVIOUS
      <4>3. IsSequence(h) /\ Len(h) = 1 /\ h[1] = f /\ IsSequence(t) /\ Len(t) = 4
        BY <4>2, Singles, Repeated
      <4>4. Len(Cat(h, t)) = Len(h) + Len(t)
        BY <4>3, CatLength
      <4>5. \A k \in 1..Len(h) : Cat(h, t)[k] = h[k]
        BY <4>3, CatHead
      <4>6. IsSequence(Cat(h, t))
        BY <4>3, CatSequence
      <4>7. b = Cat(h, t)
        BY <3>2, <4>1, <4>2, Zenon DEF Cat
      <4>8. IsSequence(b) /\ Len(b) = 5 /\ b[1] = B("E9")
        BY <4>1, <4>3, <4>4, <4>5, <4>6, <4>7
      <4>9. QED
        BY <4>8
    <3>3. QED
      BY <1>1, <3>1, <3>2 DEF Assembled
  <2>2. PICK r, q : r = Repeat("90", n - Len(b)) /\ q = Cat(b, r)
    OBVIOUS
  <2>3. n - Len(b) \in Nat
    BY <2>1 DEF IsSequence
  <2>4. IsSequence(r)
    BY <2>2, <2>3, Repeated
  <2>5. \A k \in 1..Len(b) : q[k] = b[k]
    BY <2>1, <2>2, <2>4, CatHead
  <2>6. Len(q) = Len(b) + Len(r) /\ Len(b) \in Nat /\ Len(r) \in Nat
    BY <2>1, <2>2, <2>4, CatLength
  <2>7. q[1] = B(y) /\ Len(q) \in Nat /\ Len(q) >= 1
    BY <2>1, <2>5, <2>6
  <2>8. Pad(mode, b, n) = q
    BY <1>1, <2>2, Zenon DEF Pad, Cat
  <2>9. c[at] = B(y)
    BY <2>7, <2>8, FirstOf
  <2>10. Lead(c, at, 0, 32)
    BY <2>9 DEF Lead, B
  <2>11. c[at + 0].b = y
    <3>1. at + 0 = at
      OBVIOUS
    <3>2. QED
      BY <2>9, <3>1 DEF B
  <2>12. \/ DecodeX86(c, at) = Step("jmp", 32, "none", 2, 0)
         \/ DecodeX86(c, at) = Step("jmp", 32, "none", 5, 0)
    BY <2>10, <2>11, DecodedX86
  <2>13. QED
    BY <1>1, <2>12 DEF Decode, Step
<1>2. CASE mode # "x86"
  <2>1. Pad(mode, b, n) = b
    BY <1>2 DEF Pad
  <2>2. PICK w \in {16, 32}, k \in {2, 4} :
           /\ b = FixedWidth(Instruction(mode, "b", w, "none"), k)
    BY <1>2 DEF Assembled
  <2>3. PICK y : y = Instruction(mode, "b", w, "none")
    OBVIOUS
  <2>4. b[1] = [b |-> "word", is |-> y] /\ Len(b) = k
    BY <2>2, <2>3, WordAt, Words
  <2>5. c[at] = [b |-> "word", is |-> y]
    BY <2>1, <2>4, FirstOf
  <2>6. c[at].b = "word" /\ c[at].is = y /\ y.op = "b" /\ y.mode = mode
    BY <2>3, <2>5 DEF Instruction
  <2>7. QED
    BY <1>2, <2>6 DEF Decode, DecodeArm, Step
<1>3. QED
  BY <1>1, <1>2

\* A word of the Arm modes.
LEMMA WordDecodes ==
    ASSUME NEW mode \in {"a64", "a32", "thumb"}, NEW y, y.mode = mode, NEW k \in {2, 4},
           NEW c, NEW at \in Nat, Holds(c, at, FixedWidth(y, k)),
           k = (IF mode = "thumb" /\ y.w = 16 THEN 2 ELSE 4)
    PROVE  Decode(c, at, mode) = Step(y.op, y.w, y.operand, k, 0)
<1>1. PICK b : b = FixedWidth(y, k) /\ Len(b) = k /\ b[1] = [b |-> "word", is |-> y]
  BY WordAt, Words
<1>2. c[at] = [b |-> "word", is |-> y]
  BY <1>1, FirstOf
<1>3. c[at].b = "word" /\ c[at].is = y
  BY <1>2
<1>4. QED
  BY <1>3 DEF Decode, DecodeArm

\* Nothing but NOPs, in the modes of Arm one of them.
LEMMA NopsExecute ==
    ASSUME NEW x \in Conditional, NEW v \in BOOLEAN, NEW s \in State, s.pc \in 0..10,
           MnemonicKind(x) \in {"Jcc", "CMovCc"},
           NEW c, Holds(c, s.pc, Nop(x.mode, Len(Encode(x)))),
           NEW t \in State, t.regs = s.regs, t.mem = s.mem, t.pc = s.pc + Len(Encode(x))
    PROVE  Follows(x, c, s.pc, t, Execute(Decode(c, s.pc, x.mode), s, v))
<1>1. PICK n \in 2..6 : n = Len(Encode(x))
  BY EncodedShort
<1>2. PICK at \in 0..10 : at = s.pc
  OBVIOUS
<1>3. PICK u : u = Execute(Decode(c, at, x.mode), s, v)
  OBVIOUS
<1>4. CASE x.mode = "x86"
  <2>1. \A k \in 1..n : c[at + k - 1] = B("90")
    <3>1. PICK b : b = Nop("x86", n) /\ Len(b) = n /\ \A k \in 1..n : b[k] = B("90")
      BY RepeatedAt, Repeated DEF Nop
    <3>2. QED
      BY <1>1, <1>2, <1>4, <3>1 DEF Holds
  <2>2. \A a \in at..(at + n - 1) : c[a] = B("90")
    <3> TAKE a \in at..(at + n - 1)
    <3>1. a - at + 1 \in 1..n /\ at + (a - at + 1) - 1 = a
      OBVIOUS
    <3>2. QED
      BY <2>1, <3>1
  <2>3. Decode(c, at, "x86") = Step("nop", 32, "none", 1, 0)
    <3>1. c[at] = B("90")
      BY <2>2
    <3>2. QED
      BY <3>1, NopDecodes
  <2>4. u = [s EXCEPT !.pc = at + 1]
    <3>1. PICK d : d = Step("nop", 32, "none", 1, 0)
      OBVIOUS
    <3>2. d.op = "nop" /\ d.len = 1
      BY <3>1 DEF Step
    <3>3. Execute(d, s, v) = [s EXCEPT !.pc = at + 1]
      BY <1>2, <3>2, Executed
    <3>4. QED
      BY <1>3, <1>4, <2>3, <3>1, <3>3, Zenon
  <2>5. u \in State /\ u.pc = at + 1 /\ u.regs = s.regs /\ u.mem = s.mem
    <3>1. at + 1 \in Nat
      OBVIOUS
    <3>2. QED
      BY <2>4, <3>1, Stepped
  <2>6. Sled(c, at + 1, at + n)
    BY <2>2 DEF Sled
  <2>7. at + 1 \in (at + 1)..(at + n - 1)
    OBVIOUS
  <2>8. Follows(x, c, at, t, u)
    BY <1>1, <1>2, <1>4, <2>5, <2>6, <2>7 DEF Follows
  <2>9. QED
    BY <1>2, <1>3, <2>8
<1>5. CASE x.mode # "x86"
  <2>1. /\ x.mode \in {"a64", "a32", "thumb"}
        /\ x.op = "cbz" => x.mode = "a64"
        /\ x.op \in {"bcc", "cbz"} /\ (x.mode = "thumb" => x.w = 16)
    BY <1>5 DEF MnemonicKind, Conditional, Form, Selects
  <2>2. n = (IF x.mode = "thumb" THEN 2 ELSE 4)
    <3>1. CASE x.mode = "thumb"
      <4>1. Encode(x) = FixedWidth(x, 2)
        BY <2>1, <3>1 DEF Encode
      <4>2. QED
        BY <1>1, <3>1, <4>1, Words
    <3>2. CASE x.mode # "thumb"
      BY <1>1, <2>1, <3>2, Encoded
    <3>3. QED
      BY <3>1, <3>2
  <2>3. PICK w \in {16, 32} : /\ w = (IF x.mode = "thumb" THEN 16 ELSE 32)
    OBVIOUS
  <2>4. PICK y : y = Instruction(x.mode, "nop", w, "none")
    OBVIOUS
  <2>5. Nop(x.mode, n) = FixedWidth(y, n)
    <3>1. CASE x.mode = "thumb"
      BY <2>2, <2>3, <2>4, <3>1 DEF Nop
    <3>2. CASE x.mode # "thumb"
      BY <1>5, <2>1, <2>2, <2>3, <2>4, <3>2 DEF Nop
    <3>3. QED
      BY <3>1, <3>2
  <2>6. y.mode = x.mode /\ y.op = "nop" /\ y.w = w /\ y.operand = "none"
    BY <2>4 DEF Instruction
  <2>7. Decode(c, at, x.mode) = Step("nop", w, "none", n, 0)
    <3>1. Holds(c, at, FixedWidth(y, n)) /\ n \in {2, 4} /\ at \in Nat
      BY <1>1, <1>2, <2>2, <2>5
    <3>2. n = (IF x.mode = "thumb" /\ y.w = 16 THEN 2 ELSE 4)
      BY <2>2, <2>3, <2>6
    <3>3. QED
      BY <2>1, <2>6, <3>1, <3>2, WordDecodes
  <2>8. u = [s EXCEPT !.pc = at + n]
    <3>1. PICK d : d = Step("nop", w, "none", n, 0)
      OBVIOUS
    <3>2. d.op = "nop" /\ d.len = n
      BY <3>1 DEF Step
    <3>3. Execute(d, s, v) = [s EXCEPT !.pc = at + n]
      BY <1>2, <3>2, Executed
    <3>4. QED
      BY <1>3, <2>7, <3>1, <3>3, Zenon
  <2>9. at + n \in Nat
    OBVIOUS
  <2>10. u \in State /\ u.pc = at + n /\ u.regs = s.regs /\ u.mem = s.mem
    BY <2>8, <2>9, Stepped
  <2>11. Follows(x, c, at, t, u)
    BY <1>1, <1>2, <2>10 DEF Follows
  <2>12. QED
    BY <1>2, <1>3, <2>11
<1>6. QED
  BY <1>4, <1>5

\* A conditional branch that is never taken, and one that always is.
LEMMA BranchExecutes ==
    ASSUME NEW x \in Conditional, NEW v \in BOOLEAN, NEW s \in State, s.pc \in 0..10,
           x.op \in {"jcc", "bcc", "cbz", "bcc.w"}
    PROVE  LET t == Execute(Meaning(x), s, v) IN
           /\ t \in State /\ t.regs = s.regs /\ t.mem = s.mem
           /\ t.pc = IF v THEN Exit ELSE s.pc + Len(Encode(x))
<1>1. PICK n \in 2..6 : n = Len(Encode(x))
  BY EncodedShort
<1>2. PICK at \in 0..10 : at = s.pc
  OBVIOUS
<1>3. PICK d : d = Meaning(x)
  OBVIOUS
<1>4. d.op = x.op /\ d.len = n
  BY <1>1, <1>3 DEF Meaning, Step, Conditional, Form, Selects
<1>5. PICK next \in Nat : next = at + n
  <2>1. at + n \in Nat
    OBVIOUS
  <2>2. QED
    BY <2>1
<1>6. Execute(d, s, v) = [s EXCEPT !.pc = IF v THEN Exit ELSE next]
  BY <1>2, <1>4, <1>5, Executed
<1>7. PICK q \in Nat : q = IF v THEN Exit ELSE next
  BY DEF Exit
<1>8. PICK t : t = [s EXCEPT !.pc = q]
  OBVIOUS
<1>9. t \in State /\ t.pc = q /\ t.regs = s.regs /\ t.mem = s.mem
  BY <1>8, Stepped
<1>10. t = Execute(Meaning(x), s, v)
  BY <1>3, <1>6, <1>7, <1>8
<1>11. QED
  BY <1>1, <1>2, <1>5, <1>7, <1>9, <1>10

\* The branch that takes the place of one that is always taken.
LEMMA JumpExecutes ==
    ASSUME NEW x \in Conditional, NEW v \in BOOLEAN, NEW s \in State, s.pc \in 0..10,
           MnemonicKind(x) = "Jcc", NEW b \in Assembled(x.mode),
           ~(Len(b) > Len(Encode(x)) \/ (x.mode # "x86" /\ Len(b) # Len(Encode(x)))),
           NEW c, Holds(c, s.pc, Pad(x.mode, b, Len(Encode(x))))
    PROVE  v => Follows(x, c, s.pc, Execute(Meaning(x), s, v),
                        Execute(Decode(c, s.pc, x.mode), s, v))
<1>1. PICK n \in 2..6 : n = Len(Encode(x))
  BY EncodedShort
<1>2. PICK at \in Nat : at = s.pc /\ at \in 0..10
  OBVIOUS
<1>3. x.op \in {"jcc", "bcc", "cbz"} /\ x.mode \in {"x86", "a64", "a32", "thumb"}
  BY DEF MnemonicKind, Conditional, Form, Selects
<1>4. PICK d : d = Decode(c, at, x.mode) /\ d.op \in {"jmp", "b"}
  <2>1. ~(Len(b) > n \/ (x.mode # "x86" /\ Len(b) # n))
    BY <1>1
  <2>2. Holds(c, at, Pad(x.mode, b, n))
    BY <1>1, <1>2
  <2>3. QED
    BY <1>3, <2>1, <2>2, AssembledDecodes
<1>5. PICK u : u = [s EXCEPT !.pc = Exit]
  OBVIOUS
<1>6. Execute(d, s, v) = u
  <2>1. d.op \in {"jmp", "b"}
    BY <1>4
  <2>2. Execute(d, s, v) = [s EXCEPT !.pc = Exit]
    BY <2>1, ExecutedJump
  <2>3. QED
    BY <1>5, <2>2
<1>7. u \in State /\ u.pc = Exit /\ u.regs = s.regs /\ u.mem = s.mem
  BY <1>5, Stepped DEF Exit
<1>8. PICK t : t = Execute(Meaning(x), s, v)
  OBVIOUS
<1>9. v => t \in State /\ t.regs = s.regs /\ t.mem = s.mem /\ t.pc = Exit
  BY <1>3, <1>8, BranchExecutes
<1>10. v => Follows(x, c, at, t, u)
  BY <1>7, <1>9 DEF Follows
<1>11. QED
  BY <1>2, <1>4, <1>6, <1>8, <1>10

\* The store that takes the place of SETcc.
LEMMA SetccExecutes ==
    ASSUME NEW x \in Conditional, x.op = "setcc", NEW v \in BOOLEAN,
           NEW s \in State, s.pc \in 0..10,
           NEW b, b = PatchSetcc(Encode(x), v), b # <<>>,
           NEW c, Holds(c, s.pc, b)
    PROVE  Follows(x, c, s.pc, Execute(Meaning(x), s, v),
                   Execute(Decode(c, s.pc, x.mode), s, v))
<1>1. PICK n \in 2..6 : n = Len(Encode(x))
  BY EncodedShort
<1>2. PICK at \in Nat : at = s.pc /\ at \in 0..10
  OBVIOUS
<1>3. x.mode = "x86" /\ x.op # "jcc" /\ x.op # "cmov"
  BY DEF Conditional, Form, Selects
<1>4. PICK k \in Word : k = IF v THEN 1 ELSE 0
  BY DEF Word
<1>5. PICK d, e : d = Meaning(x) /\ e = Step("store", 8, x.operand, n, k)
  OBVIOUS
<1>6. /\ d.op = "setcc" /\ d.len = n /\ d.operand = x.operand
      /\ e.op = "store" /\ e.len = n /\ e.operand = x.operand /\ e.imm = k
  BY <1>1, <1>3, <1>5 DEF Meaning, Step
<1>7. Decode(c, at, x.mode) = e
  BY <1>1, <1>2, <1>3, <1>4, <1>5, SetccDecodes
<1>8. PICK next \in 0..23 : next = at + n
  <2>1. at + n \in 0..23
    <3>1. at >= 0 /\ at <= 10 /\ n >= 2 /\ n <= 6
      BY <1>2
    <3>2. QED
      BY <3>1
  <2>2. QED
    BY <2>1
<1>9. Execute(d, s, v) = WriteRM(d, s, next, k)
  BY <1>2, <1>4, <1>6, <1>8, Executed
<1>10. Execute(e, s, v) = WriteRM(e, s, next, k)
  BY <1>2, <1>6, <1>8, Executed
<1>11. WriteRM(d, s, next, k) = WriteRM(e, s, next, k)
  <2>1. Address(d, next) = Address(e, next) /\ d.operand = e.operand
    BY <1>6 DEF Address
  <2>2. QED
    BY <2>1, Zenon DEF WriteRM
<1>12. PICK t : t = WriteRM(d, s, next, k) /\ t \in State /\ t.pc = next
  BY Stored
<1>13. Follows(x, c, at, t, t)
  BY <1>1, <1>8, <1>12 DEF Follows
<1>14. QED
  BY <1>2, <1>5, <1>7, <1>9, <1>10, <1>11, <1>12, <1>13, Zenon

\* What a conditional move reads, away from the instruction pointer, does not
\* depend on where the next instruction is.
LEMMA SourceIsWord ==
    ASSUME NEW d, NEW s \in State, NEW next \in 0..23
    PROVE  Source(d, s, next) \in Word
<1>1. Address(d, next) \in Memory
  BY DEF Address, Memory
<1>2. QED
  BY <1>1 DEF Source, State, Registers

\* The move that takes the place of CMOVcc.
LEMMA MoveExecutes ==
    ASSUME NEW x \in Conditional, x.op = "cmov", x.operand # "rip",
           NEW v \in BOOLEAN, NEW s \in State, s.pc \in 0..10,
           NEW b, b = PatchCmov(Encode(x)), b # <<>>,
           NEW c, Holds(c, s.pc, b)
    PROVE  v => Follows(x, c, s.pc, Execute(Meaning(x), s, v),
                        Execute(Decode(c, s.pc, x.mode), s, v))
<1>1. PICK n \in 2..6 : n = Len(Encode(x))
  BY EncodedShort
<1>2. PICK at \in 0..10 : at = s.pc
  OBVIOUS
<1>3. x.mode = "x86" /\ x.op # "jcc" /\ x.w \in Widths /\ n >= 3
  BY <1>1, Encoded DEF Conditional, Form, Selects, Widths
<1>4. PICK d, e : d = Meaning(x) /\ e = Step("mov", x.w, x.operand, n - 1, 0)
  OBVIOUS
<1>5. /\ d.op = "cmov" /\ d.len = n /\ d.operand = x.operand /\ d.w = x.w
      /\ e.op = "mov" /\ e.len = n - 1 /\ e.operand = x.operand /\ e.w = x.w
  BY <1>1, <1>3, <1>4 DEF Meaning, Step
<1>6. at \in Nat
  OBVIOUS
<1>7. Decode(c, at, x.mode) = e /\ c[at + n - 1] = B("90")
  BY <1>1, <1>2, <1>3, <1>4, <1>6, CmovDecodes
<1>8. PICK next \in 0..23, prev \in 0..23 : next = at + n /\ prev = at + (n - 1) /\ next = prev + 1
  <2>1. at + n \in 0..23 /\ at + (n - 1) \in 0..23 /\ at + n = at + (n - 1) + 1
    OBVIOUS
  <2>2. QED
    BY <2>1
<1>9. PICK q \in Word : q = Source(d, s, next)
  BY SourceIsWord
<1>10. q = Source(e, s, prev)
  <2>1. Address(d, next) = 0 /\ Address(e, prev) = 0 /\ d.operand = e.operand
    BY <1>5 DEF Address
  <2>2. QED
    BY <1>9, <2>1, Zenon DEF Source
<1>11. v => Execute(d, s, v) = Assign(s, "r0", q, x.w, next)
  <2>1. d.op = "cmov" /\ next = s.pc + d.len
    BY <1>2, <1>5, <1>8
  <2>2. v => Execute(d, s, v) = Assign(s, "r0", Source(d, s, next), d.w, next)
    BY <2>1, ExecutedMove
  <2>3. QED
    BY <1>5, <1>9, <2>2
<1>12. Execute(e, s, v) = Assign(s, "r0", q, x.w, prev)
  BY <1>2, <1>5, <1>8, <1>10, ExecutedMove
<1>13. next \in Nat /\ prev \in Nat /\ "r0" \in Names
  BY DEF Names
<1>14. PICK t : /\ t = Assign(s, "r0", q, x.w, next) /\ t \in State /\ t.pc = next
                /\ t.mem = s.mem /\ t.regs = RegistersAfter(s, "r0", q, x.w)
  BY <1>3, <1>13, Assigned
<1>15. PICK u : /\ u = Assign(s, "r0", q, x.w, prev) /\ u \in State /\ u.pc = prev
                /\ u.mem = s.mem /\ u.regs = RegistersAfter(s, "r0", q, x.w)
  BY <1>3, <1>13, Assigned
<1>16. Sled(c, prev, next)
  <2>1. at + n - 1 = prev
    BY <1>8
  <2>2. \A a \in prev..(next - 1) : a = prev
    BY <1>8
  <2>3. QED
    BY <1>7, <2>1, <2>2 DEF Sled
<1>17. prev \in (at + 1)..(next - 1)
  BY <1>3, <1>8
<1>18. Follows(x, c, at, t, u)
  BY <1>1, <1>3, <1>8, <1>14, <1>15, <1>16, <1>17 DEF Follows
<1>19. QED
  BY <1>2, <1>4, <1>7, <1>11, <1>12, <1>14, <1>15, <1>18, Zenon

\* A conditional move that never happens leaves all as it was, unless it has
\* an upper half to clear.
LEMMA NoMoveExecutes ==
    ASSUME NEW x \in Conditional, x.op = "cmov", x.w # 32,
           NEW v \in BOOLEAN, NEW s \in State, s.pc \in 0..10
    PROVE  ~v =>
           LET t == Execute(Meaning(x), s, v) IN
           /\ t \in State /\ t.regs = s.regs /\ t.mem = s.mem
           /\ t.pc = s.pc + Len(Encode(x))
<1>1. PICK n \in 2..6 : n = Len(Encode(x))
  BY EncodedShort
<1>2. PICK at \in 0..10 : at = s.pc
  OBVIOUS
<1>3. x.mode = "x86" /\ x.op # "jcc" /\ x.w \in Widths /\ x.w \in {16, 64}
  BY DEF Conditional, Form, Selects, Widths
<1>4. PICK d : d = Meaning(x)
  OBVIOUS
<1>5. d.op = "cmov" /\ d.len = n /\ d.w = x.w
  BY <1>1, <1>3, <1>4 DEF Meaning, Step
<1>6. PICK next \in Nat : next = at + n
  <2>1. at + n \in Nat
    OBVIOUS
  <2>2. QED
    BY <2>1
<1>7. PICK q \in Word : q = s.regs["r0"]
  BY DEF State, Registers
<1>8. ~v => Execute(d, s, v) = Assign(s, "r0", q, x.w, next)
  BY <1>2, <1>5, <1>6, <1>7, ExecutedMove
<1>9. "r0" \in Names
  BY DEF Names
<1>10. PICK t : /\ t = Assign(s, "r0", q, x.w, next) /\ t \in State /\ t.pc = next
                /\ t.mem = s.mem /\ t.regs = RegistersAfter(s, "r0", q, x.w)
  BY <1>3, <1>9, Assigned
<1>11. RegistersAfter(s, "r0", q, x.w) = s.regs
  <2>1. Merge(q, q, x.w) = q
    BY <1>3, Halves DEF Merge, View
  <2>2. RegistersAfter(s, "r0", q, x.w) = [s.regs EXCEPT !["r0"] = s.regs["r0"]]
    BY <1>7, <2>1 DEF RegistersAfter
  <2>3. s.regs \in [Registers -> Word]
    BY DEF State
  <2>4. QED
    BY <2>2, <2>3
<1>12. QED
  BY <1>1, <1>2, <1>4, <1>6, <1>8, <1>10, <1>11, Zenon

\* The narrow view of a result is that of the result of narrow operands.
LEMMA Views ==
    ASSUME NEW m \in Word, NEW w \in {32, 64}
    PROVE  /\ View(View(m, w), w) = View(m, w)
           /\ View((View(m, w) + 1) % 16, w) = View((m + 1) % 16, w)
           /\ View(15 - View(m, w), w) = View(15 - m, w)
           /\ View((16 - View(m, w)) % 16, w) = View((16 - m) % 16, w)
<1>1. \A k \in 0..15 : /\ (((k % 4) + 1) % 16) % 4 = ((k + 1) % 16) % 4
                       /\ (15 - (k % 4)) % 4 = (15 - k) % 4
                       /\ ((16 - (k % 4)) % 16) % 4 = ((16 - k) % 16) % 4
                       /\ (k % 4) % 4 = k % 4
  OBVIOUS
<1>2. CASE w = 64
  BY <1>2 DEF View
<1>3. CASE w = 32
  <2>1. \A k : View(k, w) = k % 4
    BY <1>3 DEF View
  <2>2. m \in 0..15
    BY DEF Word
  <2>3. QED
    BY <1>1, <2>1, <2>2
<1>4. QED
  BY <1>2, <1>3

\* An assignment of as much of a value as the width takes.
LEMMA SameAfter ==
    ASSUME NEW s \in State, NEW m \in Word, NEW n \in Word, NEW w \in {32, 64}, NEW r,
           View(m, w) = View(n, w)
    PROVE  RegistersAfter(s, r, m, w) = RegistersAfter(s, r, n, w)
<1>1. \A o : Merge(o, m, w) = Merge(o, n, w)
  BY DEF Merge
<1>2. Merge(s.regs[r], m, w) = Merge(s.regs[r], n, w)
  BY <1>1
<1>3. QED
  BY <1>2, Zenon DEF RegistersAfter

\* A conditional select writes the arm its condition selects.
LEMMA ExecutedSelect ==
    ASSUME NEW d, NEW s, NEW c \in BOOLEAN, NEW next, next = s.pc + d.len, d.op \in Selects
    PROVE  Execute(d, s, c) = Assign(s, d.operand[1], Selected(d, s, c), d.w, next)
BY Executed

\* What the instruction in the place of a conditional select writes.
ValueOf(e, s) ==
    CASE e.op = "mov_imm" -> e.operand[2]
      [] e.op = "mov_reg" -> Read(s.regs, e.operand[2])
      [] e.op = "add_one" -> (Read(s.regs, e.operand[2]) + 1) % 16
      [] e.op = "mvn" -> 15 - Read(s.regs, e.operand[2])
      [] e.op = "neg" -> (16 - Read(s.regs, e.operand[2])) % 16

Arithmetic == {"mov_imm", "mov_reg", "add_one", "mvn", "neg"}

\* What takes its place writes its value.
LEMMA ExecutedArithmetic ==
    ASSUME NEW d, NEW s, NEW c \in BOOLEAN, NEW next, next = s.pc + d.len, d.op \in Arithmetic
    PROVE  Execute(d, s, c) = Assign(s, d.operand[1], ValueOf(d, s), d.w, next)
<1>1. CASE d.op = "mov_imm"
  BY <1>1, Executed DEF ValueOf
<1>2. CASE d.op = "mov_reg"
  BY <1>2, Executed DEF ValueOf
<1>3. CASE d.op = "add_one"
  BY <1>3, Executed DEF ValueOf
<1>4. CASE d.op = "mvn"
  BY <1>4, Executed DEF ValueOf
<1>5. CASE d.op = "neg"
  BY <1>5, Executed DEF ValueOf
<1>6. QED
  BY <1>1, <1>2, <1>3, <1>4, <1>5 DEF Arithmetic

\* The arm that is taken, whatever the form.
LEMMA SelectWrites ==
    ASSUME NEW x \in Conditional, x.op \in Selects \ {"cinc", "cinv", "cneg"},
           NEW v \in BOOLEAN, NEW s \in State, NEW y, y = SelectAsm(x, v),
           NEW d, d.op = x.op, d.operand = x.operand, d.w = x.w
    PROVE  /\ y.mode = x.mode /\ y.w = x.w /\ y.op \in Arithmetic
           /\ y.operand[1] = x.operand[1]
           /\ ValueOf(y, s) \in Word
           /\ View(Selected(d, s, v), x.w) = View(ValueOf(y, s), x.w)
<1>1. x.w \in {32, 64} /\ x.operand \in Names \X Names \X Names
  BY DEF Conditional, Form, Selects
<1>2. PICK r1 \in Names, r2 \in Names, r3 \in Names :
         r1 = x.operand[1] /\ r2 = x.operand[2] /\ r3 = x.operand[3]
  BY <1>1
<1>3. PICK n \in Word, m \in Word : n = Read(s.regs, r2) /\ m = Read(s.regs, r3)
  BY ReadIsWord
<1>4. PICK w \in {32, 64} : w = x.w
  BY <1>1
<1>5. CASE x.op \in {"cset", "csetm"}
  <2>1. PICK k \in Word : k = IF v THEN (IF x.op = "cset" THEN 1 ELSE 15) ELSE 0
    BY DEF Word
  <2>2. y = Instruction(x.mode, "mov_imm", x.w, <<r1, k>>)
    BY <1>2, <1>5, <2>1 DEF SelectAsm
  <2>3. /\ y.mode = x.mode /\ y.w = x.w /\ y.op = "mov_imm"
        /\ y.operand[1] = r1 /\ y.operand[2] = k
    BY <2>2 DEF Instruction
  <2>4. ValueOf(y, s) = k
    BY <2>3 DEF ValueOf
  <2>5. Selected(d, s, v) = k
    BY <1>5, <2>1 DEF Selected
  <2>6. QED
    BY <1>2, <2>3, <2>4, <2>5 DEF Arithmetic
<1>6. CASE x.op = "csel" \/ (v /\ x.op \in {"csinc", "csinv", "csneg"})
  <2>1. PICK r \in Names : r = IF v THEN r2 ELSE r3
    OBVIOUS
  <2>2. y = Instruction(x.mode, "mov_reg", x.w, <<r1, r>>)
    BY <1>2, <1>6, <2>1 DEF SelectAsm, SelectSource
  <2>3. /\ y.mode = x.mode /\ y.w = x.w /\ y.op = "mov_reg"
        /\ y.operand[1] = r1 /\ y.operand[2] = r
    BY <2>2 DEF Instruction
  <2>4. PICK k \in Word : k = Read(s.regs, r)
    BY ReadIsWord
  <2>5. ValueOf(y, s) = k
    BY <2>3, <2>4 DEF ValueOf
  <2>6. Selected(d, s, v) = View(k, w)
    BY <1>2, <1>4, <1>6, <2>1, <2>4 DEF Selected
  <2>7. View(View(k, w), w) = View(k, w)
    BY Views
  <2>8. QED
    BY <1>2, <1>4, <2>3, <2>5, <2>6, <2>7 DEF Arithmetic
<1>7. CASE ~v /\ x.op \in {"csinc", "csinv", "csneg"}
  <2>1. PICK o : o = (CASE x.op = "csinc" -> "add_one" [] x.op = "csinv" -> "mvn"
                        [] x.op = "csneg" -> "neg")
    OBVIOUS
  <2>2. y = Instruction(x.mode, o, x.w, <<r1, r3>>)
    BY <1>2, <1>7, <2>1 DEF SelectAsm
  <2>3. /\ y.mode = x.mode /\ y.w = x.w /\ y.op = o
        /\ y.operand[1] = r1 /\ y.operand[2] = r3
    BY <2>2 DEF Instruction
  <2>4. CASE x.op = "csinc"
    <3>1. ValueOf(y, s) = (m + 1) % 16 /\ o = "add_one"
      BY <1>3, <2>1, <2>3, <2>4 DEF ValueOf
    <3>2. Selected(d, s, v) = (View(m, w) + 1) % 16
      BY <1>2, <1>3, <1>4, <1>7, <2>4 DEF Selected
    <3>3. View((View(m, w) + 1) % 16, w) = View((m + 1) % 16, w) /\ (m + 1) % 16 \in Word
      BY Views, Numbers
    <3>4. QED
      BY <1>2, <1>4, <2>3, <3>1, <3>2, <3>3 DEF Arithmetic
  <2>5. CASE x.op = "csinv"
    <3>1. ValueOf(y, s) = 15 - m /\ o = "mvn"
      BY <1>3, <2>1, <2>3, <2>5 DEF ValueOf
    <3>2. Selected(d, s, v) = 15 - View(m, w)
      BY <1>2, <1>3, <1>4, <1>7, <2>5 DEF Selected
    <3>3. View(15 - View(m, w), w) = View(15 - m, w) /\ 15 - m \in Word
      BY Views, Numbers
    <3>4. QED
      BY <1>2, <1>4, <2>3, <3>1, <3>2, <3>3 DEF Arithmetic
  <2>6. CASE x.op = "csneg"
    <3>1. ValueOf(y, s) = (16 - m) % 16 /\ o = "neg"
      BY <1>3, <2>1, <2>3, <2>6 DEF ValueOf
    <3>2. Selected(d, s, v) = (16 - View(m, w)) % 16
      BY <1>2, <1>3, <1>4, <1>7, <2>6 DEF Selected
    <3>3. View((16 - View(m, w)) % 16, w) = View((16 - m) % 16, w) /\ (16 - m) % 16 \in Word
      BY Views, Numbers
    <3>4. QED
      BY <1>2, <1>4, <2>3, <3>1, <3>2, <3>3 DEF Arithmetic
  <2>7. QED
    BY <1>7, <2>4, <2>5, <2>6
<1>8. QED
  BY <1>5, <1>6, <1>7 DEF Selects

\* The instruction that takes the place of a conditional select.
LEMMA SelectExecutes ==
    ASSUME NEW x \in Conditional, x.op \in Selects \ {"cinc", "cinv", "cneg"},
           NEW v \in BOOLEAN, NEW s \in State, s.pc \in 0..10,
           NEW c, Holds(c, s.pc, FixedWidth(SelectAsm(x, v), 4))
    PROVE  Follows(x, c, s.pc, Execute(Meaning(x), s, v),
                   Execute(Decode(c, s.pc, x.mode), s, v))
<1>1. x.mode = "a64" /\ x.w \in {32, 64} /\ x.operand \in Names \X Names \X Names
  BY DEF Conditional, Form, Selects
<1>2. Len(Encode(x)) = 4
  BY <1>1, Encoded
<1>3. PICK at \in 0..10 : at = s.pc
  OBVIOUS
<1>4. PICK y, d, e : /\ y = SelectAsm(x, v) /\ d = Meaning(x)
                     /\ e = Step(y.op, y.w, y.operand, 4, 0)
  OBVIOUS
<1>5. d.op = x.op /\ d.len = 4 /\ d.operand = x.operand /\ d.w = x.w
  BY <1>1, <1>2, <1>4 DEF Meaning, Step, Selects
<1>6. /\ y.mode = x.mode /\ y.w = x.w /\ y.op \in Arithmetic
      /\ y.operand[1] = x.operand[1]
      /\ ValueOf(y, s) \in Word
      /\ View(Selected(d, s, v), x.w) = View(ValueOf(y, s), x.w)
  BY <1>4, <1>5, SelectWrites
<1>7. Decode(c, at, x.mode) = e
  <2>1. Holds(c, at, FixedWidth(y, 4)) /\ y.mode = "a64" /\ at \in Nat
    BY <1>1, <1>3, <1>4, <1>6
  <2>2. Decode(c, at, "a64") = Step(y.op, y.w, y.operand, 4, 0)
    BY <2>1, WordDecodes
  <2>3. QED
    BY <1>1, <1>4, <2>2
<1>8. /\ e.op = y.op /\ e.len = 4 /\ e.operand = y.operand /\ e.w = x.w
      /\ ValueOf(e, s) = ValueOf(y, s)
  BY <1>4, <1>6 DEF Step, ValueOf
<1>9. PICK next \in Nat : next = at + 4
  <2>1. at + 4 \in Nat
    OBVIOUS
  <2>2. QED
    BY <2>1
<1>10. PICK m \in Word, n \in Word, r \in Names, w \in {32, 64} :
          m = Selected(d, s, v) /\ n = ValueOf(y, s) /\ r = x.operand[1] /\ w = x.w
  <2>1. Selected(d, s, v) \in Word
    BY <1>1, <1>5, SelectedIsWord
  <2>2. QED
    BY <1>1, <1>6, <2>1
<1>11. Execute(d, s, v) = Assign(s, r, m, w, next)
  <2>1. d.op \in Selects /\ next = s.pc + d.len
    BY <1>3, <1>5, <1>9
  <2>2. Execute(d, s, v) = Assign(s, d.operand[1], Selected(d, s, v), d.w, next)
    BY <2>1, ExecutedSelect
  <2>3. QED
    BY <1>5, <1>10, <2>2
<1>12. Execute(e, s, v) = Assign(s, r, n, w, next)
  <2>1. e.op \in Arithmetic /\ next = s.pc + e.len
    BY <1>3, <1>6, <1>8, <1>9
  <2>2. Execute(e, s, v) = Assign(s, e.operand[1], ValueOf(e, s), e.w, next)
    BY <2>1, ExecutedArithmetic
  <2>3. QED
    BY <1>6, <1>8, <1>10, <2>2
<1>18. w \in Widths
  BY DEF Widths
<1>13. PICK t : /\ t = Assign(s, r, m, w, next) /\ t \in State /\ t.pc = next
                /\ t.mem = s.mem /\ t.regs = RegistersAfter(s, r, m, w)
  BY <1>18, Assigned
<1>14. PICK u : /\ u = Assign(s, r, n, w, next) /\ u \in State /\ u.pc = next
                /\ u.mem = s.mem /\ u.regs = RegistersAfter(s, r, n, w)
  BY <1>18, Assigned
<1>15. RegistersAfter(s, r, m, w) = RegistersAfter(s, r, n, w)
  BY <1>6, <1>10, SameAfter
<1>16. Follows(x, c, at, t, u)
  BY <1>2, <1>9, <1>13, <1>14, <1>15 DEF Follows
<1>17. QED
  BY <1>3, <1>4, <1>7, <1>11, <1>12, <1>13, <1>14, <1>16, Zenon

\* The bytes where an instruction was, rewritten or not, take a processor
\* where the instruction takes it.
LEMMA Simulates ==
    ASSUME NEW x \in Conditional, NEW v \in BOOLEAN, ~DivergentForm(x, v),
           NEW s \in State, s.pc \in 0..10,
           NEW b, b = Encode(x) \/ Replaces(x, v, b),
           NEW c, Holds(c, s.pc, b)
    PROVE  Follows(x, c, s.pc, Execute(Meaning(x), s, v),
                   Execute(Decode(c, s.pc, x.mode), s, v))
<1>1. PICK at \in Nat : at = s.pc /\ at \in 0..10
  OBVIOUS
<1>2. PICK n \in 2..6 : n = Len(Encode(x))
  BY EncodedShort
<1>3. PICK t : t = Execute(Meaning(x), s, v)
  OBVIOUS
<1>4. CASE b = Encode(x)
  <2>1. Decode(c, at, x.mode) = Meaning(x)
    BY <1>1, <1>4, EncodedDecodes
  <2>2. t \in State /\ t.pc \in {at + n, Exit}
    BY <1>1, <1>2, <1>3, EncodedExecutes
  <2>3. Follows(x, c, at, t, t)
    BY <1>2, <2>2 DEF Follows
  <2>4. QED
    BY <1>1, <1>3, <2>1, <2>3
<1>5. CASE MnemonicKind(x) = "Jcc" /\ ~v /\ b = Nop(x.mode, n)
  <2>1. x.op \in {"jcc", "bcc", "cbz", "bcc.w"}
    BY <1>5 DEF MnemonicKind
  <2>2. t \in State /\ t.regs = s.regs /\ t.mem = s.mem /\ t.pc = s.pc + Len(Encode(x))
    BY <1>3, <1>5, <2>1, BranchExecutes
  <2>3. Holds(c, s.pc, Nop(x.mode, Len(Encode(x))))
    BY <1>2, <1>5
  <2>4. Follows(x, c, s.pc, t, Execute(Decode(c, s.pc, x.mode), s, v))
    BY <1>5, <2>2, <2>3, NopsExecute
  <2>5. QED
    BY <1>3, <2>4
<1>6. CASE /\ MnemonicKind(x) = "Jcc" /\ v
           /\ \E a \in Assembled(x.mode) :
                /\ ~(Len(a) > n \/ (x.mode # "x86" /\ Len(a) # n))
                /\ b = Pad(x.mode, a, n)
  <2>1. PICK a \in Assembled(x.mode) :
           /\ ~(Len(a) > n \/ (x.mode # "x86" /\ Len(a) # n))
           /\ b = Pad(x.mode, a, n)
    BY <1>6
  <2>2. /\ ~(Len(a) > Len(Encode(x)) \/ (x.mode # "x86" /\ Len(a) # Len(Encode(x))))
        /\ Holds(c, s.pc, Pad(x.mode, a, Len(Encode(x))))
    BY <1>2, <2>1
  <2>3. v => Follows(x, c, s.pc, Execute(Meaning(x), s, v),
                     Execute(Decode(c, s.pc, x.mode), s, v))
    BY <1>6, <2>2, JumpExecutes
  <2>4. QED
    BY <1>6, <2>3
<1>7. CASE MnemonicKind(x) = "SetCc" /\ b = PatchSetcc(Encode(x), v) /\ b # <<>>
  <2>1. x.op = "setcc"
    BY <1>7 DEF MnemonicKind
  <2>2. QED
    BY <1>7, <2>1, SetccExecutes
<1>8. CASE MnemonicKind(x) = "CMovCc" /\ v /\ b = PatchCmov(Encode(x)) /\ b # <<>>
  <2>1. x.op = "cmov"
    BY <1>8 DEF MnemonicKind
  <2>2. x.operand # "rip"
    BY <1>8, <2>1 DEF DivergentForm
  <2>3. v => Follows(x, c, s.pc, Execute(Meaning(x), s, v),
                     Execute(Decode(c, s.pc, x.mode), s, v))
    BY <1>8, <2>1, <2>2, MoveExecutes
  <2>4. QED
    BY <1>8, <2>3
<1>9. CASE MnemonicKind(x) = "CMovCc" /\ ~v /\ b = Nop("x86", n)
  <2>1. x.op = "cmov"
    BY <1>9 DEF MnemonicKind
  <2>2. x.w # 32 /\ x.mode = "x86"
    BY <1>9, <2>1 DEF DivergentForm, Conditional, Form, Selects
  <2>3. t \in State /\ t.regs = s.regs /\ t.mem = s.mem /\ t.pc = s.pc + Len(Encode(x))
    BY <1>3, <1>9, <2>1, <2>2, NoMoveExecutes
  <2>4. Holds(c, s.pc, Nop(x.mode, Len(Encode(x))))
    BY <1>2, <1>9, <2>2
  <2>5. Follows(x, c, s.pc, t, Execute(Decode(c, s.pc, x.mode), s, v))
    BY <1>9, <2>3, <2>4, NopsExecute
  <2>6. QED
    BY <1>3, <2>5
<1>10. CASE MnemonicKind(x) = "Select" /\ b = FixedWidth(SelectAsm(x, v), 4)
  <2>1. x.op \in Selects
    BY <1>10 DEF MnemonicKind
  <2>2. x.op \in Selects \ {"cinc", "cinv", "cneg"}
    BY <2>1 DEF DivergentForm
  <2>3. QED
    BY <1>10, <2>2, SelectExecutes
<1>11. \/ b = Encode(x)
       \/ MnemonicKind(x) = "Jcc" /\ ~v /\ b = Nop(x.mode, n)
       \/ /\ MnemonicKind(x) = "Jcc" /\ v
          /\ \E a \in Assembled(x.mode) :
               /\ ~(Len(a) > n \/ (x.mode # "x86" /\ Len(a) # n))
               /\ b = Pad(x.mode, a, n)
       \/ MnemonicKind(x) = "SetCc" /\ b = PatchSetcc(Encode(x), v) /\ b # <<>>
       \/ MnemonicKind(x) = "CMovCc" /\ v /\ b = PatchCmov(Encode(x)) /\ b # <<>>
       \/ MnemonicKind(x) = "CMovCc" /\ ~v /\ b = Nop("x86", n)
       \/ MnemonicKind(x) = "Select" /\ b = FixedWidth(SelectAsm(x, v), 4)
  BY <1>2, Zenon DEF Replaces
<1>12. QED
  BY <1>4, <1>5, <1>6, <1>7, <1>8, <1>9, <1>10, <1>11, Zenon

-----------------------------------------------------------------------------
\* The findings that report the truth.
Told == {f \in Reported : f.verdict = truth[f.at]}

\* An operation writes, where an instruction is, what may replace it.
Written(o) ==
    \E k \in 1..2 :
        /\ o.address = Start(k) /\ o.size = Len(Encode(program[k]))
        /\ Replaces(program[k], truth[k], o.bytes)

\* The code has an instruction where it was, or what may replace it.
Rewritten(k) ==
    \E b : /\ b = Encode(program[k]) \/ Replaces(program[k], truth[k], b)
           /\ Holds(code, Start(k), b)

\* The operations write what may replace the instructions, and the code is the
\* original with such bytes in their places once the plan is built.
RewriteInv ==
    /\ PlanInv
    /\ program[1].mode = program[2].mode
    /\ findings \in Seq(Told)
    /\ \A i \in DOMAIN operations : Written(operations[i])
    /\ phase # "planned" => code = OriginalCode /\ original = Reset /\ patched = Reset
    /\ phase = "planned" => \A k \in 1..2 : Rewritten(k)

\* The two processors are at one instruction in one state, or the second has
\* only NOPs left to where the first is.
TogetherInv ==
    /\ original \in State /\ patched \in State
    /\ \/ original = patched /\ original.pc \in {0, Start(2), End, Exit}
       \/ /\ original.regs = patched.regs /\ original.mem = patched.mem
          /\ program[1].mode = "x86"
          /\ original.pc \in {Start(2), End}
          /\ patched.pc < original.pc
          /\ Sled(code, patched.pc, original.pc)

\* Neither instruction is of a form whose rewrite is known to differ.
Undisturbed == \A i \in 1..2 : ~DivergentForm(program[i], truth[i])
\* The inductive invariant: the code is rewritten as it may be, and the two
\* processors stay together.
SimulationInv == RewriteInv /\ (Undisturbed => TogetherInv)

\* The instructions lie one behind the other.
LEMMA Places ==
    ASSUME PlanInv
    PROVE  \E m \in 2..6, n \in 2..6 :
              /\ m = Len(Encode(program[1])) /\ n = Len(Encode(program[2]))
              /\ Start(1) = 0 /\ Start(2) = m /\ End = m + n
<1>1. program[1] \in Conditional /\ program[2] \in Conditional
  BY DEF PlanInv
<1>2. PICK m \in 2..6, n \in 2..6 : m = Len(Encode(program[1])) /\ n = Len(Encode(program[2]))
  BY <1>1, EncodedShort
<1>3. Start(1) = 0 /\ Start(2) = m
  BY <1>2 DEF Start
<1>4. End = m + n
  BY <1>2, <1>3 DEF End
<1>5. QED
  BY <1>2, <1>3, <1>4

\* The bytes of a program are those of its instructions.
LEMMA OriginalHolds ==
    ASSUME PlanInv, NEW k \in 1..2
    PROVE  /\ Holds(OriginalCode, Start(k), Encode(program[k]))
           /\ DOMAIN OriginalCode = 0..20
<1>1. PICK m \in 2..6, n \in 2..6 :
         /\ m = Len(Encode(program[1])) /\ n = Len(Encode(program[2]))
         /\ Start(1) = 0 /\ Start(2) = m /\ End = m + n
  BY Places
<1>2. PICK e, f : e = Encode(program[1]) /\ f = Encode(program[2])
  OBVIOUS
<1>3. PICK g : g = [a \in 0..20 |-> IF a \in 0..(m - 1) THEN e[a + 1] ELSE B("hlt")]
  OBVIOUS
<1>4. Place(e, 0, Blank) = g
  <2>1. DOMAIN Blank = 0..20 /\ \A a \in 0..20 : Blank[a] = B("hlt")
    BY DEF Blank, Exit
  <2>2. Len(e) = m
    BY <1>1, <1>2
  <2>3. Place(e, 0, Blank) = [a \in 0..20 |-> IF a \in 0..(0 + m - 1)
                                             THEN e[a - 0 + 1] ELSE Blank[a]]
    BY <2>1, <2>2, Zenon DEF Place
  <2>4. QED
    BY <1>3, <2>1, <2>3
<1>5. OriginalCode = [a \in 0..20 |-> IF a \in m..(m + n - 1) THEN f[a - m + 1] ELSE g[a]]
  <2>1. DOMAIN g = 0..20
    BY <1>3
  <2>2. OriginalCode = Place(f, m, g) /\ Len(f) = n
    BY <1>1, <1>2, <1>4, Zenon DEF OriginalCode
  <2>3. QED
    BY <2>1, <2>2, Zenon DEF Place
<1>6. PICK o : o = OriginalCode
  OBVIOUS
<1>7. \A j \in 1..m : o[0 + j - 1] = e[j]
  <2> TAKE j \in 1..m
  <2>1. 0 + j - 1 = j - 1 /\ j - 1 \in 0..20 /\ j - 1 \notin m..(m + n - 1)
        /\ j - 1 \in 0..(m - 1) /\ j - 1 + 1 = j
    OBVIOUS
  <2>2. o[j - 1] = g[j - 1]
    BY <1>5, <1>6, <2>1
  <2>3. g[j - 1] = e[j]
    BY <1>3, <2>1
  <2>4. QED
    BY <2>1, <2>2, <2>3
<1>8. \A j \in 1..n : o[m + j - 1] = f[j]
  <2> TAKE j \in 1..n
  <2>1. m + j - 1 \in 0..20 /\ m + j - 1 \in m..(m + n - 1) /\ (m + j - 1) - m + 1 = j
    OBVIOUS
  <2>2. QED
    BY <1>5, <1>6, <2>1
<1>9. CASE k = 1
  BY <1>1, <1>2, <1>5, <1>6, <1>7, <1>9 DEF Holds
<1>10. CASE k = 2
  BY <1>1, <1>2, <1>5, <1>6, <1>8, <1>10 DEF Holds
<1>11. QED
  BY <1>9, <1>10

\* An operation is where its instruction is, and may replace it.
LEMMA ConsiderWrites ==
    ASSUME PlanInv, NEW f \in Told, NEW d \in Consider(f), d \notin {Abort, Skip}
    PROVE  Written(d)
<1>1. PICK x \in Conditional, k \in 1..2, v \in BOOLEAN :
         x = program[k] /\ k = f.at /\ v = f.verdict /\ v = truth[k]
  BY DEF PlanInv, Told, Reported
<1>2. PICK n : n = SizeOf(f) /\ n = Len(Encode(x))
  BY <1>1 DEF SizeOf
<1>3. \A b : Replaces(x, v, b) /\ d = Operation(f, b) => Written(d)
  <2> TAKE b
  <2> HAVE Replaces(x, v, b) /\ d = Operation(f, b)
  <2>1. d.address = Start(k) /\ d.size = n /\ d.bytes = b
    BY <1>1, <1>2 DEF Operation
  <2>2. QED
    BY <1>1, <1>2, <2>1 DEF Written
<1>4. CASE MnemonicKind(x) = "Jcc" /\ d \in PlanJcc(f)
  <2>1. \/ ~v /\ d = Operation(f, Nop(x.mode, n))
        \/ v /\ \E b \in Assembled(x.mode) :
             ~(Len(b) > n \/ (x.mode # "x86" /\ Len(b) # n)) /\ d = Operation(f, Pad(x.mode, b, n))
    BY <1>1, <1>2, <1>4 DEF PlanJcc
  <2>2. CASE ~v /\ d = Operation(f, Nop(x.mode, n))
    BY <1>2, <1>3, <1>4, <2>2 DEF Replaces
  <2>3. CASE v /\ \E b \in Assembled(x.mode) :
             ~(Len(b) > n \/ (x.mode # "x86" /\ Len(b) # n)) /\ d = Operation(f, Pad(x.mode, b, n))
    BY <1>2, <1>3, <1>4, <2>3 DEF Replaces
  <2>4. QED
    BY <2>1, <2>2, <2>3
<1>5. CASE MnemonicKind(x) = "SetCc" /\ d \in PlanSetcc(f)
  <2>1. d = Operation(f, PatchSetcc(Encode(x), v)) /\ PatchSetcc(Encode(x), v) # <<>>
    BY <1>1, <1>5 DEF PlanSetcc
  <2>2. QED
    BY <1>3, <1>5, <2>1 DEF Replaces
<1>6. CASE MnemonicKind(x) = "CMovCc" /\ d \in PlanCmov(f)
  <2>1. \/ v /\ d = Operation(f, PatchCmov(Encode(x))) /\ PatchCmov(Encode(x)) # <<>>
        \/ ~v /\ d = Operation(f, Nop("x86", n))
    BY <1>1, <1>2, <1>6 DEF PlanCmov
  <2>2. QED
    BY <1>2, <1>3, <1>6, <2>1 DEF Replaces
<1>7. CASE MnemonicKind(x) = "Select" /\ d \in PlanSelect(f)
  <2>1. d = Operation(f, FixedWidth(SelectAsm(x, v), 4))
    BY <1>1, <1>7 DEF PlanSelect
  <2>2. QED
    BY <1>3, <1>7, <2>1 DEF Replaces
<1>8. \/ MnemonicKind(x) = "Jcc" /\ d \in PlanJcc(f)
      \/ MnemonicKind(x) = "SetCc" /\ d \in PlanSetcc(f)
      \/ MnemonicKind(x) = "CMovCc" /\ d \in PlanCmov(f)
      \/ MnemonicKind(x) = "Select" /\ d \in PlanSelect(f)
  <2>1. MnemonicKind(x) \in {"Jcc", "SetCc", "CMovCc", "Select", "Other"}
    BY DEF MnemonicKind
  <2>2. QED
    BY <1>1, <2>1 DEF Consider
<1>9. QED
  BY <1>4, <1>5, <1>6, <1>7, <1>8

\* A byte of one instruction is of no other.
LEMMA Apart ==
    ASSUME PlanInv, NEW k \in 1..2, NEW q \in 1..2, NEW a,
           a \in Start(k)..(Start(k) + Len(Encode(program[k])) - 1),
           a \in Start(q)..(Start(q) + Len(Encode(program[q])) - 1)
    PROVE  k = q
<1>1. PICK m \in 2..6, n \in 2..6 :
         /\ m = Len(Encode(program[1])) /\ n = Len(Encode(program[2]))
         /\ Start(1) = 0 /\ Start(2) = m /\ End = m + n
  BY Places
<1>2. SUFFICES ASSUME k # q PROVE FALSE
  OBVIOUS
<1>3. a \in 0..(0 + m - 1) /\ a \in m..(m + n - 1)
  <2>1. CASE k = 1
    BY <1>1, <1>2, <2>1
  <2>2. CASE k = 2
    BY <1>1, <1>2, <2>2
  <2>3. QED
    BY <2>1, <2>2
<1>4. QED
  BY <1>3

\* The plan is written over the copy.
LEMMA BuildRewrites ==
    ASSUME SimulationInv, BuildPlan
    PROVE  SimulationInv'
<1> USE DEF SimulationInv
<1>1. PlanInv'
  BY NextPlanInv DEF RewriteInv, Next
<1>2. PlanInv /\ IsSequence(operations)
  BY DEF RewriteInv, PlanInv
<1>3. /\ UNCHANGED <<program, truth, findings, relocated, operations, skipped,
                     original, patched>>
      /\ phase = "considering" /\ phase' \in {"refused", "planned"}
      /\ phase' = "refused" => code' = code
  BY Zenon DEF BuildPlan
<1>4. code = OriginalCode /\ original = Reset /\ patched = Reset
  BY <1>3 DEF RewriteInv
<1>5. \A a : Start(a)' = Start(a)
  BY <1>3 DEF Start
<1>6. End' = End /\ OriginalCode' = OriginalCode /\ Reset' = Reset
  BY <1>3, <1>5 DEF End, OriginalCode, Reset
<1>7. (\A i \in DOMAIN operations : Written(operations[i]))'
  BY <1>3, <1>5 DEF RewriteInv, Written
<1>8. ASSUME phase' = "planned", NEW k \in 1..2
      PROVE  Rewritten(k)'
  <2> DEFINE At(a) == {i \in DOMAIN operations :
                a \in operations[i].address..(operations[i].address + operations[i].size - 1)}
  <2>1. /\ \A i, j \in DOMAIN operations : i # j => ~Overlaps(operations[i], operations[j])
        /\ code' = [a \in DOMAIN code |->
                      IF At(a) = {} THEN code[a]
                      ELSE LET o == operations[CHOOSE i \in At(a) : TRUE]
                           IN  o.bytes[a - o.address + 1]]
    BY <1>8, Zenon DEF BuildPlan
  <2>2. PICK n \in 2..6, s \in 0..6 :
           n = Len(Encode(program[k])) /\ s = Start(k) /\ s + n - 1 \in 0..20
    <3>1. PICK m1 \in 2..6, m2 \in 2..6 :
             /\ m1 = Len(Encode(program[1])) /\ m2 = Len(Encode(program[2]))
             /\ Start(1) = 0 /\ Start(2) = m1 /\ End = m1 + m2
      BY <1>2, Places
    <3>2. CASE k = 1
      BY <3>1, <3>2
    <3>3. CASE k = 2
      <4>1. m1 + m2 - 1 \in 0..20 /\ m1 \in 0..6
        OBVIOUS
      <4>2. m2 = Len(Encode(program[k])) /\ m1 = Start(k)
        BY <3>1, <3>3
      <4>3. QED
        BY <4>1, <4>2
    <3>4. QED
      BY <3>2, <3>3
  <2>3. Holds(code, s, Encode(program[k])) /\ DOMAIN code = 0..20
    BY <1>2, <1>4, <2>2, OriginalHolds
  <2>4. \A a \in s..(s + n - 1) : a \in DOMAIN code
    <3>1. \A a \in s..(s + n - 1) : a \in 0..20
      <4> TAKE a \in s..(s + n - 1)
      <4>1. a >= s /\ s >= 0 /\ a <= s + n - 1 /\ s + n - 1 <= 20
        BY <2>2
      <4>2. QED
        BY <4>1
    <3>2. QED
      BY <2>3, <3>1
  <2>5. ASSUME NEW a \in s..(s + n - 1), NEW i \in At(a)
        PROVE  operations[i].address = s /\ operations[i].size = n
               /\ Replaces(program[k], truth[k], operations[i].bytes)
    <3>1. PICK q \in 1..2 :
            /\ operations[i].address = Start(q)
            /\ operations[i].size = Len(Encode(program[q]))
            /\ Replaces(program[q], truth[q], operations[i].bytes)
      BY <2>5 DEF RewriteInv, Written
    <3>2. a \in Start(q)..(Start(q) + Len(Encode(program[q])) - 1)
      BY <2>5, <3>1
    <3>3. k = q
      BY <1>2, <2>2, <3>2, Apart
    <3>4. QED
      BY <2>2, <3>1, <3>3
  <2>6. CASE \E a \in s..(s + n - 1) : At(a) # {}
    <3>0. PICK h \in s..(s + n - 1) : \E i : i \in At(h)
      BY <2>6
    <3>1. PICK i : i \in At(h)
      BY <3>0
    <3>2. /\ i \in DOMAIN operations
          /\ operations[i].address = s /\ operations[i].size = n
          /\ Replaces(program[k], truth[k], operations[i].bytes)
      BY <2>5, <3>1
    <3>3. PICK b : b = operations[i].bytes
      OBVIOUS
    <3>4. Len(b) = n
      BY <1>2, <3>2, <3>3 DEF PlanInv, Fills
    <3>5. ASSUME NEW j \in 1..n PROVE code'[s + j - 1] = b[j]
      <4>1. PICK a \in s..(s + n - 1) : a = s + j - 1 /\ a - s + 1 = j
        <5>1. s + j - 1 \in s..(s + n - 1) /\ (s + j - 1) - s + 1 = j
          OBVIOUS
        <5>2. QED
          BY <5>1
      <4>2. i \in At(a)
        BY <3>2
      <4>3. PICK c : c = (CHOOSE y \in At(a) : TRUE) /\ c \in At(a)
        BY <4>2
      <4>4. c \in DOMAIN operations /\ operations[c].address = s /\ operations[c].size = n
        BY <2>5, <4>3
      <4>5. c = i
        <5>1. Overlaps(operations[i], operations[c])
          BY <3>2, <4>4 DEF Overlaps
        <5>2. QED
          BY <2>1, <3>2, <4>4, <5>1
      <4>6. code'[a] = operations[c].bytes[a - operations[c].address + 1]
        BY <2>1, <2>4, <4>2, <4>3, Zenon
      <4>7. QED
        BY <3>3, <4>1, <4>4, <4>5, <4>6
    <3>6. Holds(code', s, b)
      BY <3>4, <3>5 DEF Holds
    <3>7. Replaces(program[k], truth[k], b)
      BY <3>2, <3>3
    <3>8. Holds(code', Start(k)', b) /\ Replaces(program[k], truth[k], b)'
      BY <1>3, <1>5, <2>2, <3>6, <3>7
    <3>9. QED
      BY <3>8 DEF Rewritten
  <2>7. CASE \A a \in s..(s + n - 1) : At(a) = {}
    <3>1. \A a \in s..(s + n - 1) : code'[a] = code[a]
      BY <2>1, <2>4, <2>7, Zenon
    <3>2. PICK b : b = Encode(program[k]) /\ Len(b) = n /\ Holds(code, s, b)
      BY <2>2, <2>3
    <3>3. \A j \in 1..n : s + j - 1 \in s..(s + n - 1)
      OBVIOUS
    <3>4. Holds(code', s, b)
      BY <3>1, <3>2, <3>3 DEF Holds
    <3>5. Holds(code', Start(k)', b) /\ b = Encode(program[k])'
      BY <1>3, <1>5, <2>2, <3>2, <3>4
    <3>6. QED
      BY <3>5 DEF Rewritten
  <2>8. QED
    BY <2>6, <2>7
<1>9. RewriteInv'
  <2>1. (findings \in Seq(Told))'
    BY <1>3 DEF RewriteInv, Told
  <2>2. phase' # "planned" => (code = OriginalCode /\ original = Reset /\ patched = Reset)'
    BY <1>3, <1>4, <1>6
  <2>3. (program[1].mode = program[2].mode)'
    BY <1>3 DEF RewriteInv
  <2>4. QED
    BY <1>1, <1>7, <1>8, <2>1, <2>2, <2>3 DEF RewriteInv
<1>10. (Undisturbed => TogetherInv)'
  <2>1. Undisturbed' = Undisturbed
    BY <1>3 DEF Undisturbed
  <2>2. original.pc = 0
    BY <1>4 DEF Reset
  <2>3. original' = original /\ patched' = patched /\ original = patched
    BY <1>3, <1>4
  <2>4. TogetherInv => TogetherInv'
    BY <2>2, <2>3 DEF TogetherInv
  <2>5. QED
    BY <2>1, <2>4
<1>11. QED
  BY <1>9, <1>10

\* A NOP only moves on.
LEMMA ExecutedNop ==
    ASSUME NEW d, NEW s, NEW c, NEW next, next = s.pc + d.len, d.op = "nop"
    PROVE  Execute(d, s, c) = [s EXCEPT !.pc = next]
BY Executed

\* Two states that differ in nothing.
LEMMA SameState ==
    ASSUME NEW s \in State, NEW t \in State, s.pc = t.pc, s.regs = t.regs, s.mem = t.mem
    PROVE  s = t
BY DEF State

\* Both processors execute an instruction.
LEMMA BothStep ==
    ASSUME SimulationInv, StepOriginal
    PROVE  SimulationInv'
<1> USE DEF SimulationInv
<1>1. PlanInv'
  BY NextPlanInv DEF RewriteInv, Next
<1>2. PlanInv
  BY DEF RewriteInv
<1>3. /\ UNCHANGED <<program, truth, findings, relocated, phase, operations, skipped, code>>
      /\ phase = "planned" /\ original.pc = patched.pc /\ Running(original)
      /\ original' = Execute(Decode(OriginalCode, original.pc, program[1].mode), original,
                             ConditionAt(original.pc))
      /\ patched' = Execute(Decode(code, patched.pc, program[1].mode), patched,
                            ConditionAt(patched.pc))
  BY DEF StepOriginal
<1>4. \A a : Start(a)' = Start(a)
  BY <1>3 DEF Start
<1>5. End' = End
  BY <1>3, <1>4 DEF End
<1>6. RewriteInv'
  BY <1>1, <1>3, <1>4 DEF RewriteInv, Told, Written, Rewritten
<1>7. Undisturbed' = Undisturbed
  BY <1>3 DEF Undisturbed
<1>8. SUFFICES ASSUME Undisturbed, TogetherInv PROVE TogetherInv'
  BY <1>6, <1>7
<1>9. PICK m \in 2..6, n \in 2..6 :
         /\ m = Len(Encode(program[1])) /\ n = Len(Encode(program[2]))
         /\ Start(1) = 0 /\ Start(2) = m /\ End = m + n
  BY <1>2, Places
<1>10. original = patched /\ original \in State /\ original.pc \in {0, m}
  <2>1. original.pc \in 0..(m + n - 1)
    BY <1>3, <1>9 DEF Running
  <2>2. original = patched /\ original.pc \in {0, m, m + n, Exit}
    <3>1. patched.pc < original.pc => FALSE
      <4>1. original.pc \in Nat
        BY <1>8 DEF TogetherInv, State
      <4>2. QED
        BY <1>3, <4>1
    <3>2. QED
      BY <1>8, <1>9, <3>1 DEF TogetherInv
  <2>3. original.pc # m + n /\ original.pc # Exit
    BY <2>1 DEF Exit
  <2>4. QED
    BY <1>8, <2>2, <2>3 DEF TogetherInv
<1>11. PICK k \in 1..2 : original.pc = Start(k) /\ ConditionAt(original.pc) = truth[k]
  <2>1. m # 0
    OBVIOUS
  <2>2. CASE original.pc = 0
    BY <1>9, <2>2 DEF ConditionAt
  <2>3. CASE original.pc = m
    BY <1>9, <2>1, <2>3 DEF ConditionAt
  <2>4. QED
    BY <1>10, <2>2, <2>3
<1>12. PICK x \in Conditional, v \in BOOLEAN, s \in State :
          /\ x = program[k] /\ v = truth[k] /\ s = original /\ s.pc = Start(k)
          /\ s.pc \in 0..10 /\ x.mode = program[1].mode
  <2>1. program[k] \in Conditional /\ truth[k] \in BOOLEAN
    BY <1>2 DEF PlanInv
  <2>2. original.pc \in 0..10
    BY <1>10
  <2>3. program[k].mode = program[1].mode
    BY DEF RewriteInv
  <2>4. QED
    BY <1>10, <1>11, <2>1, <2>2, <2>3
<1>13. PICK t, u : /\ t = Execute(Meaning(x), s, v)
                   /\ u = Execute(Decode(code, s.pc, x.mode), s, v)
  OBVIOUS
<1>14. original' = t
  <2>1. Holds(OriginalCode, s.pc, Encode(x)) /\ s.pc \in Nat
    BY <1>2, <1>12, OriginalHolds DEF State
  <2>2. Decode(OriginalCode, s.pc, x.mode) = Meaning(x)
    BY <2>1, EncodedDecodes
  <2>3. QED
    BY <1>3, <1>11, <1>12, <1>13, <2>2
<1>15. patched' = u
  BY <1>3, <1>10, <1>11, <1>12, <1>13
<1>16. Follows(x, code, s.pc, t, u)
  <2>1. ~DivergentForm(x, v)
    BY <1>8, <1>12 DEF Undisturbed
  <2>2. PICK b : (b = Encode(x) \/ Replaces(x, v, b)) /\ Holds(code, s.pc, b)
    BY <1>3, <1>12 DEF RewriteInv, Rewritten
  <2>3. QED
    BY <1>12, <1>13, <2>1, <2>2, Simulates
<1>17. s.pc + Len(Encode(x)) \in {Start(2), End}
  <2>1. CASE k = 1
    BY <1>9, <1>12, <2>1
  <2>2. CASE k = 2
    BY <1>9, <1>12, <2>2
  <2>3. QED
    BY <2>1, <2>2
<1>18. /\ t \in State /\ u \in State /\ t.regs = u.regs /\ t.mem = u.mem
       /\ t.pc \in {Start(2), End, Exit}
  BY <1>16, <1>17 DEF Follows
<1>19. CASE u.pc = t.pc
  <2>1. t = u
    BY <1>18, <1>19, SameState
  <2>2. QED
    BY <1>4, <1>5, <1>14, <1>15, <1>18, <2>1 DEF TogetherInv
<1>20. CASE /\ x.mode = "x86" /\ t.pc = s.pc + Len(Encode(x))
            /\ u.pc \in (s.pc + 1)..(t.pc - 1) /\ Sled(code, u.pc, t.pc)
  <2>1. t.pc \in Nat /\ u.pc < t.pc
    BY <1>18, <1>20 DEF State
  <2>2. t.pc \in {Start(2), End} /\ program[1].mode = "x86"
    BY <1>12, <1>17, <1>20
  <2>3. Sled(code', u.pc, t.pc)
    BY <1>3, <1>20
  <2>4. QED
    BY <1>3, <1>4, <1>5, <1>14, <1>15, <1>18, <2>1, <2>2, <2>3 DEF TogetherInv
<1>21. QED
  BY <1>16, <1>19, <1>20 DEF Follows

\* The second processor goes through its NOPs.
LEMMA PatchedSteps ==
    ASSUME SimulationInv, StepPatched
    PROVE  SimulationInv'
<1> USE DEF SimulationInv
<1>1. PlanInv'
  BY NextPlanInv DEF RewriteInv, Next
<1>2. /\ UNCHANGED <<program, truth, findings, relocated, phase, operations, skipped, code,
                     original>>
      /\ phase = "planned" /\ original.pc # patched.pc
      /\ patched' = Execute(Decode(code, patched.pc, program[1].mode), patched, FALSE)
  BY DEF StepPatched
<1>3. \A a : Start(a)' = Start(a)
  BY <1>2 DEF Start
<1>4. End' = End
  BY <1>2, <1>3 DEF End
<1>5. RewriteInv'
  BY <1>1, <1>2, <1>3 DEF RewriteInv, Told, Written, Rewritten
<1>6. Undisturbed' = Undisturbed
  BY <1>2 DEF Undisturbed
<1>7. SUFFICES ASSUME Undisturbed, TogetherInv PROVE TogetherInv'
  BY <1>5, <1>6
<1>8. /\ original \in State /\ patched \in State
      /\ original.regs = patched.regs /\ original.mem = patched.mem
      /\ program[1].mode = "x86"
      /\ original.pc \in {Start(2), End}
      /\ patched.pc < original.pc
      /\ Sled(code, patched.pc, original.pc)
  BY <1>2, <1>7 DEF TogetherInv
<1>9. PICK at \in Nat, to \in Nat : at = patched.pc /\ to = original.pc /\ at < to
  BY <1>8 DEF State
<1>10. \A a \in at..(to - 1) : code[a] = B("90")
  BY <1>8, <1>9 DEF Sled
<1>11. Decode(code, at, "x86") = Step("nop", 32, "none", 1, 0)
  <2>1. code[at] = B("90")
    BY <1>9, <1>10
  <2>2. QED
    BY <2>1, NopDecodes
<1>12. patched' = [patched EXCEPT !.pc = at + 1]
  <2>1. PICK d : d = Step("nop", 32, "none", 1, 0)
    OBVIOUS
  <2>2. d.op = "nop" /\ d.len = 1
    BY <2>1 DEF Step
  <2>3. \A c : Execute(d, patched, c) = [patched EXCEPT !.pc = at + 1]
    BY <1>9, <2>2, ExecutedNop
  <2>4. QED
    BY <1>2, <1>8, <1>9, <1>11, <2>1, <2>3, Zenon
<1>13. /\ patched' \in State /\ patched'.pc = at + 1
       /\ patched'.regs = patched.regs /\ patched'.mem = patched.mem
  <2>1. at + 1 \in Nat
    OBVIOUS
  <2>2. QED
    BY <1>8, <1>12, <2>1, Stepped
<1>14. CASE at + 1 = to
  <2>1. original' = patched'
    BY <1>2, <1>8, <1>9, <1>13, <1>14, SameState
  <2>2. QED
    BY <1>2, <1>3, <1>4, <1>8, <1>13, <2>1 DEF TogetherInv
<1>15. CASE at + 1 # to
  <2>1. at + 1 < to
    BY <1>9, <1>15
  <2>2. Sled(code', at + 1, to)
    BY <1>2, <1>10 DEF Sled
  <2>3. QED
    BY <1>2, <1>3, <1>4, <1>8, <1>9, <1>13, <2>1, <2>2 DEF TogetherInv
<1>16. QED
  BY <1>14, <1>15

\* Before anything is planned both processors are at the start.
LEMMA InitSimulationInv == Init => SimulationInv
<1> SUFFICES ASSUME Init PROVE SimulationInv
  OBVIOUS
<1>1. PlanInv
  BY InitPlanInv
<1>2. program[1].mode = program[2].mode
  BY ProgramsAssumption DEF Init
<1>3. PICK r \in Reports, again \in {FALSE, Twice} :
         findings = <<Finding(1, r[1]), Finding(2, r[2])>>
                    \o (IF again THEN <<Finding(1, r[1])>> ELSE <<>>)
  BY DEF Init
<1>4. Finding(1, r[1]) \in Told /\ Finding(2, r[2]) \in Told
  BY <1>1, ReportAssumption DEF Finding, Told, Reported, PlanInv
<1>5. findings \in Seq(Told)
  BY <1>3, <1>4
<1>6. RewriteInv
  BY <1>1, <1>2, <1>5 DEF RewriteInv, Init
<1>7. Reset \in State /\ Reset.pc = 0
  <2>1. \A a \in Memory : (5 * a + 3) % 16 \in Word
    BY DEF Memory, Word
  <2>2. [a \in Memory |-> (5 * a + 3) % 16] \in [Memory -> Word]
    BY <2>1
  <2>3. [r0 |-> 13, r1 |-> 6, r2 |-> 11] \in [Registers -> Word]
    BY DEF Registers, Word
  <2>4. QED
    BY <2>2, <2>3 DEF Reset, State
<1>8. TogetherInv
  BY <1>7 DEF TogetherInv, Init
<1>9. QED
  BY <1>6, <1>8 DEF SimulationInv

\* Each step of planning and of running keeps the code and the processors so.
LEMMA NextSimulationInv == SimulationInv /\ [Next]_vars => SimulationInv'
<1> SUFFICES ASSUME SimulationInv, [Next]_vars PROVE SimulationInv'
  OBVIOUS
<1>1. CASE ConsiderFinding
  <2> USE DEF SimulationInv
  <2>1. PlanInv' /\ PlanInv
    BY <1>1, NextPlanInv DEF RewriteInv, Next
  <2>2. Head(findings) \in Told /\ Tail(findings) \in Seq(Told)
    BY <1>1 DEF RewriteInv, ConsiderFinding
  <2>3. PICK d \in Consider(Head(findings)) :
           /\ phase' = IF d = Abort THEN "refused" ELSE phase
           /\ operations' = IF d \in {Abort, Skip} THEN operations ELSE Append(operations, d)
    BY <1>1 DEF ConsiderFinding
  <2>4. /\ UNCHANGED <<program, truth, relocated, code, original, patched>>
        /\ phase = "considering" /\ findings' = Tail(findings) /\ phase' # "planned"
    BY <1>1, <2>3 DEF ConsiderFinding
  <2>5. \A a : Start(a)' = Start(a)
    BY <2>4 DEF Start
  <2>6. End' = End /\ OriginalCode' = OriginalCode /\ Reset' = Reset
    BY <2>4, <2>5 DEF End, OriginalCode, Reset
  <2>7. \A i \in DOMAIN operations' : Written(operations'[i])
    <3>1. CASE d \in {Abort, Skip}
      BY <2>3, <3>1 DEF RewriteInv
    <3>2. CASE d \notin {Abort, Skip}
      <4>1. Written(d)
        BY <2>1, <2>2, <3>2, ConsiderWrites
      <4>2. QED
        BY <2>1, <2>3, <3>2, <4>1, Appended DEF RewriteInv, PlanInv
    <3>3. QED
      BY <3>1, <3>2
  <2>8. \A o : Written(o)' = Written(o)
    BY <2>4, <2>5 DEF Written
  <2>9. RewriteInv'
    BY <2>1, <2>2, <2>4, <2>6, <2>7, <2>8 DEF RewriteInv, Told
  <2>10. (Undisturbed => TogetherInv)'
    BY <2>4, <2>5, <2>6 DEF Undisturbed, TogetherInv
  <2>11. QED
    BY <2>9, <2>10
<1>2. CASE BuildPlan
  BY <1>2, BuildRewrites
<1>3. CASE StepOriginal
  BY <1>3, BothStep
<1>4. CASE StepPatched
  BY <1>4, PatchedSteps
<1>5. CASE UNCHANGED vars
  <2>1. PlanInv'
    BY <1>5, NextPlanInv DEF SimulationInv, RewriteInv
  <2>2. QED
    BY <1>5, <2>1 DEF vars, SimulationInv, RewriteInv, TogetherInv, Undisturbed, Told, Written,
                  Rewritten, Start, End, OriginalCode, Reset
<1>6. QED
  BY <1>1, <1>2, <1>3, <1>4, <1>5 DEF Next

\* For every pair of conditional instructions of one mode, every truth of their
\* conditions and whatever is reported: patched code takes registers, memory
\* and control where the original code takes them.
THEOREM PatchedAlwaysSimulates == Spec => []PatchedSimulates
<1>1. Init => SimulationInv
  BY InitSimulationInv
<1>2. SimulationInv /\ [Next]_vars => SimulationInv'
  BY NextSimulationInv
<1>3. SimulationInv => PatchedSimulates
  <2> SUFFICES ASSUME SimulationInv, \A i \in 1..2 : ~Divergent(i)
               PROVE  Agree /\ NeverFaults
    BY DEF PatchedSimulates
  <2>1. Undisturbed
    BY DEF Undisturbed, Divergent, DivergentForm
  <2>2. TogetherInv
    BY <2>1 DEF SimulationInv
  <2>3. original.pc \in Nat /\ patched.pc \in Nat
    BY <2>2 DEF TogetherInv, State
  <2>4. QED
    BY <2>2, <2>3 DEF TogetherInv, Agree, NeverFaults, None
<1>4. QED
  BY <1>1, <1>2, <1>3, PTL DEF Spec
=============================================================================
