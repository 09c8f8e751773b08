--------------------------- MODULE SliceWalkProofs ---------------------------
(***************************************************************************)
(* Proofs about the backward walk and what it is for: every function,      *)
(* branch and limit, and every execution.                                  *)
(***************************************************************************)
EXTENDS SliceRun, FiniteSetTheorems, WellFoundedInduction, TLAPS

\* The instruction the walk is at is one of the function's.
LEMMA ThisIsAnInsn ==
    ASSUME TypeOK, Walking
    PROVE  /\ This \in Insn /\ Here \in Sites
           /\ pos - 1 \in 0..Len(prog.body[block])
<1>1. prog.body \in [Blocks -> Seq(Insn)] /\ block \in Blocks
  BY DEF TypeOK, Program
<1>2. prog.body[block] \in Seq(Insn)
  BY <1>1
<1>3. pos \in 1..Len(prog.body[block])
  BY DEF TypeOK, Walking
<1>4. Here[1] = block /\ Here[2] = pos
  BY DEF Here
<1>5. prog.body[block][pos] \in Insn
  BY <1>2, <1>3
<1>6. This \in Insn
  BY <1>4, <1>5 DEF This, InsnAt
<1>7. QED
  BY <1>1, <1>2, <1>3, <1>6 DEF Here, Sites

-----------------------------------------------------------------------------
(* Type correctness. *)

\* The initial state is typed.
LEMMA InitTypeOK == Init => TypeOK
<1> SUFFICES ASSUME Init PROVE TypeOK
  OBVIOUS
<1>1. prog \in Program
  BY ProgramsAssumption DEF Init, Begin
<1>2. prog.seed \in Blocks /\ prog.body[prog.seed] \in Seq(Insn)
      /\ prog.cond \subseteq Locs
  BY <1>1 DEF Program
<1>3. Len(prog.body[prog.seed]) \in Nat
  BY <1>2
<1>4. walked \in Seq(Sites) /\ kept \subseteq DOMAIN walked
  BY DEF Init, Begin
<1>5. block \in Blocks /\ pos \in 0..Len(prog.body[block])
  BY <1>2, <1>3 DEF Init, Begin
<1>6. QED
  BY <1>1, <1>2, <1>4, <1>5 DEF Init, Begin, TypeOK

\* Passing an instruction keeps the types, whatever is kept and pending.
LEMMA PassTypeOK ==
    ASSUME TypeOK, Walking, Pass,
           kept' \subseteq kept \cup {Len(walked) + 1},
           pending' \subseteq Locs,
           status' \in {"walking", "walked"}
    PROVE  TypeOK'
<1>1. Here \in Sites /\ pos - 1 \in 0..Len(prog.body[block])
  BY ThisIsAnInsn
<1>2. walked \in Seq(Sites) /\ walked' = Append(walked, Here)
  BY DEF TypeOK, Pass
<1>3. walked' \in Seq(Sites) /\ Len(walked') = Len(walked) + 1
  BY <1>1, <1>2
<1>4. kept' \subseteq DOMAIN walked'
  BY <1>2, <1>3 DEF TypeOK
<1>5. QED
  BY <1>1, <1>3, <1>4 DEF TypeOK, Pass

\* Every step keeps the types.
LEMMA NextTypeOK == TypeOK /\ [Next]_vars => TypeOK'
<1> SUFFICES ASSUME TypeOK, [Next]_vars PROVE TypeOK'
  OBVIOUS
<1>1. CASE Truncate
  BY <1>1, LimitsAssumption DEF TypeOK, Truncate
<1>2. CASE Complete
  BY <1>2 DEF TypeOK, Complete
<1>3. CASE InstructionLimit \/ Call \/ UnmodellableMemory \/ Finalize
  BY <1>1, <1>2, <1>3 DEF InstructionLimit, Call, UnmodellableMemory, Finalize
<1>4. CASE Other
  BY <1>1, <1>4, PassTypeOK DEF Other, Walking, TypeOK
<1>5. CASE Skip
  BY <1>5, PassTypeOK DEF Skip, Walking, TypeOK
<1>6. CASE Keep
  <2>1. This \in Insn
    BY <1>6, ThisIsAnInsn DEF Keep
  <2>2. pending' \subseteq Locs
    BY <1>6, <2>1 DEF Keep, TypeOK, Insn, Effect
  <2>3. status' \in {"walking", "walked"}
    BY <1>6 DEF Keep, Walking
  <2>4. QED
    BY <1>6, <2>2, <2>3, PassTypeOK DEF Keep
<1>7. CASE Follow
  <2>1. PICK p \in Blocks : /\ block' = p /\ pos' = Len(prog.body[p])
                            /\ visited' = visited \cup {p}
    BY <1>7 DEF Follow
  <2>2. prog.body[p] \in Seq(Insn)
    BY <2>1 DEF TypeOK, Program
  <2>3. pos' \in 0..Len(prog.body[p])
    BY <2>1, <2>2
  <2>4. QED
    BY <1>7, <2>1, <2>3 DEF Follow, TypeOK
<1>8. CASE RejectUnpinnedRoundingMode
  BY <1>8 DEF RejectUnpinnedRoundingMode, TypeOK
<1>9. CASE UNCHANGED vars
  BY <1>9 DEF vars, TypeOK
<1>10. QED
  BY <1>3, <1>4, <1>5, <1>6, <1>7, <1>8, <1>9 DEF Next

\* Every variable of the walk keeps its type.
THEOREM TypeCorrect == Spec => []TypeOK
<1>1. Init => TypeOK
  BY InitTypeOK
<1>2. TypeOK /\ [Next]_vars => TypeOK'
  BY NextTypeOK
<1>3. QED
  BY <1>1, <1>2, PTL DEF Spec

-----------------------------------------------------------------------------
(* The slice is closed under its definitions. *)

\* What passing one instruction leaves as it was.
LEMMA PassFacts ==
    ASSUME TypeOK, Walking, Pass, NEW n, n = Len(walked)
    PROVE  /\ n \in Nat
           /\ DOMAIN walked = 1..n
           /\ DOMAIN walked' = 1..(n + 1)
           /\ Len(walked') = n + 1
           /\ \A j \in 1..n : WrittenAt(j)' = WrittenAt(j)
           /\ \A j \in {0} \cup 1..n : ReadAt(j)' = ReadAt(j)
           /\ WrittenAt(n + 1)' = Writes(This)
           /\ ReadAt(n + 1)' \subseteq This.uses \cup {"mem"}
<1>1. walked \in Seq(Sites) /\ Here \in Sites
      /\ walked' = Append(walked, Here) /\ prog' = prog
  BY ThisIsAnInsn DEF TypeOK, Pass
<1>2. /\ n \in Nat /\ Len(walked') = n + 1
      /\ DOMAIN walked = 1..n
      /\ DOMAIN walked' = 1..(n + 1)
  BY <1>1
<1>3. \A j \in 1..n : walked'[j] = walked[j]
  BY <1>1
<1>4. walked'[n + 1] = Here
  BY <1>1
<1>5. \A j \in 1..n : InsnAt(walked[j])' = InsnAt(walked[j])
  BY <1>1, <1>3 DEF InsnAt
<1>6. InsnAt(walked[n + 1])' = This
  BY <1>1, <1>4 DEF InsnAt, This
<1>7. \A j \in 1..n : WrittenAt(j)' = WrittenAt(j)
  BY <1>5 DEF WrittenAt, Writes
<1>8. \A j \in {0} \cup 1..n : ReadAt(j)' = ReadAt(j)
  BY <1>1, <1>5 DEF ReadAt
<1>9. WrittenAt(n + 1)' = Writes(This)
  BY <1>6 DEF WrittenAt, Writes
<1>10. ReadAt(n + 1)' \subseteq This.uses \cup {"mem"}
  <2>1. n + 1 # 0
    BY <1>2
  <2>2. QED
    BY <1>6, <2>1 DEF ReadAt
<1>11. QED
  BY <1>2, <1>7, <1>8, <1>9, <1>10

\* Passing an instruction keeps the slice closed if the instruction is kept
\* whenever it writes something pending, or memory below a kept instruction,
\* and if what it does not write stays pending with what it reads.
LEMMA PassClosed ==
    ASSUME TypeOK, SliceClosed, Walking, Pass, NEW n, n = Len(walked),
           kept' = kept \/ kept' = kept \cup {n + 1},
           pending \cap Writes(This) # {} => n + 1 \in kept',
           pending \ Writes(This) \subseteq pending',
           n + 1 \in kept' => This.uses \subseteq pending',
           "mem" \in Writes(This) /\ kept # {} => n + 1 \in kept'
    PROVE  SliceClosed'
<1>f. /\ n \in Nat
      /\ DOMAIN walked = 1..n /\ DOMAIN walked' = 1..(n + 1)
      /\ Len(walked') = n + 1
      /\ \A j \in 1..n : WrittenAt(j)' = WrittenAt(j)
      /\ \A j \in {0} \cup 1..n : ReadAt(j)' = ReadAt(j)
      /\ WrittenAt(n + 1)' = Writes(This)
      /\ ReadAt(n + 1)' \subseteq This.uses \cup {"mem"}
  BY PassFacts
<1>0. kept \subseteq 1..n /\ n \in Nat
  BY <1>f DEF TypeOK
<1>1. "mem" \notin Locs /\ prog.cond \subseteq Locs
  BY RegsAssumption DEF Locs, TypeOK, Program
<1>2. \A l : \A k \in {0} \cup 1..n, m \in 0..n :
         Unwritten(l, k, m)' <=> Unwritten(l, k, m)
  <2>1. ASSUME NEW l, NEW k \in {0} \cup 1..n, NEW m \in 0..n
        PROVE  Unwritten(l, k, m)' <=> Unwritten(l, k, m)
    <3>1. \A j \in (k + 1)..m : WrittenAt(j)' = WrittenAt(j)
      BY <1>0, <1>f
    <3>2. QED
      BY <3>1 DEF Unwritten
  <2>2. QED
    BY <2>1
<1>3. ASSUME NEW k \in Readers', NEW d \in DOMAIN walked', k < d,
             NEW l \in ReadAt(k)' \cap WrittenAt(d)',
             Unwritten(l, k, d - 1)'
      PROVE  d \in kept'
  <2>1. k \in {0} \cup kept /\ k \in {0} \cup 1..n /\ d \in 1..(n + 1)
    BY <1>0, <1>3, <1>f DEF Readers
  <2>2. l \in ReadAt(k) /\ Unwritten(l, k, d - 1)
    BY <1>0, <1>2, <1>3, <2>1, <1>f
  <2>3. CASE d \in 1..n
    <3>1. l \in WrittenAt(d)
      BY <2>3, <1>3, <1>f
    <3>2. d \in kept
      BY <1>3, <2>1, <2>2, <2>3, <3>1, <1>f DEF SliceClosed, Readers
    <3>3. QED
      BY <3>2
  <2>4. CASE d = n + 1
    <3>1. l \in Writes(This)
      BY <1>3, <2>4, <1>f
    <3>2. CASE l = "mem"
      <4>1. k # 0
        BY <1>1, <2>2, <3>2 DEF ReadAt
      <4>2. kept # {}
        BY <2>1, <4>1
      <4>3. QED
        BY <2>4, <3>1, <3>2, <4>2
    <3>3. CASE l # "mem"
      <4>1. l \in pending
        <5>1. d - 1 = n
          BY <2>4, <1>0
        <5>2. k \in Readers /\ Unwritten(l, k, Len(walked))
          BY <2>1, <2>2, <5>1 DEF Readers
        <5>3. QED
          BY <2>2, <3>3, <5>2 DEF SliceClosed
      <4>2. QED
        BY <2>4, <3>1, <4>1
    <3>4. QED
      BY <3>2, <3>3
  <2>5. QED
    BY <1>0, <2>1, <2>3, <2>4
<1>4. ASSUME NEW k \in Readers', NEW l \in ReadAt(k)' \ {"mem"},
             Unwritten(l, k, Len(walked))'
      PROVE  l \in pending'
  <2>1. k \in {0} \cup kept' /\ k \in {0} \cup 1..(n + 1)
    BY <1>0 DEF Readers
  <2>2. CASE k \in {0} \cup 1..n
    <3>1. k \in Readers /\ l \in ReadAt(k)
      BY <1>0, <2>1, <2>2, <1>4, <1>f DEF Readers
    <3>2. \A j \in (k + 1)..(n + 1) : l \notin WrittenAt(j)'
      BY <1>4, <1>f DEF Unwritten
    <3>3. Unwritten(l, k, n)
      <4>1. \A j \in (k + 1)..n : j \in 1..n /\ j \in (k + 1)..(n + 1)
        BY <1>0, <2>2
      <4>2. \A j \in (k + 1)..n : l \notin WrittenAt(j)
        BY <3>2, <4>1, <1>f
      <4>3. QED
        BY <4>2 DEF Unwritten
    <3>4. l \in pending
      BY <1>4, <3>1, <3>3 DEF SliceClosed
    <3>5. l \notin Writes(This)
      <4>1. n + 1 \in (k + 1)..(n + 1)
        BY <1>0, <2>2
      <4>2. QED
        BY <3>2, <4>1, <1>f
    <3>6. QED
      BY <3>4, <3>5
  <2>3. CASE k = n + 1
    <3>1. n + 1 \in kept'
      BY <1>0, <2>1, <2>3
    <3>2. l \in This.uses
      BY <1>4, <2>3, <1>f
    <3>3. QED
      BY <3>1, <3>2
  <2>4. QED
    BY <2>1, <2>2, <2>3
<1>5. \A k \in Readers', d \in DOMAIN walked' :
         k < d => \A l \in ReadAt(k)' \cap WrittenAt(d)' :
                    Unwritten(l, k, d - 1)' => d \in kept'
  BY <1>3
<1>6. \A k \in Readers' : \A l \in ReadAt(k)' \ {"mem"} :
         Unwritten(l, k, Len(walked))' => l \in pending'
  BY <1>4
<1>7. QED
  BY <1>5, <1>6, Zenon DEF SliceClosed

\* The steps that pass no instruction.
LEMMA QuietClosed ==
    ASSUME SliceClosed, UNCHANGED <<prog, pending, kept, walked>>
    PROVE  SliceClosed'
<1>1. Readers' = Readers /\ Len(walked)' = Len(walked)
      /\ DOMAIN walked' = DOMAIN walked
  BY DEF Readers
<1>2. \A j : InsnAt(j)' = InsnAt(j)
  BY DEF InsnAt
<1>3. \A j : WrittenAt(j)' = WrittenAt(j)
  BY <1>2 DEF WrittenAt, Writes, InsnAt
<1>4. \A j : ReadAt(j)' = ReadAt(j)
  BY <1>2 DEF ReadAt, InsnAt
<1>5. \A l, k, n : Unwritten(l, k, n)' <=> Unwritten(l, k, n)
  BY <1>3 DEF Unwritten
<1>6. QED
  BY <1>1, <1>3, <1>4, <1>5 DEF SliceClosed

\* The walk starts closed: the condition is pending.
LEMMA InitClosed == Init => SliceClosed /\ DoneWhenResolved
<1> SUFFICES ASSUME Init PROVE SliceClosed /\ DoneWhenResolved
  OBVIOUS
<1>1. DOMAIN walked = {} /\ Readers = {0} /\ ReadAt(0) = pending
  BY DEF Init, Begin, Readers, ReadAt
<1>2. QED
  BY <1>1 DEF Init, Begin, SliceClosed, DoneWhenResolved

\* Every step keeps the slice closed.
LEMMA NextClosed ==
    TypeOK /\ SliceClosed /\ DoneWhenResolved /\ [Next]_vars
        => SliceClosed' /\ DoneWhenResolved'
<1> SUFFICES ASSUME TypeOK, SliceClosed, DoneWhenResolved, [Next]_vars
             PROVE  SliceClosed' /\ DoneWhenResolved'
  OBVIOUS
<1>1. CASE Truncate \/ Complete
  BY <1>1, QuietClosed DEF Truncate, Complete, DoneWhenResolved
<1>2. CASE InstructionLimit \/ Call \/ UnmodellableMemory \/ Finalize
  BY <1>1, <1>2 DEF InstructionLimit, Call, UnmodellableMemory, Finalize
<1>3. CASE Other
  <2>1. CASE Truncate
    BY <1>1, <2>1
  <2>2. CASE Pass /\ UNCHANGED <<status, pending, kept>>
    <3>1. Walking /\ This \in Insn
      BY <1>3, ThisIsAnInsn DEF Other
    <3>2. This.kind = "harmless" \/ pending = {}
      BY <1>3, <2>2 DEF Other, Truncate, Pass, Walking
    <3>3. CASE pending = {}
      <4>1. kept = {}
        BY <3>1, <3>3 DEF DoneWhenResolved, Walking
      <4>2. kept' = kept /\ pending' = pending
        BY <2>2
      <4>3. Len(walked) + 1 \notin kept'
        BY <4>1, <4>2
      <4>4. SliceClosed'
        BY <2>2, <3>1, <3>3, <4>1, <4>2, <4>3, PassClosed
      <4>5. QED
        BY <2>2, <4>4 DEF DoneWhenResolved
    <3>4. CASE pending # {} /\ This.kind = "harmless"
      <4>1. Writes(This) = {}
        BY <3>1, <3>4 DEF Writes, Insn, Effect
      <4>2. Len(walked) + 1 \notin kept'
        BY <2>2, <3>1, PassFacts DEF TypeOK
      <4>3. SliceClosed'
        BY <2>2, <3>1, <4>1, <4>2, PassClosed
      <4>4. QED
        BY <2>2, <4>3 DEF DoneWhenResolved
    <3>5. QED
      BY <3>2, <3>3, <3>4
  <2>3. QED
    BY <1>3, <2>1, <2>2 DEF Other
<1>4. CASE Skip
  <2>1. Writes(This) \cap pending = {} /\ "mem" \notin Writes(This)
    BY <1>4, RegsAssumption, ThisIsAnInsn
       DEF Skip, Wanted, Writes, TypeOK, Locs, Insn, Effect
  <2>2. Len(walked) + 1 \notin kept'
    BY <1>4, PassFacts DEF Skip, TypeOK
  <2>3. SliceClosed'
    BY <1>4, <2>1, <2>2, PassClosed DEF Skip
  <2>4. QED
    BY <1>4, <2>3 DEF Skip, DoneWhenResolved
<1>5. CASE Keep
  <2>1. Len(walked) + 1 \in kept' /\ kept' = kept \cup {Len(walked) + 1}
    BY <1>5 DEF Keep
  <2>2. pending \ Writes(This) \subseteq pending'
        /\ This.uses \subseteq pending'
    BY <1>5, ThisIsAnInsn DEF Keep, Writes
  <2>3. SliceClosed'
    BY <1>5, <2>1, <2>2, PassClosed DEF Keep
  <2>4. DoneWhenResolved'
    BY <1>5 DEF Keep, DoneWhenResolved
  <2>5. QED
    BY <2>3, <2>4
<1>6. CASE Follow
  BY <1>6, QuietClosed DEF Follow, DoneWhenResolved
<1>7. CASE RejectUnpinnedRoundingMode
  BY <1>7, QuietClosed DEF RejectUnpinnedRoundingMode, DoneWhenResolved
<1>8. CASE UNCHANGED vars
  BY <1>8, QuietClosed DEF vars, DoneWhenResolved
<1>9. QED
  BY <1>2, <1>3, <1>4, <1>5, <1>6, <1>7, <1>8 DEF Next

\* Whatever the function, the branch and the limits, the walk binds no read
\* to the wrong definition.
THEOREM SliceAlwaysClosed == Spec => []SliceClosed
<1>1. Init => TypeOK /\ SliceClosed /\ DoneWhenResolved
  BY InitTypeOK, InitClosed
<1>2. TypeOK /\ SliceClosed /\ DoneWhenResolved /\ [Next]_vars
        => TypeOK' /\ SliceClosed' /\ DoneWhenResolved'
  BY NextTypeOK, NextClosed
<1>3. QED
  BY <1>1, <1>2, PTL DEF Spec

-----------------------------------------------------------------------------
(* The walk goes up the way every execution has come.                      *)

\* off[b] is how many instructions the walk had passed when it entered b.
\* The blocks visited form a chain of lone predecessors from the branch to
\* where the walk is, and what it passed is what they hold, upwards.
Climbed(off) ==
    /\ off \in [visited -> Nat]
    /\ prog.seed \in visited /\ off[prog.seed] = 0
    /\ block \in visited
    /\ off[block] + (Len(prog.body[block]) - pos) = Len(walked)
    /\ \A b \in visited \ {block} :
         \E p \in visited : /\ Preds(b) = {p} /\ p # prog.seed
                            /\ off[p] = off[b] + Len(prog.body[b])
    /\ \A b \in visited : \A i \in DOMAIN prog.body[b] :
         b # block \/ i > pos =>
            /\ off[b] + Len(prog.body[b]) + 1 - i \in DOMAIN walked
            /\ walked[off[b] + Len(prog.body[b]) + 1 - i] = <<b, i>>

\* The walk has not gone round from the entry to a block that jumps to it.
StaysInside == prog.entry \in visited => block = prog.entry

\* An execution that has just gone through a block of the chain has come to
\* it through the blocks above, and holds the instructions the walk passed
\* there; all of them, unless the walk went where only a second entry into
\* the function would have come from.
Retraced(off) ==
    path # <<>> /\ Head(path) \in visited =>
        /\ \A k \in DOMAIN walked :
             k > off[Head(path)] /\ k - off[Head(path)] <= Len(trace) =>
                trace[k - off[Head(path)]] = walked[k]
        /\ StaysInside => Len(walked) <= off[Head(path)] + Len(trace)

\* What is executed is the function, once the slice is made.
Executed ==
    /\ path \in Seq(Blocks) /\ trace \in Seq(Sites)
    /\ \A d \in DOMAIN trace : trace[d][2] \in DOMAIN prog.body[trace[d][1]]
    /\ path # <<>> => status \in {"complete", "truncated"}
    /\ path = <<>> => trace = <<>>

\* A slice is complete only after the check of the rounding mode.
Checked ==
    status = "complete" =>
        \/ \A k \in kept : InsnAt(walked[k]).fpu # "pins"
        \/ \A b \in Blocks : \A i \in DOMAIN prog.body[b] :
             prog.body[b][i].fpu # "writes"

Unbroken == \E off : Climbed(off) /\ Retraced(off)

RunInv == TypeOK /\ SliceClosed /\ DoneWhenResolved /\ Executed /\ Checked
            /\ Unbroken

\* One step of the walk, in the terms the chain is about.
LEMMA WalkSteps ==
    ASSUME TypeOK, [Next]_vars
    PROVE  \/ UNCHANGED <<prog, block, pos, kept, walked, visited>>
           \/ /\ Walking /\ Pass
              /\ kept' = kept \/ kept' = kept \cup {Len(walked) + 1}
              /\ status' \in {"walking", "walked"}
           \/ Follow
<1>1. CASE InstructionLimit \/ Call \/ UnmodellableMemory \/ Finalize
  BY <1>1 DEF InstructionLimit, Call, UnmodellableMemory, Finalize, Truncate, Complete
<1>2. CASE Other
  BY <1>2 DEF Other, Truncate, Walking
<1>3. CASE Skip \/ Keep
  BY <1>3 DEF Skip, Keep, Walking
<1>4. CASE RejectUnpinnedRoundingMode \/ UNCHANGED vars
  BY <1>4 DEF RejectUnpinnedRoundingMode, vars
<1>5. QED
  BY <1>1, <1>2, <1>3, <1>4 DEF Next

\* The walk begins where the chain does.
LEMMA InitClimbed == Init => \E off : Climbed(off)
<1> SUFFICES ASSUME Init PROVE \E off : Climbed(off)
  OBVIOUS
<1> DEFINE off == [b \in {prog.seed} |-> 0]
<1>1. prog \in Program /\ prog.seed \in Blocks
  BY InitTypeOK DEF TypeOK, Program
<1>2. prog.body[prog.seed] \in Seq(Insn)
  BY <1>1 DEF Program
<1>3. Len(prog.body[prog.seed]) \in Nat
      /\ DOMAIN prog.body[prog.seed] = 1..Len(prog.body[prog.seed])
  BY <1>2
<1>4. /\ visited = {prog.seed} /\ block = prog.seed
      /\ pos = Len(prog.body[prog.seed]) /\ walked = <<>>
  BY DEF Init, Begin
<1>5. Climbed(off)
  BY <1>3, <1>4 DEF Climbed
<1>6. QED
  BY <1>5

\* Where the next instruction up goes.
LEMMA OneMoreAbove ==
    ASSUME NEW o \in Nat, NEW n \in Nat, NEW p \in 1..n, NEW w \in Nat, o + (n - p) = w
    PROVE  o + (n - (p - 1)) = w + 1 /\ o + n + 1 - p = w + 1
OBVIOUS

\* Passing an instruction adds the next one up.
LEMMA PassClimbed ==
    ASSUME TypeOK, Walking, Pass, NEW off, Climbed(off)
    PROVE  Climbed(off)'
<1>1. /\ walked \in Seq(Sites) /\ Here \in Sites
      /\ walked' = Append(walked, Here) /\ Here = <<block, pos>>
      /\ UNCHANGED <<prog, block, visited>> /\ pos' = pos - 1
  BY ThisIsAnInsn DEF TypeOK, Pass, Here
<1>2. prog.body \in [Blocks -> Seq(Insn)] /\ block \in Blocks /\ visited \subseteq Blocks
  BY DEF TypeOK, Program
<1>3. pos \in 1..Len(prog.body[block]) /\ Len(prog.body[block]) \in Nat
  BY <1>2 DEF TypeOK, Walking
<1>4. Len(walked') = Len(walked) + 1 /\ DOMAIN walked' = 1..(Len(walked) + 1)
      /\ DOMAIN walked = 1..Len(walked) /\ Len(walked) \in Nat
      /\ walked'[Len(walked) + 1] = <<block, pos>>
      /\ \A k \in DOMAIN walked : walked'[k] = walked[k]
  BY <1>1
<1>5. off[block] \in Nat /\ off[block] + (Len(prog.body[block]) - pos) = Len(walked)
  BY DEF Climbed
<1>6. off[block] + (Len(prog.body[block]) - (pos - 1)) = Len(walked) + 1
  BY <1>3, <1>4, <1>5, OneMoreAbove
<1>7. ASSUME NEW b \in visited, NEW i \in DOMAIN prog.body[b],
             b # block \/ i > pos - 1
      PROVE  /\ off[b] + Len(prog.body[b]) + 1 - i \in DOMAIN walked'
             /\ walked'[off[b] + Len(prog.body[b]) + 1 - i] = <<b, i>>
  <2>1. CASE b # block \/ i > pos
    <3>1. /\ off[b] + Len(prog.body[b]) + 1 - i \in DOMAIN walked
          /\ walked[off[b] + Len(prog.body[b]) + 1 - i] = <<b, i>>
      BY <2>1 DEF Climbed
    <3>2. QED
      BY <3>1, <1>4
  <2>2. CASE b = block /\ i = pos
    <3>1. off[b] + Len(prog.body[b]) + 1 - i = Len(walked) + 1
      BY <1>3, <1>4, <1>5, <2>2, OneMoreAbove
    <3>2. QED
      BY <3>1, <1>4, <2>2
  <2>3. i \in Nat
    BY <1>2
  <2>4. QED
    BY <2>1, <2>2, <2>3, <1>3, <1>7
<1>8. \A b \in visited \ {block} :
         \E p \in visited : /\ Preds(b)' = {p} /\ p # prog.seed
                            /\ off[p] = off[b] + Len(prog.body[b])
  BY <1>1 DEF Climbed, Preds
<1>9. (\A b \in visited : \A i \in DOMAIN prog.body[b] :
         b # block \/ i > pos =>
            /\ off[b] + Len(prog.body[b]) + 1 - i \in DOMAIN walked
            /\ walked[off[b] + Len(prog.body[b]) + 1 - i] = <<b, i>>)'
  BY <1>1, <1>7
<1>10. (off[block] + (Len(prog.body[block]) - pos) = Len(walked))'
  BY <1>1, <1>4, <1>6
<1>11. QED
  BY <1>1, <1>8, <1>9, <1>10 DEF Climbed

\* Going on into the lone predecessor makes the chain longer.
LEMMA FollowClimbed ==
    ASSUME TypeOK, Follow, NEW off, Climbed(off)
    PROVE  \E longer : Climbed(longer)'
<1>1. PICK p \in Blocks : /\ CanFollow(p) /\ block' = p
                          /\ pos' = Len(prog.body[p]) /\ visited' = visited \cup {p}
  BY DEF Follow
<1>2. /\ UNCHANGED <<prog, walked>> /\ pos = 0
      /\ p \notin visited /\ Preds(block) = {p}
  BY <1>1 DEF Follow, AtBlockEntry, CanFollow
<1>0. PICK longer : longer = [b \in visited \cup {p} |->
                                IF b \in visited THEN off[b] ELSE Len(walked)]
  OBVIOUS
<1>3. prog.body \in [Blocks -> Seq(Insn)] /\ block \in Blocks /\ visited \subseteq Blocks
      /\ walked \in Seq(Sites)
  BY DEF TypeOK, Program
<1>4. Len(walked) \in Nat /\ \A b \in Blocks : Len(prog.body[b]) \in Nat
      /\ DOMAIN prog.body[p] = 1..Len(prog.body[p])
  BY <1>3
<1>5. /\ off \in [visited -> Nat] /\ block \in visited
      /\ off[block] + Len(prog.body[block]) = Len(walked)
      /\ prog.seed \in visited /\ off[prog.seed] = 0
  BY <1>2, <1>4, <1>3 DEF Climbed
<1>6. /\ longer \in [visited' -> Nat] /\ longer[p] = Len(walked)
      /\ \A b \in visited : longer[b] = off[b]
  BY <1>0, <1>1, <1>2, <1>4, <1>5
<1>7. longer[p] + (Len(prog.body[p]) - pos') = Len(walked)
  BY <1>1, <1>4, <1>6
<1>8. ASSUME NEW b \in visited' \ {p}
      PROVE  \E q \in visited' : /\ Preds(b) = {q} /\ q # prog.seed
                                 /\ longer[q] = longer[b] + Len(prog.body[b])
  <2>1. b \in visited
    BY <1>1, <1>8
  <2>2. CASE b = block
    BY <1>1, <1>2, <1>5, <1>6, <2>2
  <2>3. CASE b # block
    <3>1. PICK q \in visited : /\ Preds(b) = {q} /\ q # prog.seed
                                /\ off[q] = off[b] + Len(prog.body[b])
      BY <2>1, <2>3 DEF Climbed
    <3>2. QED
      BY <3>1, <2>1, <1>1, <1>6
  <2>4. QED
    BY <2>2, <2>3
<1>9. ASSUME NEW b \in visited', NEW i \in DOMAIN prog.body[b], b # p \/ i > pos'
      PROVE  /\ longer[b] + Len(prog.body[b]) + 1 - i \in DOMAIN walked
             /\ walked[longer[b] + Len(prog.body[b]) + 1 - i] = <<b, i>>
  <2>1. b # p
    BY <1>1, <1>4, <1>9
  <2>2. b \in visited
    BY <1>1, <2>1
  <2>3. i \in 1..Len(prog.body[b])
    BY <1>3, <2>2
  <2>4. b # block \/ i > pos
    BY <1>2, <2>3
  <2>5. QED
    BY <2>2, <2>4, <1>6 DEF Climbed
<1>10. Preds(block) = {p} /\ \A b : Preds(b)' = Preds(b)
  BY <1>2 DEF Preds
<1>11. (longer[block] + (Len(prog.body[block]) - pos) = Len(walked))'
  BY <1>1, <1>2, <1>7
<1>12. (\A b \in visited \ {block} :
         \E q \in visited : /\ Preds(b) = {q} /\ q # prog.seed
                            /\ longer[q] = longer[b] + Len(prog.body[b]))'
  BY <1>1, <1>2, <1>8, <1>10
<1>13. (\A b \in visited : \A i \in DOMAIN prog.body[b] :
         b # block \/ i > pos =>
            /\ longer[b] + Len(prog.body[b]) + 1 - i \in DOMAIN walked
            /\ walked[longer[b] + Len(prog.body[b]) + 1 - i] = <<b, i>>)'
  BY <1>1, <1>2, <1>9
<1>14. (longer \in [visited -> Nat] /\ prog.seed \in visited
           /\ longer[prog.seed] = 0 /\ block \in visited)'
  BY <1>1, <1>2, <1>5, <1>6
<1>15. Climbed(longer)'
  BY <1>11, <1>12, <1>13, <1>14 DEF Climbed
<1>16. QED
  BY <1>15

\* Whatever the walk does, the chain grows with it.
LEMMA NextClimbed ==
    TypeOK /\ [Next]_vars /\ (\E off : Climbed(off)) => (\E off : Climbed(off))'
<1> SUFFICES ASSUME TypeOK, [Next]_vars, NEW off, Climbed(off)
             PROVE  \E longer : Climbed(longer)'
  OBVIOUS
<1>1. CASE UNCHANGED <<prog, block, pos, kept, walked, visited>>
  <2>1. \A b : Preds(b)' = Preds(b)
    BY <1>1 DEF Preds
  <2>2. Climbed(off)'
    BY <1>1, <2>1 DEF Climbed
  <2>3. QED
    BY <2>2
<1>2. CASE Walking /\ Pass
  BY <1>2, PassClimbed
<1>3. CASE Follow
  BY <1>3, FollowClimbed
<1>4. QED
  BY <1>1, <1>2, <1>3, WalkSteps

\* A slice that is made is not walked again.
LEMMA WalkIsOver == status \in {"complete", "truncated"} => ~Next
BY DEF Next, InstructionLimit, Call, UnmodellableMemory, Other, Skip, Keep,
       Follow, Finalize, RejectUnpinnedRoundingMode, Walking, AtBlockEntry

\* What executing a block adds to the run.
LEMMA UpwardsFacts ==
    ASSUME TypeOK, NEW b \in Blocks
    PROVE  /\ Upwards(b) \in Seq(Sites)
           /\ Len(prog.body[b]) \in Nat
           /\ DOMAIN prog.body[b] = 1..Len(prog.body[b])
           /\ Len(Upwards(b)) = Len(prog.body[b])
           /\ \A d \in 1..Len(prog.body[b]) :
                /\ Len(prog.body[b]) + 1 - d \in 1..Len(prog.body[b])
                /\ Upwards(b)[d] = <<b, Len(prog.body[b]) + 1 - d>>
<1>1. prog.body[b] \in Seq(Insn)
  BY DEF TypeOK, Program
<1>2. Len(prog.body[b]) \in Nat /\ DOMAIN prog.body[b] = 1..Len(prog.body[b])
  BY <1>1
<1>3. \A d \in 1..Len(prog.body[b]) :
         /\ Len(prog.body[b]) + 1 - d \in 1..Len(prog.body[b])
         /\ <<b, Len(prog.body[b]) + 1 - d>> \in Sites
  BY <1>2 DEF Sites
<1>4. Upwards(b) \in Seq(Sites) /\ Len(Upwards(b)) = Len(prog.body[b])
      /\ \A d \in 1..Len(prog.body[b]) :
           Upwards(b)[d] = <<b, Len(prog.body[b]) + 1 - d>>
  BY <1>2, <1>3 DEF Upwards
<1>5. QED
  BY <1>2, <1>3, <1>4

\* What comes of putting one sequence before another.
LEMMA Prepended ==
    ASSUME NEW S, NEW s \in Seq(S), NEW t \in Seq(S)
    PROVE  /\ s \o t \in Seq(S) /\ Len(s \o t) = Len(s) + Len(t)
           /\ \A d \in 1..Len(s) : (s \o t)[d] = s[d]
           /\ \A d \in 1..Len(t) : (s \o t)[Len(s) + d] = t[d]
OBVIOUS

\* The state of the run after a block.
LEMMA ExecuteFacts ==
    ASSUME TypeOK, Executed, NEW b \in Blocks, Execute(b), UNCHANGED vars
    PROVE  /\ path' \in Seq(Blocks) /\ path' # <<>> /\ Head(path') = b
           /\ trace' \in Seq(Sites)
           /\ Len(trace') = Len(prog.body[b]) + Len(trace)
           /\ \A d \in 1..Len(prog.body[b]) :
                trace'[d] = <<b, Len(prog.body[b]) + 1 - d>>
           /\ \A d \in 1..Len(trace) : trace'[Len(prog.body[b]) + d] = trace[d]
           /\ \A d \in DOMAIN trace' : trace'[d][2] \in DOMAIN prog.body[trace'[d][1]]
<1>1. path \in Seq(Blocks) /\ trace \in Seq(Sites)
  BY DEF Executed
<1>2. path' = <<b>> \o path /\ trace' = Upwards(b) \o trace
  BY DEF Execute
<1>3. path' \in Seq(Blocks) /\ Len(path') = 1 + Len(path) /\ path'[1] = b
  BY <1>1, <1>2
<1>4. path' # <<>> /\ Head(path') = b
  BY <1>1, <1>3
<1>5. PICK n \in Nat : n = Len(prog.body[b])
  BY UpwardsFacts
<1>6. /\ trace' \in Seq(Sites) /\ Len(trace') = n + Len(trace)
      /\ \A d \in 1..n : trace'[d] = Upwards(b)[d]
      /\ \A d \in 1..Len(trace) : trace'[n + d] = trace[d]
  <2>1. Upwards(b) \in Seq(Sites) /\ Len(Upwards(b)) = n
    BY <1>5, UpwardsFacts
  <2>2. PICK up : up = Upwards(b)
    OBVIOUS
  <2>3. /\ up \o trace \in Seq(Sites) /\ Len(up \o trace) = Len(up) + Len(trace)
        /\ \A d \in 1..Len(up) : (up \o trace)[d] = up[d]
        /\ \A d \in 1..Len(trace) : (up \o trace)[Len(up) + d] = trace[d]
    BY <1>1, <2>1, <2>2, Prepended
  <2>4. QED
    BY <1>2, <2>1, <2>2, <2>3
<1>7. \A d \in 1..n : trace'[d] = <<b, n + 1 - d>> /\ n + 1 - d \in DOMAIN prog.body[b]
  BY <1>5, <1>6, UpwardsFacts
<1>8. ASSUME NEW d \in DOMAIN trace'
      PROVE  trace'[d][2] \in DOMAIN prog.body[trace'[d][1]]
  <2>1. d \in 1..(n + Len(trace)) /\ Len(trace) \in Nat
    BY <1>1, <1>6
  <2>2. CASE d \in 1..n
    BY <2>2, <1>7
  <2>3. CASE d - n \in 1..Len(trace)
    <3>1. trace'[d] = trace[d - n]
      BY <2>1, <2>3, <1>6
    <3>2. d - n \in DOMAIN trace
      BY <2>3, <1>1
    <3>3. QED
      BY <3>1, <3>2 DEF Executed
  <2>4. QED
    BY <2>1, <2>2, <2>3
<1>9. QED
  BY <1>3, <1>4, <1>5, <1>6, <1>7, <1>8

\* A step of the run is one of the walk, before anything is executed, or the
\* execution of a block.
LEMMA RunSteps ==
    ASSUME TypeOK, Executed, [RunNext]_runVars
    PROVE  \/ [Next]_vars /\ UNCHANGED <<path, trace>>
              /\ (path = <<>> \/ UNCHANGED vars)
           \/ /\ UNCHANGED vars
              /\ status \in {"complete", "truncated"}
              /\ \/ path = <<>> /\ Execute(prog.entry) /\ prog.entry \in Blocks
                 \/ /\ path # <<>>
                    /\ \E b \in prog.succ[Head(path)] \cap Blocks : Execute(b)
<1>1. CASE Slicing
  BY <1>1, WalkIsOver DEF Slicing, Executed
<1>2. CASE Enter
  BY <1>2 DEF Enter, TypeOK, Program
<1>3. CASE Advance
  <2>1. path \in Seq(Blocks) /\ path # <<>>
    BY <1>3 DEF Advance, Executed
  <2>2. Head(path) \in Blocks
    BY <2>1
  <2>3. prog.succ[Head(path)] \subseteq Blocks
    BY <2>2 DEF TypeOK, Program
  <2>4. status \in {"complete", "truncated"}
    BY <2>1 DEF Executed
  <2>5. QED
    BY <1>3, <2>1, <2>3, <2>4 DEF Advance
<1>4. CASE UNCHANGED runVars
  BY <1>4 DEF runVars, vars
<1>5. QED
  BY <1>1, <1>2, <1>3, <1>4 DEF RunNext

\* The function is the same throughout.
LEMMA SameProgram == [Next]_vars => prog' = prog
BY DEF Next, InstructionLimit, Call, UnmodellableMemory, Other, Skip, Keep,
       Follow, Finalize, RejectUnpinnedRoundingMode, Truncate, Complete, Pass, vars

\* A run executes what is in the function, and only once it is sliced.
LEMMA NextExecuted == TypeOK /\ Executed /\ [RunNext]_runVars => Executed'
<1> SUFFICES ASSUME TypeOK, Executed, [RunNext]_runVars PROVE Executed'
  OBVIOUS
<1>1. ASSUME NEW b \in Blocks, Execute(b), UNCHANGED vars,
             status \in {"complete", "truncated"}
      PROVE  Executed'
  <2>1. prog' = prog /\ status' = status
    BY <1>1 DEF vars
  <2>2. QED
    BY <1>1, <2>1, ExecuteFacts DEF Executed
<1>2. ASSUME [Next]_vars, UNCHANGED <<path, trace>>, path = <<>> \/ UNCHANGED vars
      PROVE  Executed'
  BY <1>2, SameProgram DEF Executed, vars
<1>3. QED
  BY <1>1, <1>2, RunSteps

\* Executing a block of the chain retraces the walk through it.
LEMMA ExecuteRetraced ==
    ASSUME TypeOK, Executed, NEW off, Climbed(off), Retraced(off),
           NEW b \in Blocks, Execute(b), UNCHANGED vars,
           \/ path = <<>> /\ b = prog.entry
           \/ path # <<>> /\ b \in prog.succ[Head(path)]
    PROVE  Retraced(off)'
<1>1. PICK n \in Nat : n = Len(prog.body[b]) /\ DOMAIN prog.body[b] = 1..n
  BY UpwardsFacts
<1>2. PICK m \in Nat : m = Len(trace)
  BY DEF Executed
<1>3. PICK w \in Nat : w = Len(walked) /\ DOMAIN walked = 1..w
  BY DEF TypeOK
<1>4. /\ Head(path') = b /\ Len(trace') = n + m
      /\ \A d \in 1..n : trace'[d] = <<b, n + 1 - d>>
      /\ \A d \in 1..m : trace'[n + d] = trace[d]
  BY ExecuteFacts, <1>1, <1>2
<1>5. SUFFICES ASSUME b \in visited
               PROVE  /\ \A k \in 1..w : k > off[b] /\ k - off[b] <= n + m =>
                            trace'[k - off[b]] = walked[k]
                      /\ StaysInside => w <= off[b] + (n + m)
  BY <1>3, <1>4 DEF Retraced, StaysInside, vars
<1>6. PICK o \in Nat : o = off[b]
  BY <1>5 DEF Climbed
<1>7. b = block => w <= o + n
  <2>1. pos \in Nat
    BY DEF TypeOK, Program
  <2>2. b = block => o + (n - pos) = w
    BY <1>1, <1>3, <1>6 DEF Climbed
  <2>3. QED
    BY <2>1, <2>2
<1>8. ASSUME NEW k \in 1..w, k > o, k - o <= n
      PROVE  trace'[k - o] = walked[k]
  <2>1. PICK i \in 1..n : i = n + 1 - (k - o)
    BY <1>8
  <2>2. o + n + 1 - i = k /\ n + 1 - (k - o) = i /\ k - o \in 1..n
    BY <1>8, <2>1
  <2>3. b # block \/ i > pos
    <3>1. SUFFICES ASSUME b = block PROVE i > pos
      OBVIOUS
    <3>2. pos \in Nat /\ o + (n - pos) = w
      BY <1>1, <1>3, <1>6, <3>1 DEF Climbed, TypeOK, Program
    <3>3. QED
      BY <3>2, <2>2
  <2>4. walked[k] = <<b, i>>
    BY <1>1, <1>5, <1>6, <2>1, <2>2, <2>3 DEF Climbed
  <2>5. trace'[k - o] = <<b, i>>
    BY <1>4, <2>2
  <2>6. QED
    BY <2>4, <2>5
<1>9. ASSUME b # block, path # <<>>
      PROVE  Head(path) \in visited /\ off[Head(path)] = o + n
  <2>1. PICK p \in visited : Preds(b) = {p} /\ off[p] = off[b] + Len(prog.body[b])
    BY <1>5, <1>9 DEF Climbed
  <2>2. Head(path) \in Blocks
    BY <1>9 DEF Executed
  <2>3. Head(path) \in Preds(b)
    BY <1>9, <2>2 DEF Preds
  <2>4. QED
    BY <1>1, <1>6, <2>1, <2>3
<1>10. ASSUME NEW k \in 1..w, k - o > n, k - o <= n + m
       PROVE  trace'[k - o] = walked[k]
  <2>1. b # block
    BY <1>7, <1>10
  <2>2. path # <<>>
    <3>1. m # 0
      BY <1>10
    <3>2. QED
      BY <1>2, <3>1 DEF Executed
  <2>3. PICK d \in 1..m : d = k - (o + n)
    BY <1>10
  <2>4. k - o = n + d
    BY <2>3
  <2>5. trace[k - (o + n)] = walked[k]
    BY <1>2, <1>3, <1>9, <1>10, <2>1, <2>2 DEF Retraced
  <2>6. QED
    BY <1>4, <2>3, <2>4, <2>5
<1>11. ASSUME StaysInside PROVE w <= o + (n + m)
  <2>1. CASE b = block
    BY <1>7, <2>1
  <2>2. CASE b # block
    <3>1. path # <<>>
      BY <1>5, <1>11, <2>2 DEF StaysInside
    <3>2. w <= (o + n) + m
      BY <1>2, <1>3, <1>9, <1>11, <2>2, <3>1 DEF Retraced
    <3>3. QED
      BY <3>2
  <2>3. QED
    BY <2>1, <2>2
<1>12. \A k \in 1..w : k > o /\ k - o <= n + m => trace'[k - o] = walked[k]
  BY <1>8, <1>10
<1>13. QED
  BY <1>6, <1>11, <1>12

\* The chain, and the executions along it, are as described in every state.
LEMMA NextUnbroken ==
    TypeOK /\ Executed /\ Unbroken /\ [RunNext]_runVars => Unbroken'
<1> SUFFICES ASSUME TypeOK, Executed, [RunNext]_runVars, Unbroken
             PROVE  Unbroken'
  OBVIOUS
<1>1. PICK off : Climbed(off) /\ Retraced(off)
  BY DEF Unbroken
<1>2. ASSUME [Next]_vars, UNCHANGED <<path, trace>>, path = <<>>
      PROVE  Unbroken'
  <2>1. PICK longer : Climbed(longer)'
    BY <1>1, <1>2, NextClimbed
  <2>2. Retraced(longer)'
    BY <1>2 DEF Retraced
  <2>3. QED
    BY <2>1, <2>2 DEF Unbroken
<1>3. ASSUME UNCHANGED vars PROVE Climbed(off)'
  <2>1. \A b : Preds(b)' = Preds(b)
    BY <1>3 DEF Preds, vars
  <2>2. QED
    BY <1>1, <1>3, <2>1 DEF Climbed, vars
<1>4. ASSUME UNCHANGED vars, UNCHANGED <<path, trace>> PROVE Unbroken'
  <2>1. Retraced(off)'
    BY <1>1, <1>4 DEF Retraced, StaysInside, vars
  <2>2. QED
    BY <1>3, <1>4, <2>1 DEF Unbroken
<1>5. ASSUME UNCHANGED vars, NEW b \in Blocks, Execute(b),
             \/ path = <<>> /\ b = prog.entry
             \/ path # <<>> /\ b \in prog.succ[Head(path)]
      PROVE  Unbroken'
  BY <1>1, <1>3, <1>5, ExecuteRetraced DEF Unbroken
<1>6. QED
  BY <1>2, <1>4, <1>5, RunSteps

\* The rounding check holds once it is made.
LEMMA NextChecked == TypeOK /\ Checked /\ [RunNext]_runVars => Checked'
<1> SUFFICES ASSUME TypeOK, Checked, [RunNext]_runVars, status' = "complete"
             PROVE  Checked'
  BY DEF Checked
<1>1. CASE UNCHANGED vars
  BY <1>1 DEF Checked, InsnAt, vars
<1>2. CASE RejectUnpinnedRoundingMode
  BY <1>2 DEF RejectUnpinnedRoundingMode, Checked, InsnAt
<1>3. CASE Next /\ ~RejectUnpinnedRoundingMode
  BY <1>3 DEF Next, InstructionLimit, Call, UnmodellableMemory, Other, Skip, Keep,
       Follow, Finalize, Truncate, Complete, Walking, AtBlockEntry
<1>4. QED
  BY <1>1, <1>2, <1>3 DEF RunNext, Slicing, Enter, Advance, runVars, vars

\* A run begins with the invariant.
LEMMA RunStarts == RunInit => RunInv
<1> SUFFICES ASSUME RunInit PROVE RunInv
  OBVIOUS
<1>1. Init /\ path = <<>> /\ trace = <<>> /\ status = "walking"
  BY DEF RunInit, Init, Begin
<1>2. Executed /\ Checked
  BY <1>1 DEF Executed, Checked
<1>3. Unbroken
  BY <1>1, InitClimbed DEF Unbroken, Retraced
<1>4. QED
  BY <1>1, <1>2, <1>3, InitTypeOK, InitClosed DEF RunInv

\* Running the function is, to the walk, no step at all.
LEMMA RunWalks == [RunNext]_runVars => [Next]_vars
BY DEF RunNext, runVars, vars, Slicing, Enter, Advance

\* Every step of the run keeps the invariant.
LEMMA RunSteady == RunInv /\ [RunNext]_runVars => RunInv'
<1> SUFFICES ASSUME RunInv, [RunNext]_runVars PROVE RunInv'
  OBVIOUS
<1>1. TypeOK' /\ SliceClosed' /\ DoneWhenResolved'
  BY RunWalks, NextTypeOK, NextClosed DEF RunInv
<1>2. Executed' /\ Checked' /\ Unbroken'
  BY NextExecuted, NextChecked, NextUnbroken DEF RunInv
<1>3. QED
  BY <1>1, <1>2 DEF RunInv

\* Nothing executed reprograms a rounding mode that a complete slice assumes.
LEMMA PinnedWhenChecked == TypeOK /\ Executed /\ Checked => RoundingPinned
<1> SUFFICES ASSUME TypeOK, Executed, Checked, status = "complete",
                    NEW k \in kept, InsnAt(walked[k]).fpu = "pins",
                    NEW d \in DOMAIN trace
             PROVE  InsnAt(trace[d]).fpu # "writes"
  BY DEF RoundingPinned, ModeHolds
<1>1. \A b \in Blocks : \A i \in DOMAIN prog.body[b] : prog.body[b][i].fpu # "writes"
  BY DEF Checked
<1>2. trace[d] \in Sites /\ trace[d][2] \in DOMAIN prog.body[trace[d][1]]
  BY DEF Executed
<1>3. trace[d][1] \in Blocks
  BY <1>2 DEF Sites
<1>4. QED
  BY <1>1, <1>2, <1>3 DEF InsnAt

\* Whatever the function, its branch and the path taken, a complete slice
\* that assumes a rounding mode runs under it.
THEOREM RoundingAlwaysPinned == RunSpec => []RoundingPinned
<1>1. RunInit => RunInv
  BY RunStarts
<1>2. RunInv /\ [RunNext]_runVars => RunInv'
  BY RunSteady
<1>3. RunInv => RoundingPinned
  BY PinnedWhenChecked DEF RunInv
<1>4. QED
  BY <1>1, <1>2, <1>3, PTL DEF RunSpec

\* A nonempty set of numbers has a least element.
LEMMA Least ==
    ASSUME NEW S \in SUBSET Nat, S # {}
    PROVE  \E m \in S : \A n \in S : m <= n
<1> DEFINE R == OpToRel(<, Nat)
<1>1. IsWellFoundedOn(R, Nat)
  BY NatLessThanWellFounded
<1>2. \A x, y \in Nat : y < x => <<y, x>> \in R
  <2> SUFFICES ASSUME NEW x \in Nat, NEW y \in Nat, y < x PROVE <<y, x>> \in R
    OBVIOUS
  <2>1. <<y, x>> \in Nat \X Nat /\ <<y, x>>[1] = y /\ <<y, x>>[2] = x
    OBVIOUS
  <2>2. <<y, x>>[1] < <<y, x>>[2]
    OBVIOUS
  <2> QED
    BY <2>1, <2>2, Zenon DEF OpToRel
<1> HIDE DEF R
<1>3. PICK x \in S : \A y \in S : ~(<<y, x>> \in R)
  BY <1>1, WFMin
<1>4. \A y \in S : ~(y < x)
  BY <1>2, <1>3
<1>5. QED
  BY <1>3, <1>4

\* Nearest is the least element, and Outside when there is none.
LEMMA NearestFacts ==
    ASSUME NEW S \in SUBSET Nat
    PROVE  /\ S = {} => Nearest(S) = Outside
           /\ S # {} => /\ Nearest(S) \in S /\ Nearest(S) # Outside
                        /\ \A m \in S : Nearest(S) <= m
           /\ \A n \in S : (\A m \in S : n <= m) => Nearest(S) = n
<1>1. S = {} => Nearest(S) = Outside
  BY DEF Nearest
<1>2. ASSUME S # {}
      PROVE  Nearest(S) \in S /\ \A m \in S : Nearest(S) <= m
  <2>1. \E m \in S : \A n \in S : m <= n
    BY <1>2, Least
  <2>2. QED
    BY <1>2, <2>1 DEF Nearest
<1>3. ASSUME NEW n \in S, \A m \in S : n <= m PROVE Nearest(S) = n
  <2>0. S # {}
    BY <1>3
  <2>1. Nearest(S) \in Nat /\ n \in Nat /\ Nearest(S) <= n /\ n <= Nearest(S)
    BY <1>2, <1>3, <2>0
  <2>2. QED
    BY <2>1
<1>4. \A n \in S : n # Outside
  BY DEF Outside
<1>5. QED
  BY <1>1, <1>2, <1>3, <1>4

\* At the branch, what was executed begins with what was walked.
LEMMA WalkedIsExecuted ==
    ASSUME TypeOK, Executed, Unbroken, StaysInside, AtBranch
    PROVE  \A k \in DOMAIN walked : k \in DOMAIN trace /\ trace[k] = walked[k]
<1>1. PICK off : Climbed(off) /\ Retraced(off)
  BY DEF Unbroken
<1>2. prog.seed \in visited /\ off[prog.seed] = 0
  BY <1>1 DEF Climbed
<1>3. path # <<>> /\ Head(path) = prog.seed
  BY DEF AtBranch
<1>4. PICK m \in Nat : m = Len(trace) /\ DOMAIN trace = 1..m
  BY DEF Executed
<1>5. PICK w \in Nat : w = Len(walked) /\ DOMAIN walked = 1..w
  BY DEF TypeOK
<1>6. w <= 0 + m
  BY <1>1, <1>2, <1>3, <1>4, <1>5 DEF Retraced
<1>7. \A k \in DOMAIN walked : k > 0 /\ k - 0 <= m => trace[k - 0] = walked[k]
  BY <1>1, <1>2, <1>3, <1>4 DEF Retraced
<1>8. QED
  BY <1>4, <1>5, <1>6, <1>7

\* The instructions executed above k that write l, and those in the slice.
RealWriters(k, l) == {d \in DOMAIN trace : d > k /\ l \in Writes(InsnAt(trace[d]))}
SliceWriters(k, l) == {d \in kept : d > k /\ l \in WrittenAt(d)}

\* If anything the walk passed writes what a reader reads, the nearest writer
\* is in the slice, and is the one the execution had.
LEMMA ResolvedReads ==
    ASSUME TypeOK, SliceClosed, Executed,
           \A k \in DOMAIN walked : k \in DOMAIN trace /\ trace[k] = walked[k],
           NEW k \in Readers, NEW l \in ReadAt(k),
           NEW w \in Nat, w = Len(walked),
           NEW e \in RealWriters(k, l), e <= w
    PROVE  SliceSource(k, l) # Outside /\ RealSource(k, l) = SliceSource(k, l)
<1>1. /\ DOMAIN walked = 1..w /\ kept \subseteq 1..w
      /\ DOMAIN trace \in SUBSET Nat /\ k \in 0..w
  BY DEF TypeOK, Executed, Readers
<1>2. \A j \in 1..w : j \in DOMAIN trace /\ WrittenAt(j) = Writes(InsnAt(trace[j]))
  BY <1>1 DEF WrittenAt
<1>3. RealWriters(k, l) \in SUBSET Nat /\ RealWriters(k, l) # {}
  BY <1>1 DEF RealWriters
<1>4. PICK d \in RealWriters(k, l) : \A m \in RealWriters(k, l) : d <= m
  BY <1>3, Least
<1>5. d \in DOMAIN walked /\ k < d /\ d \in Nat
  <2>1. d \in DOMAIN trace /\ d > k /\ e \in Nat /\ d <= e
    BY <1>1, <1>4 DEF RealWriters
  <2>2. QED
    BY <1>1, <2>1
<1>6. l \in WrittenAt(d)
  BY <1>1, <1>2, <1>4, <1>5 DEF RealWriters
<1>7. Unwritten(l, k, d - 1)
  <2>1. SUFFICES ASSUME NEW j \in (k + 1)..(d - 1), l \in WrittenAt(j) PROVE FALSE
    BY DEF Unwritten
  <2>2. j \in 1..w /\ j > k /\ j < d
    BY <1>1, <1>5
  <2>3. j \in RealWriters(k, l)
    BY <1>2, <2>1, <2>2 DEF RealWriters
  <2>4. QED
    BY <1>4, <1>5, <2>2, <2>3
<1>8. d \in kept
  BY <1>5, <1>6, <1>7 DEF SliceClosed
<1>9. d \in SliceWriters(k, l) /\ SliceWriters(k, l) \subseteq RealWriters(k, l)
  BY <1>1, <1>2, <1>5, <1>6, <1>8 DEF SliceWriters, RealWriters
<1>10. Nearest(RealWriters(k, l)) = d /\ Nearest(SliceWriters(k, l)) = d
  BY <1>3, <1>4, <1>9, NearestFacts
<1>11. d # Outside
  BY <1>5 DEF Outside
<1>12. QED
  BY <1>10, <1>11 DEF SliceSource, RealSource, SliceWriters, RealWriters

\* While the walk has stayed inside the function, the slice computes what the
\* processor does.
LEMMA FaithfulInside ==
    ASSUME TypeOK, SliceClosed, Executed, Unbroken, StaysInside
    PROVE  SliceFaithful
<1> SUFFICES ASSUME AtBranch
             PROVE  /\ \A k \in kept : k \in DOMAIN trace /\ trace[k] = walked[k]
                    /\ \A k \in Readers : \A l \in ReadAt(k) :
                         \/ /\ SliceSource(k, l) # Outside
                            /\ RealSource(k, l) = SliceSource(k, l)
                         \/ /\ SliceSource(k, l) = Outside
                            /\ \A j \in Readers :
                                 l \in ReadAt(j) /\ SliceSource(j, l) = Outside =>
                                    RealSource(j, l) = RealSource(k, l)
  BY Zenon DEF SliceFaithful
<1>1. \A k \in DOMAIN walked : k \in DOMAIN trace /\ trace[k] = walked[k]
  BY WalkedIsExecuted
<1>2. PICK w \in Nat : w = Len(walked)
  BY DEF TypeOK
<1>3. /\ DOMAIN walked = 1..w /\ kept \subseteq 1..w
      /\ DOMAIN trace \in SUBSET Nat /\ Readers \subseteq 0..w
  BY <1>2 DEF TypeOK, Executed, Readers
<1>4. ASSUME NEW k \in Readers, NEW l \in ReadAt(k), NEW e \in RealWriters(k, l), e <= w
      PROVE  SliceSource(k, l) # Outside /\ RealSource(k, l) = SliceSource(k, l)
  BY <1>1, <1>2, <1>4, ResolvedReads
<1>5. ASSUME NEW k \in Readers, NEW l \in ReadAt(k),
             \A e \in RealWriters(k, l) : ~(e <= w)
      PROVE  /\ SliceSource(k, l) = Outside
             /\ RealWriters(k, l) =
                  {d \in DOMAIN trace : d > w /\ l \in Writes(InsnAt(trace[d]))}
  <2>1. \A d \in kept : d > k /\ l \in WrittenAt(d) => d \in RealWriters(k, l) /\ d <= w
    BY <1>1, <1>3 DEF RealWriters, WrittenAt
  <2>2. SliceWriters(k, l) = {}
    BY <1>5, <2>1 DEF SliceWriters
  <2>3. SliceSource(k, l) = Outside
    BY <2>2 DEF SliceSource, SliceWriters, Nearest
  <2>4. \A d \in DOMAIN trace : d > w => d > k
    BY <1>3
  <2>5. \A d \in RealWriters(k, l) : d > w
    BY <1>3, <1>5 DEF RealWriters
  <2>6. QED
    BY <2>3, <2>4, <2>5 DEF RealWriters
<1>6. ASSUME NEW k \in Readers, NEW l \in ReadAt(k)
      PROVE  \/ /\ SliceSource(k, l) # Outside
                /\ RealSource(k, l) = SliceSource(k, l)
             \/ /\ SliceSource(k, l) = Outside
                /\ \A j \in Readers :
                     l \in ReadAt(j) /\ SliceSource(j, l) = Outside =>
                        RealSource(j, l) = RealSource(k, l)
  <2>1. CASE \E e \in RealWriters(k, l) : e <= w
    BY <1>4, <2>1
  <2>2. CASE \A e \in RealWriters(k, l) : ~(e <= w)
    <3>1. ASSUME NEW j \in Readers, l \in ReadAt(j), SliceSource(j, l) = Outside
          PROVE  RealSource(j, l) = RealSource(k, l)
      <4>1. \A e \in RealWriters(j, l) : ~(e <= w)
        BY <1>4, <3>1
      <4>2. RealWriters(j, l) = RealWriters(k, l)
        BY <1>5, <2>2, <3>1, <4>1
      <4>3. QED
        BY <4>2 DEF RealSource, RealWriters
    <3>2. QED
      BY <1>5, <2>2, <3>1
  <2>3. QED
    BY <2>1, <2>2
<1>7. QED
  BY <1>1, <1>3, <1>6

\* On every function, branch, limit and path: while the walk has not gone
\* round from the entry to a block that jumps to it, the slice is faithful.
THEOREM FaithfulWhileInside == RunSpec /\ []StaysInside => []SliceFaithful
<1>1. RunInit => RunInv
  BY RunStarts
<1>2. RunInv /\ [RunNext]_runVars => RunInv'
  BY RunSteady
<1>3. RunInv /\ StaysInside => SliceFaithful
  BY FaithfulInside DEF RunInv
<1>4. QED
  BY <1>1, <1>2, <1>3, PTL DEF RunSpec

\* The walk does not go round where the entry has no lone predecessor but the
\* block of the branch.
LEMMA AloneStaysInside ==
    ASSUME EntryAlone, prog \in Programs, TypeOK, Unbroken
    PROVE  StaysInside
<1> SUFFICES ASSUME prog.entry \in visited, block # prog.entry PROVE FALSE
  BY DEF StaysInside
<1>1. PICK off : Climbed(off)
  BY DEF Unbroken
<1>2. PICK p \in visited : Preds(prog.entry) = {p} /\ p # prog.seed
  BY <1>1 DEF Climbed
<1>3. p \in Blocks
  BY DEF TypeOK
<1>4. QED
  BY <1>2, <1>3 DEF EntryAlone, Preds

\* Where nothing but the branch's own block jumps back to the entry alone,
\* the slice of every branch is faithful on every path.
THEOREM AlwaysFaithful == EntryAlone /\ RunSpec => []SliceFaithful
<1> DEFINE Always == EntryAlone /\ RunInv /\ prog \in Programs
<1>1. EntryAlone /\ RunInit => Always
  BY RunStarts DEF RunInit, Init
<1>2. Always /\ [RunNext]_runVars => Always'
  BY RunSteady, RunWalks, SameProgram DEF EntryAlone
<1>3. Always => SliceFaithful
  BY AloneStaysInside, FaithfulInside DEF RunInv
<1>4. QED
  BY <1>1, <1>2, <1>3, PTL DEF RunSpec

=============================================================================
