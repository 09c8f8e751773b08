--------------------------- MODULE FormulaProofs ----------------------------
(****************************************************************************)
(* From the lifted statements to the formulas, for every set of registers   *)
(* and statements and however long the slice: the slice stays true of the   *)
(* machine through the conversion and all passes, the may-taint pass misses *)
(* no flow, the encoders meet no conflict of widths, and no formula decides *)
(* a branch other than the machine did.                                     *)
(*                                                                          *)
(* The first rests on RunInv: every expression of the slice has a width,    *)
(* its names have values, and the statement is true of them, which simplify *)
(* and inlining keep (ExpressionProofs).  The second rests on what the      *)
(* passes leave of a slice: every name has one definition, above whatever   *)
(* reads it, and the machine has a memory that the loads and stores left    *)
(* agree with; then the machine's run and another one are compared          *)
(* statement by statement, and where the pass reports no source, they       *)
(* agree.  The third adds that names are declared at the widths of their    *)
(* registers, WidthInv.  The fourth follows the encoder beside the machine: *)
(* the bytes it has stored mirror the memory or it has given up on it, and  *)
(* the loads it remembers are what memory holds, so that every assertion is *)
(* true.                                                                    *)
(****************************************************************************)
EXTENDS ExpressionProofs

----------------------------------------------------------------------------
(* Slices in SSA form.                                                       *)

\* The names that no statement defines: the registers as they came in.
Free == {Plain(x) : x \in Registers}
\* The places of a statement's expressions.
Parts(s) == DOMAIN s.parts

\* A statement as the converter makes it, and the passes leave it.
Shape(s) ==
    /\ s.kind \in {"assign", "load", "store", "unsupported", "nop"}
    /\ {"kind", "parts"} \subseteq DOMAIN s
    /\ Defines(s) => /\ {"dst", "bits", "seen"} \subseteq DOMAIN s
                     /\ s.dst \in Versions /\ Parts(s) = {1}
    /\ s.kind = "store" => {"bits", "seen"} \subseteq DOMAIN s /\ Parts(s) = {1, 2}
    /\ s.kind \in {"unsupported", "nop"} => Parts(s) = {}
    /\ IsSequence(s.parts)
    /\ \A i \in Parts(s) : Yields(s.parts[i], 1)

\* The names that a slice defines.
Dsts(ss) == {ss[k].dst : k \in {i \in DOMAIN ss : Defines(ss[i])}}
\* The names defined above the statement k.
Before(ss, k) == {ss[j].dst : j \in {i \in DOMAIN ss : i < k /\ Defines(ss[i])}}

\* Every name has one definition, and is read below it only.
Ssa(ss) ==
    /\ IsSequence(ss)
    /\ \A k \in DOMAIN ss : Shape(ss[k])
    /\ \A k \in DOMAIN ss : StatementReads(ss[k]) \subseteq Free \cup Before(ss, k)
    /\ \A j, k \in DOMAIN ss :
         Defines(ss[j]) /\ Defines(ss[k]) /\ ss[j].dst = ss[k].dst => j = k

\* The memory after a statement, of which it remembers what it saw.
After(mem, s) ==
    IF s.kind = "store" THEN Written(mem, s.seen[1], s.seen[2], s.bits) ELSE mem
\* What the machine loaded is what its memory then held; m is what it holds
\* in the end.
Memories(ss, v, m, held) ==
    /\ held[1] = Memory /\ held[Len(ss) + 1] = m
    /\ \A k \in 1..Len(ss) :
         /\ held[k + 1] = After(held[k], ss[k])
         /\ ss[k].kind = "load" => v[ss[k].dst] = Word(held[k], ss[k].seen[1], ss[k].bits)
\* The slice, with the values v, goes through memories that end in m.
Replayed(ss, v, m) == \E held : Memories(ss, v, m, held)

\* The names defined when a statement is added.
LEMMA DstsAppend ==
    ASSUME NEW ss, IsSequence(ss), NEW r
    PROVE  /\ Defines(r) => Dsts(Append(ss, r)) = Dsts(ss) \cup {r.dst}
           /\ ~Defines(r) => Dsts(Append(ss, r)) = Dsts(ss)
           /\ \A k \in 1..Len(ss) : Before(Append(ss, r), k) = Before(ss, k)
           /\ Before(Append(ss, r), Len(ss) + 1) = Dsts(ss)
<1> DEFINE t == Append(ss, r)
<1>1. /\ IsSequence(t) /\ Len(t) = Len(ss) + 1 /\ t[Len(ss) + 1] = r
      /\ \A i \in 1..Len(ss) : t[i] = ss[i]
  BY Appended
<1>2. Len(ss) \in Nat /\ DOMAIN ss = 1..Len(ss) /\ DOMAIN t = 1..(Len(ss) + 1)
  BY <1>1, Lengths
<1> HIDE DEF t
<1>3. \A i \in DOMAIN t : (i \in DOMAIN ss /\ t[i] = ss[i]) \/ (i = Len(ss) + 1 /\ t[i] = r)
  BY <1>1, <1>2
<1>4. \A i \in DOMAIN ss : i \in DOMAIN t /\ t[i] = ss[i] /\ i < Len(ss) + 1
  BY <1>1, <1>2
<1>5. Len(ss) + 1 \in DOMAIN t /\ t[Len(ss) + 1] = r /\ ~(Len(ss) + 1 < Len(ss) + 1)
  BY <1>1, <1>2
<1>6. Defines(r) => Dsts(t) = Dsts(ss) \cup {r.dst}
  BY <1>3, <1>4, <1>5 DEF Dsts
<1>7. ~Defines(r) => Dsts(t) = Dsts(ss)
  BY <1>3, <1>4 DEF Dsts
<1>8. Before(t, Len(ss) + 1) = Dsts(ss)
  BY <1>3, <1>4, <1>5 DEF Dsts, Before
<1>9. ASSUME NEW k \in 1..Len(ss) PROVE Before(t, k) = Before(ss, k)
  <2>1. ~(Len(ss) + 1 < k)
    BY <1>2
  <2> QED
    BY <1>3, <1>4, <2>1 DEF Before
<1> QED
  BY <1>6, <1>7, <1>8, <1>9 DEF t

\* A slice stays in SSA form when the statement added reads what is there and
\* defines something new.
LEMMA SsaAppend ==
    ASSUME NEW ss, Ssa(ss), NEW r, Shape(r),
           StatementReads(r) \subseteq Free \cup Dsts(ss),
           Defines(r) => r.dst \notin Dsts(ss)
    PROVE  Ssa(Append(ss, r))
<1> DEFINE t == Append(ss, r)
<1>1. IsSequence(ss)
  BY DEF Ssa
<1>2. /\ IsSequence(t)
      /\ \A i \in DOMAIN t : \/ i \in DOMAIN ss /\ t[i] = ss[i]
                             \/ i = Len(ss) + 1 /\ t[i] = r
  BY <1>1, Appended
<1>3. /\ \A k \in 1..Len(ss) : Before(t, k) = Before(ss, k)
      /\ Before(t, Len(ss) + 1) = Dsts(ss)
  BY <1>1, DstsAppend
<1>4. Len(ss) \in Nat /\ DOMAIN ss = 1..Len(ss)
  BY <1>1, Lengths
<1> HIDE DEF t
<1>5. \A k \in DOMAIN t : Shape(t[k])
  BY <1>2 DEF Ssa
<1>6. ASSUME NEW k \in DOMAIN t PROVE StatementReads(t[k]) \subseteq Free \cup Before(t, k)
  BY <1>2, <1>3, <1>4 DEF Ssa
<1>7. ASSUME NEW j \in DOMAIN t, NEW k \in DOMAIN t,
             Defines(t[j]), Defines(t[k]), t[j].dst = t[k].dst
      PROVE  j = k
  <2>1. CASE j \in DOMAIN ss /\ t[j] = ss[j] /\ k \in DOMAIN ss /\ t[k] = ss[k]
    BY <1>7, <2>1 DEF Ssa
  <2>2. CASE j \in DOMAIN ss /\ t[j] = ss[j] /\ t[k] = r
    BY <1>7, <2>2 DEF Dsts
  <2>3. CASE t[j] = r /\ k \in DOMAIN ss /\ t[k] = ss[k]
    BY <1>7, <2>3 DEF Dsts
  <2> QED
    BY <1>2, <2>1, <2>2, <2>3
<1> QED
  BY <1>2, <1>5, <1>6, <1>7 DEF Ssa, t

\* A statement added goes on from the last memory.
LEMMA ReplayedAppend ==
    ASSUME NEW ss, IsSequence(ss), NEW v, NEW m, Replayed(ss, v, m), NEW r,
           r.kind = "load" => v[r.dst] = Word(m, r.seen[1], r.bits)
    PROVE  Replayed(Append(ss, r), v, After(m, r))
<1> DEFINE t == Append(ss, r)
<1>1. PICK held : Memories(ss, v, m, held)
  BY DEF Replayed
<1>2. PICK n \in Nat : n = Len(ss)
  BY Lengths
<1> DEFINE more == [k \in 1..(n + 2) |-> IF k <= n + 1 THEN held[k] ELSE After(m, r)]
<1>3. /\ IsSequence(t) /\ Len(t) = n + 1 /\ t[n + 1] = r
      /\ \A i \in 1..n : t[i] = ss[i]
  BY <1>2, Appended
<1> HIDE DEF t
<1>4. /\ \A k \in 1..(n + 1) : more[k] = held[k]
      /\ more[n + 2] = After(m, r)
  BY <1>2
<1> HIDE DEF more
<1>5. held[1] = Memory /\ held[n + 1] = m
  BY <1>1, <1>2 DEF Memories
<1>6. more[1] = Memory /\ more[Len(t) + 1] = After(m, r)
  <2>1. Len(t) + 1 = n + 2 /\ 1 \in 1..(n + 1)
    BY <1>3
  <2> QED
    BY <1>4, <1>5, <2>1
<1>7. ASSUME NEW k \in 1..(n + 1)
      PROVE  /\ more[k + 1] = After(more[k], t[k])
             /\ t[k].kind = "load" => v[t[k].dst] = Word(more[k], t[k].seen[1], t[k].bits)
  <2>1. CASE k = n + 1
    <3>1. t[k] = r /\ more[k] = m /\ k + 1 = n + 2
      BY <1>3, <1>4, <1>5, <2>1
    <3> QED
      BY <1>4, <3>1
  <2>2. CASE k # n + 1
    <3>1. k \in 1..n /\ k + 1 \in 1..(n + 1) /\ k \in 1..(n + 1)
      BY <2>2
    <3>2. t[k] = ss[k] /\ more[k] = held[k] /\ more[k + 1] = held[k + 1]
      BY <1>3, <1>4, <3>1
    <3> QED
      BY <1>1, <1>2, <3>1, <3>2 DEF Memories
  <2> QED
    BY <2>1, <2>2
<1>8. Memories(t, v, After(m, r), more)
  BY <1>3, <1>6, <1>7 DEF Memories
<1> QED
  BY <1>8 DEF Replayed, t

\* Statements that differ in their expressions only.
Alike(s, t) ==
    /\ t.kind = s.kind
    /\ Defines(s) => t.dst = s.dst /\ t.bits = s.bits /\ t.seen = s.seen
    /\ s.kind = "store" => t.bits = s.bits /\ t.seen = s.seen

\* Statements that write the same go through the same memories.
LEMMA AlikeReplayed ==
    ASSUME NEW ss, NEW tt, Len(tt) = Len(ss),
           \A k \in 1..Len(ss) : Alike(ss[k], tt[k]),
           NEW v, NEW m, Replayed(ss, v, m)
    PROVE  Replayed(tt, v, m)
<1>1. PICK held : Memories(ss, v, m, held)
  BY DEF Replayed
<1>2. \A k \in 1..Len(ss) :
        /\ \A mem : After(mem, tt[k]) = After(mem, ss[k])
        /\ tt[k].kind = "load" => /\ ss[k].kind = "load"
                                  /\ tt[k].dst = ss[k].dst
                                  /\ tt[k].seen = ss[k].seen
                                  /\ tt[k].bits = ss[k].bits
  BY DEF Alike, After, Defines
<1>3. Memories(tt, v, m, held)
  BY <1>1, <1>2 DEF Memories
<1> QED
  BY <1>3 DEF Replayed

\* Statements that define the same, and read from above, keep the slice in
\* SSA form.
LEMMA AlikeSsa ==
    ASSUME NEW ss, NEW tt, Ssa(ss), IsSequence(tt), Len(tt) = Len(ss),
           \A k \in 1..Len(ss) :
             /\ Alike(ss[k], tt[k]) /\ Shape(tt[k])
             /\ StatementReads(tt[k]) \subseteq Free \cup Before(ss, k)
    PROVE  Ssa(tt) /\ Dsts(tt) = Dsts(ss)
<1>1. DOMAIN ss = 1..Len(ss) /\ DOMAIN tt = 1..Len(ss)
  BY Lengths DEF Ssa
<1>2. \A k \in 1..Len(ss) : /\ Defines(tt[k]) <=> Defines(ss[k])
                            /\ Defines(ss[k]) => tt[k].dst = ss[k].dst
  BY DEF Alike, Defines
<1>3. \A k : Before(tt, k) = Before(ss, k)
  BY <1>1, <1>2 DEF Before
<1>4. Dsts(tt) = Dsts(ss)
  BY <1>1, <1>2 DEF Dsts
<1> QED
  BY <1>1, <1>2, <1>3, <1>4 DEF Ssa

----------------------------------------------------------------------------
(* A pass leaves a slice in SSA form, and the memories it went through.      *)

\* A statement with other parts is a statement like it.
LEMMA Rewritten ==
    ASSUME NEW s, Shape(s), NEW q, q = [i \in Parts(s) |-> q[i]],
           \A i \in Parts(s) : Yields(q[i], 1),
           NEW t, t = [s EXCEPT !.parts = q]
    PROVE  Alike(s, t) /\ Shape(t) /\ t.parts = q /\ Parts(t) = Parts(s)
<1>1. t.kind = s.kind /\ DOMAIN t = DOMAIN s /\ t.parts = q /\ Parts(t) = Parts(s)
  BY DEF Shape, Parts
<1>2. Defines(s) => t.dst = s.dst /\ t.bits = s.bits /\ t.seen = s.seen
  BY DEF Shape
<1>3. s.kind = "store" => t.bits = s.bits /\ t.seen = s.seen
  BY DEF Shape
<1>4. IsSequence(q)
  <2>1. Parts(s) = 1..Len(s.parts) /\ Len(s.parts) \in Nat
    BY Lengths DEF Shape, Parts
  <2>2. q = [i \in 1..Len(s.parts) |-> q[i]]
    BY <2>1
  <2> QED
    BY <2>1, <2>2, Mapped
<1>5. Shape(t)
  BY <1>1, <1>2, <1>4 DEF Shape, Defines
<1> QED
  BY <1>1, <1>2, <1>3, <1>5 DEF Alike

\* A statement reads what its parts read.
LEMMA PartReads ==
    ASSUME NEW s, NEW i \in Parts(s)
    PROVE  Reads(s.parts[i]) \subseteq StatementReads(s)
BY DEF Parts, StatementReads

\* And nothing else.
LEMMA ReadsOfParts ==
    ASSUME NEW s, NEW names, \A i \in Parts(s) : Reads(s.parts[i]) \subseteq names
    PROVE  StatementReads(s) \subseteq names
BY DEF Parts, StatementReads

\* A simplified statement is like the statement, and reads no more.
LEMMA SimplifiedStatement ==
    ASSUME NEW s, Shape(s)
    PROVE  /\ Alike(s, Simplified(s)) /\ Shape(Simplified(s))
           /\ StatementReads(Simplified(s)) \subseteq StatementReads(s)
<1> DEFINE q == [i \in Parts(s) |-> Simplify(s.parts[i])]
           t == [s EXCEPT !.parts = q]
<1>1. Simplified(s) = t
  BY DEF Simplified, Parts, Shape
<1>2. \A i \in Parts(s) : Tree(q[i], Reads(s.parts[i]))
  <2> SUFFICES ASSUME NEW i \in Parts(s) PROVE Tree(q[i], Reads(s.parts[i]))
    OBVIOUS
  <2>1. Tree(s.parts[i], Reads(s.parts[i]))
    BY DEF Shape, Tree
  <2> QED
    BY <2>1, SimplifyTree
<1>3. q = [i \in Parts(s) |-> q[i]]
  OBVIOUS
<1> HIDE DEF q
<1>4. \A i \in Parts(s) : Yields(q[i], 1) /\ Reads(q[i]) \subseteq Reads(s.parts[i])
  BY <1>2 DEF Tree
<1>5. Alike(s, t) /\ Shape(t) /\ t.parts = q /\ Parts(t) = Parts(s)
  BY <1>3, <1>4, Rewritten
<1> HIDE DEF t
<1>6. \A i \in Parts(t) : Reads(t.parts[i]) \subseteq StatementReads(s)
  BY <1>4, <1>5, PartReads
<1>7. StatementReads(t) \subseteq StatementReads(s)
  BY <1>6, ReadsOfParts
<1> QED
  BY <1>1, <1>5, <1>7

\* What a copy is replaced with.
LEMMA InlinedLeaf ==
    ASSUME NEW ss, Ssa(ss), NEW n \in DOMAIN Inlined(ss)
    PROVE  \E j \in DOMAIN ss :
             /\ Defines(ss[j]) /\ ss[j].dst = n
             /\ Arity(Inlined(ss)[n]) = 0
             /\ IsVar(Inlined(ss)[n]) => Inlined(ss)[n].name \in StatementReads(ss[j])
<1>1. \E s \in Copies(ss) : s.dst = n
  BY DEF Inlined
<1> DEFINE s == CHOOSE s \in Copies(ss) : s.dst = n
<1>2. s \in Copies(ss) /\ s.dst = n
  BY <1>1
<1>3. Inlined(ss)[n] = s.parts[1][1]
  BY DEF Inlined
<1> HIDE DEF s
<1>4. PICK j \in DOMAIN ss : /\ s = ss[j] /\ s.kind = "assign" /\ Len(s.parts[1]) = 1
                             /\ s.parts[1][1].op \in {"var", "const"}
  BY <1>2 DEF Copies
<1>5. Defines(s)
  BY <1>4 DEF Defines
<1>6. Arity(s.parts[1][1]) = 0
  BY <1>4 DEF Arity, Leaves
<1>7. ASSUME IsVar(s.parts[1][1]) PROVE s.parts[1][1].name \in StatementReads(s)
  <2>1. Shape(s) /\ 1 \in Parts(s)
    BY <1>4, <1>5 DEF Ssa, Shape
  <2>2. IsSequence(s.parts[1]) /\ 1 \in 1..Len(s.parts[1])
    BY <1>4, <2>1 DEF Shape, Yields
  <2> QED
    BY <1>7, <2>1, <2>2, NamesRead, PartReads
<1> QED
  BY <1>2, <1>3, <1>4, <1>5, <1>6, <1>7

\* So is one with values inlined, which reads what is defined above.
LEMMA PropagatedStatement ==
    ASSUME NEW ss, Ssa(ss), NEW k \in DOMAIN ss, NEW t, t = Propagated(ss[k], Inlined(ss))
    PROVE  /\ Alike(ss[k], t) /\ Shape(t)
           /\ StatementReads(t) \subseteq Free \cup Before(ss, k)
<1> DEFINE s == ss[k]
           map == Inlined(ss)
           q == [i \in Parts(s) |-> Substitute(s.parts[i], map)]
<1>1. Shape(s) /\ StatementReads(s) \subseteq Free \cup Before(ss, k)
  BY DEF Ssa
<1>2. t = [s EXCEPT !.parts = q]
  BY <1>1 DEF Propagated, Parts, Shape
<1>3. q = [i \in Parts(s) |-> q[i]]
  OBVIOUS
<1>4. \A n \in DOMAIN map : Arity(map[n]) = 0
  BY InlinedLeaf
<1>5. ASSUME NEW n \in DOMAIN map, n \in Free \cup Before(ss, k), IsVar(map[n])
      PROVE  map[n].name \in Free \cup Before(ss, k)
  <2>1. PICK j \in DOMAIN ss : /\ Defines(ss[j]) /\ ss[j].dst = n
                               /\ map[n].name \in StatementReads(ss[j])
    BY <1>5, InlinedLeaf
  <2>2. n \in Before(ss, k)
    <3>1. n \in Versions
      BY <2>1 DEF Ssa, Shape
    <3>2. n \notin Free
      BY <3>1 DEF Versions, Free, Plain, None
    <3> QED
      BY <1>5, <3>2
  <2>3. j < k
    <3>1. PICK i \in DOMAIN ss : i < k /\ Defines(ss[i]) /\ ss[i].dst = n
      BY <2>2 DEF Before
    <3>2. i = j
      BY <2>1, <3>1 DEF Ssa
    <3> QED
      BY <3>1, <3>2
  <2>4. Before(ss, j) \subseteq Before(ss, k)
    <3>1. DOMAIN ss = 1..Len(ss) /\ Len(ss) \in Nat
      BY Lengths DEF Ssa
    <3>2. \A i \in DOMAIN ss : i < j => i < k
      BY <2>3, <3>1
    <3> QED
      BY <3>2 DEF Before
  <2> QED
    BY <2>1, <2>4 DEF Ssa
<1>6. ASSUME NEW i \in Parts(s)
      PROVE  Yields(q[i], 1) /\ Reads(q[i]) \subseteq Free \cup Before(ss, k)
  <2> DEFINE e == s.parts[i]
             f == [p \in DOMAIN e |-> IF IsVar(e[p]) /\ e[p].name \in DOMAIN map
                                      THEN map[e[p].name] ELSE e[p]]
  <2>1. Yields(e, 1) /\ IsSequence(e) /\ Reads(e) \subseteq Free \cup Before(ss, k)
    BY <1>1, PartReads DEF Shape, Yields
  <2>2. q[i] = f
    BY DEF Substitute
  <2> HIDE DEF q, s, map, e
  <2>3. DOMAIN e = 1..Len(e) /\ Len(e) \in Nat
    BY <2>1, Lengths
  <2>4. f = [p \in 1..Len(e) |-> f[p]]
    BY <2>3
  <2>5. \A p \in 1..Len(e) : f[p] = IF IsVar(e[p]) /\ e[p].name \in DOMAIN map
                                    THEN map[e[p].name] ELSE e[p]
    BY <2>3
  <2> HIDE DEF f
  <2>6. IsSequence(f) /\ Len(f) = Len(e)
    BY <2>3, <2>4, Mapped
  <2>7. \A p \in 1..Len(e) : Arity(f[p]) = Arity(e[p])
    BY <1>4, <2>5, Inner
  <2>8. Yields(f, 1)
    BY <2>1, <2>6, <2>7, Relabelled
  <2>9. ASSUME NEW p \in 1..Len(f), IsVar(f[p]) PROVE f[p].name \in Free \cup Before(ss, k)
    <3>1. IsVar(e[p]) => e[p].name \in Free \cup Before(ss, k)
      BY <2>1, <2>6, NamesRead
    <3> QED
      BY <1>5, <2>5, <2>6, <2>9, <3>1
  <2>10. Reads(f) \subseteq Free \cup Before(ss, k)
    BY <2>6, <2>9, ReadsOf
  <2> QED
    BY <2>2, <2>8, <2>10
<1> HIDE DEF q, map
<1>7. Alike(s, t) /\ Shape(t) /\ t.parts = q /\ Parts(t) = Parts(s)
  <2>1. \A i \in Parts(s) : Yields(q[i], 1)
    BY <1>6
  <2> HIDE DEF s
  <2> QED
    BY <1>1, <1>2, <1>3, <2>1, Rewritten
<1>8. \A i \in Parts(t) : Reads(t.parts[i]) \subseteq Free \cup Before(ss, k)
  BY <1>6, <1>7
<1>9. StatementReads(t) \subseteq Free \cup Before(ss, k)
  BY <1>8, ReadsOfParts
<1> QED
  BY <1>7, <1>9

\* Selected, step by step.
Steps(ss, at, f) ==
    /\ f[0] = <<>> /\ f[Len(ss)] = Selected(ss, at)
    /\ \A i \in 1..Len(ss) : f[i] = IF i \in at THEN Append(f[i - 1], ss[i]) ELSE f[i - 1]

\* Statements are selected step by step.
LEMMA SelectedSteps ==
    ASSUME NEW ss, NEW at, Len(ss) \in Nat
    PROVE  \E f : Steps(ss, at, f)
<1> DEFINE More(q, i) == IF i \in at THEN Append(q, ss[i]) ELSE q
           Rec(f, m) == f = [i \in 0..m |-> IF i = 0 THEN <<>> ELSE More(f[i - 1], i)]
           S == {m \in Nat : \E f : Rec(f, m)}
           upTo == CHOOSE f : Rec(f, Len(ss))
<1>1. Selected(ss, at) = upTo[Len(ss)]
  BY DEF Selected
<1> HIDE DEF More
<1>2. 0 \in S
  <2> DEFINE g == [i \in 0..0 |-> <<>>]
  <2>1. Rec(g, 0)
    OBVIOUS
  <2> HIDE DEF g
  <2> QED
    BY <2>1
<1>3. ASSUME NEW m \in Nat, m \in S PROVE m + 1 \in S
  <2>1. PICK f : Rec(f, m)
    BY <1>3
  <2> DEFINE g == [i \in 0..(m + 1) |-> IF i <= m THEN f[i] ELSE More(f[m], m + 1)]
  <2>2. Rec(g, m + 1)
    <3>1. ASSUME NEW i \in 0..(m + 1)
          PROVE  g[i] = IF i = 0 THEN <<>> ELSE More(g[i - 1], i)
      <4>1. CASE i = m + 1
        BY <4>1
      <4>2. CASE i # m + 1
        <5>1. i \in 0..m /\ (i # 0 => i - 1 \in 0..m)
          BY <4>2
        <5> QED
          BY <2>1, <5>1
      <4> QED
        BY <4>1, <4>2
    <3> QED
      BY <3>1
  <2> HIDE DEF g
  <2> QED
    BY <2>2
<1>4. Rec(upTo, Len(ss))
  <2> HIDE DEF Rec
  <2>1. Len(ss) \in S
    <3> HIDE DEF S
    <3> QED
      BY <1>2, <1>3, Induction
  <2> QED
    BY <2>1
<1> HIDE DEF upTo
<1>5. /\ upTo[0] = <<>>
      /\ \A i \in 1..Len(ss) : upTo[i] = More(upTo[i - 1], i)
  BY <1>4
<1> QED
  BY <1>1, <1>5 DEF More, Steps

\* live_names, round by round.
Rounds(ss, c, f) ==
    /\ f[0] = Reads(c) \cup Stored(ss) /\ f[Len(ss)] = LiveNames(ss, c)
    /\ \A i \in 1..Len(ss) :
         f[i] = f[i - 1] \cup
                UNION {StatementReads(ss[k]) :
                         k \in {j \in DOMAIN ss : Defines(ss[j]) /\ ss[j].dst \in f[i - 1]}}

\* The live names are found round by round.
LEMMA LiveRounds ==
    ASSUME NEW ss, NEW c, Len(ss) \in Nat
    PROVE  \E f : Rounds(ss, c, f)
<1> DEFINE base == Reads(c) \cup Stored(ss)
           More(live) == live \cup
                         UNION {StatementReads(ss[k]) :
                                  k \in {j \in DOMAIN ss : Defines(ss[j]) /\ ss[j].dst \in live}}
           Rec(f, m) == f = [i \in 0..m |-> IF i = 0 THEN base ELSE More(f[i - 1])]
           S == {m \in Nat : \E f : Rec(f, m)}
           needs == CHOOSE f : Rec(f, Len(ss))
<1>1. LiveNames(ss, c) = needs[Len(ss)]
  BY DEF LiveNames
<1> HIDE DEF More, base
<1>2. 0 \in S
  <2> DEFINE g == [i \in 0..0 |-> base]
  <2>1. Rec(g, 0)
    OBVIOUS
  <2> HIDE DEF g
  <2> QED
    BY <2>1
<1>3. ASSUME NEW m \in Nat, m \in S PROVE m + 1 \in S
  <2>1. PICK f : Rec(f, m)
    BY <1>3
  <2> DEFINE g == [i \in 0..(m + 1) |-> IF i <= m THEN f[i] ELSE More(f[m])]
  <2>2. Rec(g, m + 1)
    <3>1. ASSUME NEW i \in 0..(m + 1)
          PROVE  g[i] = IF i = 0 THEN base ELSE More(g[i - 1])
      <4>1. CASE i = m + 1
        BY <4>1
      <4>2. CASE i # m + 1
        <5>1. i \in 0..m /\ (i # 0 => i - 1 \in 0..m)
          BY <4>2
        <5> QED
          BY <2>1, <5>1
      <4> QED
        BY <4>1, <4>2
    <3> QED
      BY <3>1
  <2> HIDE DEF g
  <2> QED
    BY <2>2
<1>4. Rec(needs, Len(ss))
  <2> HIDE DEF Rec
  <2>1. Len(ss) \in S
    <3> HIDE DEF S
    <3> QED
      BY <1>2, <1>3, Induction
  <2> QED
    BY <2>1
<1> HIDE DEF needs
<1>5. /\ needs[0] = base
      /\ \A i \in 1..Len(ss) : needs[i] = More(needs[i - 1])
  BY <1>4
<1> QED
  BY <1>1, <1>5 DEF More, base, Rounds

\* What a live statement reads is live: as many rounds as there are statements
\* are enough, since a definition is read only below where it stands.
LEMMA LiveIsClosed ==
    ASSUME NEW ss, Ssa(ss), NEW c, NEW k \in DOMAIN ss,
           IsLive(ss[k], LiveNames(ss, c))
    PROVE  StatementReads(ss[k]) \subseteq LiveNames(ss, c)
<1>1. PICK n \in Nat : n = Len(ss) /\ DOMAIN ss = 1..n
  BY Lengths DEF Ssa
<1>2. PICK f : Rounds(ss, c, f)
  BY <1>1, LiveRounds
<1>3. \A i \in 0..n : i + 1 <= n =>
        /\ f[i] \subseteq f[i + 1]
        /\ \A j \in 1..n : Defines(ss[j]) /\ ss[j].dst \in f[i]
             => StatementReads(ss[j]) \subseteq f[i + 1]
        /\ \A x \in f[i + 1] : x \in f[i] \/ \E j \in 1..n :
                Defines(ss[j]) /\ ss[j].dst \in f[i] /\ x \in StatementReads(ss[j])
  <2> SUFFICES ASSUME NEW i \in 0..n, i + 1 <= n
               PROVE  /\ f[i] \subseteq f[i + 1]
                      /\ \A j \in 1..n : Defines(ss[j]) /\ ss[j].dst \in f[i]
                            => StatementReads(ss[j]) \subseteq f[i + 1]
                      /\ \A x \in f[i + 1] : x \in f[i] \/ \E j \in 1..n :
                              Defines(ss[j]) /\ ss[j].dst \in f[i] /\ x \in StatementReads(ss[j])
    OBVIOUS
  <2>1. i + 1 \in 1..n /\ i + 1 - 1 = i
    OBVIOUS
  <2>2. f[i + 1] = f[i] \cup
                   UNION {StatementReads(ss[p]) :
                            p \in {j \in DOMAIN ss : Defines(ss[j]) /\ ss[j].dst \in f[i]}}
    BY <1>1, <1>2, <2>1 DEF Rounds
  <2> QED
    BY <1>1, <2>2
<1>4. \A i \in 0..n : \A d \in Nat : i + d <= n => f[i] \subseteq f[i + d]
  <2> SUFFICES ASSUME NEW i \in 0..n
               PROVE  \A d \in Nat : i + d <= n => f[i] \subseteq f[i + d]
    OBVIOUS
  <2> DEFINE T == {d \in Nat : i + d <= n => f[i] \subseteq f[i + d]}
  <2>1. 0 \in T
    OBVIOUS
  <2>2. ASSUME NEW d \in Nat, d \in T PROVE d + 1 \in T
    <3>1. SUFFICES ASSUME i + (d + 1) <= n PROVE f[i] \subseteq f[i + (d + 1)]
      OBVIOUS
    <3>2. i + d \in 0..n /\ i + d + 1 <= n /\ i + (d + 1) = i + d + 1
      BY <3>1
    <3> QED
      BY <1>3, <2>2, <3>2
  <2> HIDE DEF T
  <2>3. \A d \in Nat : d \in T
    BY <2>1, <2>2, Induction
  <2> QED
    BY <2>3 DEF T
<1>5. \A i \in 0..n : \A j \in 0..n : i <= j => f[i] \subseteq f[j]
  <2> SUFFICES ASSUME NEW i \in 0..n, NEW j \in 0..n, i <= j PROVE f[i] \subseteq f[j]
    OBVIOUS
  <2>1. j - i \in Nat /\ i + (j - i) = j
    OBVIOUS
  <2> QED
    BY <1>4, <2>1
\* A definition that is live is so before the rounds that follow a chain of
\* readers up to it.
<1>6. \A m \in Nat : m <= n =>
        \A j \in 1..n : Defines(ss[j]) /\ ss[j].dst \in f[m] => ss[j].dst \in f[n - j]
  <2> DEFINE T == {m \in Nat : m <= n =>
                     \A j \in 1..n : Defines(ss[j]) /\ ss[j].dst \in f[m] => ss[j].dst \in f[n - j]}
  <2>1. 0 \in T
    <3> SUFFICES ASSUME NEW j \in 1..n, ss[j].dst \in f[0] PROVE ss[j].dst \in f[n - j]
      OBVIOUS
    <3>1. n - j \in 0..n /\ 0 \in 0..n /\ 0 <= n - j
      OBVIOUS
    <3> QED
      BY <1>5, <3>1
  <2>2. ASSUME NEW m \in Nat, m \in T PROVE m + 1 \in T
    <3> SUFFICES ASSUME m + 1 <= n, NEW j \in 1..n, Defines(ss[j]), ss[j].dst \in f[m + 1]
                 PROVE  ss[j].dst \in f[n - j]
      OBVIOUS
    <3>1. m \in 0..n /\ m <= n
      OBVIOUS
    <3>2. CASE ss[j].dst \in f[m]
      BY <2>2, <3>1, <3>2
    <3>3. CASE \E p \in 1..n : Defines(ss[p]) /\ ss[p].dst \in f[m]
                  /\ ss[j].dst \in StatementReads(ss[p])
      <4>1. PICK p \in 1..n : Defines(ss[p]) /\ ss[p].dst \in f[m]
                    /\ ss[j].dst \in StatementReads(ss[p])
        BY <3>3
      <4>2. ss[p].dst \in f[n - p]
        BY <2>2, <3>1, <4>1
      <4>3. n - p \in 0..n /\ n - p + 1 <= n
        OBVIOUS
      <4>4. ss[j].dst \in f[n - p + 1]
        BY <1>3, <4>1, <4>2, <4>3
      <4>5. j < p
        <5>1. ss[j].dst \in Versions
          BY <1>1 DEF Ssa, Shape
        <5>2. ss[j].dst \notin Free
          BY <5>1 DEF Versions, Free, Plain, None
        <5>3. ss[j].dst \in Before(ss, p)
          BY <1>1, <4>1, <5>2 DEF Ssa
        <5>4. PICK i \in DOMAIN ss : i < p /\ Defines(ss[i]) /\ ss[i].dst = ss[j].dst
          BY <5>3 DEF Before
        <5>5. i = j
          BY <1>1, <5>4 DEF Ssa
        <5> QED
          BY <5>4, <5>5
      <4>6. n - p + 1 \in 0..n /\ n - j \in 0..n /\ n - p + 1 <= n - j
        BY <4>5
      <4> QED
        BY <1>5, <4>4, <4>6
    <3> QED
      BY <1>3, <3>1, <3>2, <3>3
  <2> HIDE DEF T
  <2>3. \A m \in Nat : m \in T
    BY <2>1, <2>2, Induction
  <2> QED
    BY <2>3 DEF T
<1>7. CASE Defines(ss[k])
  <2>1. ss[k].dst \in f[n]
    BY <1>1, <1>2, <1>7 DEF IsLive, Rounds
  <2>2. ss[k].dst \in f[n - k]
    BY <1>1, <1>6, <1>7, <2>1
  <2>3. n - k \in 0..n /\ n - k + 1 <= n /\ n - k + 1 \in 0..n /\ n \in 0..n
    BY <1>1
  <2>4. StatementReads(ss[k]) \subseteq f[n - k + 1]
    BY <1>1, <1>3, <1>7, <2>2, <2>3
  <2> QED
    BY <1>1, <1>2, <1>5, <2>3, <2>4 DEF Rounds
<1>8. CASE ss[k].kind = "store"
  <2>1. StatementReads(ss[k]) \subseteq Stored(ss)
    BY <1>8 DEF Stored
  <2>2. 0 \in 0..n /\ n \in 0..n /\ 0 <= n
    OBVIOUS
  <2> QED
    BY <1>1, <1>2, <1>5, <2>1, <2>2 DEF Rounds
<1>9. CASE ss[k].kind \in {"unsupported", "nop"}
  BY <1>9 DEF Ssa, Shape, Parts, StatementReads
<1> QED
  BY <1>7, <1>8, <1>9 DEF Ssa, Shape, Defines

\* What is dropped defines nothing that is read, and is no store.
LEMMA SelectedSsa ==
    ASSUME NEW ss, Ssa(ss), NEW v, NEW m, Replayed(ss, v, m), NEW live,
           \A k \in DOMAIN ss : IsLive(ss[k], live) => StatementReads(ss[k]) \subseteq live,
           NEW tt, tt = Selected(ss, {k \in DOMAIN ss : IsLive(ss[k], live)})
    PROVE  Ssa(tt) /\ Replayed(tt, v, m)
<1> DEFINE at == {k \in DOMAIN ss : IsLive(ss[k], live)}
<1>1. PICK n \in Nat : n = Len(ss) /\ DOMAIN ss = 1..n
  BY Lengths DEF Ssa
<1>2. PICK f : Steps(ss, at, f)
  BY <1>1, SelectedSteps
<1>3. /\ f[0] = <<>> /\ f[n] = tt
      /\ \A i \in 1..n : f[i] = IF i \in at THEN Append(f[i - 1], ss[i]) ELSE f[i - 1]
  <2> HIDE DEF at
  <2>1. tt = Selected(ss, at)
    BY DEF at
  <2> QED
    BY <1>1, <1>2, <2>1 DEF Steps
<1>4. PICK held : Memories(ss, v, m, held)
  BY DEF Replayed
<1>5. /\ held[1] = Memory /\ held[n + 1] = m
      /\ \A k \in 1..n : /\ held[k + 1] = After(held[k], ss[k])
                         /\ ss[k].kind = "load" => v[ss[k].dst]
                               = Word(held[k], ss[k].seen[1], ss[k].bits)
  BY <1>1, <1>4 DEF Memories
<1> DEFINE Kept(i) == {ss[j].dst : j
             \in {p \in DOMAIN ss : p <= i /\ Defines(ss[p]) /\ ss[p].dst \in live}}
           T == {i \in Nat : i <= n
             => Ssa(f[i]) /\ Dsts(f[i]) = Kept(i) /\ Replayed(f[i], v, held[i + 1])}
<1>6. 0 \in T
  <2>1. DOMAIN f[0] = {} /\ Len(f[0]) = 0 /\ IsSequence(f[0])
    BY <1>3, Empty
  <2>2. Ssa(f[0])
    BY <2>1 DEF Ssa
  <2>3. Dsts(f[0]) = {} /\ Kept(0) = {}
    BY <1>1, <2>1 DEF Dsts
  <2>4. Memories(f[0], v, Memory, held)
    BY <1>5, <2>1 DEF Memories
  <2> QED
    BY <1>5, <2>2, <2>3, <2>4 DEF Replayed
<1>7. ASSUME NEW i \in Nat, i \in T PROVE i + 1 \in T
  <2> DEFINE r == ss[i + 1]
  <2>1. SUFFICES ASSUME i + 1 <= n
                 PROVE  Ssa(f[i + 1]) /\ Dsts(f[i + 1]) = Kept(i + 1)
                           /\ Replayed(f[i + 1], v, held[i + 2])
    BY <1>7
  <2>2. i + 1 \in 1..n /\ i + 1 \in DOMAIN ss /\ i + 1 - 1 = i /\ i <= n /\ i + 1 + 1 = i + 2
    BY <1>1, <2>1
  <2>3. Ssa(f[i]) /\ Dsts(f[i]) = Kept(i) /\ Replayed(f[i], v, held[i + 1]) /\ IsSequence(f[i])
    BY <1>7, <2>2 DEF Ssa
  <2>4. f[i + 1] = IF IsLive(r, live) THEN Append(f[i], r) ELSE f[i]
    BY <1>3, <2>2
  <2>5. Shape(r) /\ StatementReads(r) \subseteq Free \cup Before(ss, i + 1)
    BY <2>2 DEF Ssa
  <2>6. /\ held[i + 2] = After(held[i + 1], r)
        /\ r.kind = "load" => v[r.dst] = Word(held[i + 1], r.seen[1], r.bits)
    BY <1>5, <2>2
  <2>7. Kept(i + 1) = Kept(i) \cup (IF Defines(r) /\ r.dst \in live THEN {r.dst} ELSE {})
    <3>1. \A p \in DOMAIN ss : p <= i + 1 <=> p <= i \/ p = i + 1
      BY <1>1
    <3> QED
      BY <2>2, <3>1
  <2>8. CASE IsLive(r, live)
    <3>1. StatementReads(r) \subseteq Free \cup Dsts(f[i])
      <4>1. \A x \in Before(ss, i + 1) : x \in live => x \in Kept(i)
        <5>1. \A p \in DOMAIN ss : p < i + 1 => p <= i
          BY <1>1
        <5> QED
          BY <5>1 DEF Before
      <4>2. StatementReads(r) \subseteq live
        BY <2>2, <2>8
      <4> QED
        BY <2>3, <2>5, <4>1, <4>2
    <3>2. Defines(r) => r.dst \notin Dsts(f[i])
      <4> SUFFICES ASSUME Defines(r), NEW p \in DOMAIN ss, p <= i, Defines(ss[p]), ss[p].dst = r.dst
                   PROVE  FALSE
        BY <2>3
      <4>1. p = i + 1
        BY <2>2 DEF Ssa
      <4> QED
        BY <4>1
    <3> HIDE DEF r, Kept, at
    <3>3. Ssa(Append(f[i], r))
      BY <2>3, <2>5, <3>1, <3>2, SsaAppend
    <3>4. Dsts(Append(f[i], r)) = Kept(i + 1)
      BY <2>3, <2>7, <2>8, DstsAppend, ZenonT(60) DEF IsLive
    <3>5. Replayed(Append(f[i], r), v, held[i + 2])
      BY <2>3, <2>6, ReplayedAppend
    <3> QED
      BY <2>4, <2>8, <3>3, <3>4, <3>5
  <2>9. CASE ~IsLive(r, live)
    <3> HIDE DEF r, Kept
    <3>1. r.kind # "store"
      BY <2>9 DEF IsLive, Defines
    <3>2. held[i + 2] = held[i + 1]
      BY <2>6, <3>1 DEF After
    <3>3. Kept(i + 1) = Kept(i)
      BY <2>7, <2>9 DEF IsLive
    <3> QED
      BY <2>3, <2>4, <2>9, <3>2, <3>3
  <2> QED
    BY <2>8, <2>9
<1>8. n \in T
  <2> HIDE DEF T
  <2> QED
    BY <1>6, <1>7, Induction
<1> QED
  BY <1>5, <1>8, <1>3

\* What one pass makes of the statements.
LEMMA PassKeeps ==
    ASSUME Ssa(statements), NEW m, Replayed(statements, val, m), Pass
    PROVE  Ssa(statements)' /\ Replayed(statements', val', m)
<1> DEFINE folded == [k \in DOMAIN statements |-> Simplified(statements[k])]
           map == Inlined(folded)
           propagated == [k \in DOMAIN folded |-> Propagated(folded[k], map)]
           reduced == Substitute(Simplify(condition), map)
           live == LiveNames(propagated, reduced)
<1>1. /\ statements' = Selected(propagated, {k \in DOMAIN propagated : IsLive(propagated[k], live)})
      /\ val' = val
  BY DEF Pass, machine
<1>2. PICK n \in Nat : n = Len(statements) /\ DOMAIN statements = 1..n
  BY Lengths DEF Ssa
<1>3. /\ IsSequence(folded) /\ Len(folded) = n /\ DOMAIN folded = 1..n
      /\ \A k \in 1..n : folded[k] = Simplified(statements[k])
  <2>1. \A k \in 1..n : folded[k] = Simplified(statements[k])
    BY <1>2
  <2>2. folded = [k \in 1..n |-> folded[k]]
    BY <1>2
  <2> HIDE DEF folded
  <2> QED
    BY <2>1, <2>2, Mapped
<1> HIDE DEF folded
<1>4. \A k \in 1..n : /\ Alike(statements[k], folded[k]) /\ Shape(folded[k])
                      /\ StatementReads(folded[k]) \subseteq Free \cup Before(statements, k)
  <2> SUFFICES ASSUME NEW k \in 1..n
               PROVE  /\ Alike(statements[k], folded[k]) /\ Shape(folded[k])
                      /\ StatementReads(folded[k]) \subseteq Free \cup Before(statements, k)
    OBVIOUS
  <2>1. Shape(statements[k]) /\ StatementReads(statements[k])
          \subseteq Free \cup Before(statements, k)
    BY <1>2 DEF Ssa
  <2> QED
    BY <1>3, <2>1, SimplifiedStatement
<1>5. Ssa(folded)
  BY <1>2, <1>3, <1>4, AlikeSsa
<1>6. Replayed(folded, val, m)
  BY <1>2, <1>3, <1>4, AlikeReplayed
<1>7. /\ IsSequence(propagated) /\ Len(propagated) = n /\ DOMAIN propagated = 1..n
      /\ \A k \in 1..n : propagated[k] = Propagated(folded[k], map)
  <2>1. \A k \in 1..n : propagated[k] = Propagated(folded[k], map)
    BY <1>3
  <2>2. propagated = [k \in 1..n |-> propagated[k]]
    BY <1>3
  <2> HIDE DEF propagated
  <2> QED
    BY <2>1, <2>2, Mapped
<1> HIDE DEF propagated
<1>8. \A k \in 1..n : /\ Alike(folded[k], propagated[k]) /\ Shape(propagated[k])
                      /\ StatementReads(propagated[k]) \subseteq Free \cup Before(folded, k)
  BY <1>3, <1>5, <1>7, PropagatedStatement
<1>9. Ssa(propagated)
  BY <1>3, <1>5, <1>7, <1>8, AlikeSsa
<1>10. Replayed(propagated, val, m)
  BY <1>3, <1>6, <1>7, <1>8, AlikeReplayed
<1>11. \A k \in DOMAIN propagated : IsLive(propagated[k], live)
         => StatementReads(propagated[k]) \subseteq live
  BY <1>9, LiveIsClosed
<1> HIDE DEF live
<1>12. Ssa(statements') /\ Replayed(statements', val, m)
  BY <1>1, <1>9, <1>10, <1>11, SelectedSsa
<1> QED
  BY <1>1, <1>12

----------------------------------------------------------------------------
(* What is left when the passes are done: definitions and inputs.            *)

\* What is selected is one of the elements at the positions.
LEMMA SelectedElements ==
    ASSUME NEW ss, IsSequence(ss), NEW at
    PROVE  /\ IsSequence(Selected(ss, at))
           /\ \A k \in DOMAIN Selected(ss, at) :
                \E j \in DOMAIN ss : j \in at /\ Selected(ss, at)[k] = ss[j]
<1>1. PICK n \in Nat : n = Len(ss) /\ DOMAIN ss = 1..n
  BY Lengths
<1>2. PICK f : Steps(ss, at, f)
  BY <1>1, SelectedSteps
<1>3. /\ f[0] = <<>> /\ f[n] = Selected(ss, at)
      /\ \A i \in 1..n : f[i] = IF i \in at THEN Append(f[i - 1], ss[i]) ELSE f[i - 1]
  BY <1>1, <1>2 DEF Steps
<1> DEFINE Taken(q) == \A k \in DOMAIN q : \E j \in DOMAIN ss : j \in at /\ q[k] = ss[j]
           T == {i \in Nat : i <= n => IsSequence(f[i]) /\ Taken(f[i])}
<1>4. 0 \in T
  <2>1. IsSequence(f[0]) /\ DOMAIN f[0] = {}
    BY <1>3, Empty
  <2> QED
    BY <2>1
<1>5. ASSUME NEW i \in Nat, i \in T PROVE i + 1 \in T
  <2>1. SUFFICES ASSUME i + 1 <= n PROVE IsSequence(f[i + 1]) /\ Taken(f[i + 1])
    BY <1>5
  <2>2. i <= n /\ i + 1 \in DOMAIN ss /\ i + 1 - 1 = i /\ i + 1 \in 1..n
    BY <1>1, <2>1
  <2>3. IsSequence(f[i]) /\ Taken(f[i])
    BY <1>5, <2>2
  <2>4. f[i + 1] = IF i + 1 \in at THEN Append(f[i], ss[i + 1]) ELSE f[i]
    BY <1>3, <2>2
  <2>5. CASE i + 1 \in at
    <3> DEFINE q == Append(f[i], ss[i + 1])
    <3>1. /\ IsSequence(q)
          /\ \A k \in DOMAIN q : (k \in DOMAIN f[i] /\ q[k] = f[i][k]) \/ q[k] = ss[i + 1]
      BY <2>3, Appended
    <3>2. f[i + 1] = q
      BY <2>4, <2>5
    <3> HIDE DEF q
    <3>3. Taken(q)
      BY <2>2, <2>3, <2>5, <3>1
    <3> QED
      BY <3>1, <3>2, <3>3
  <2> QED
    BY <2>3, <2>4, <2>5
<1>6. n \in T
  <2> HIDE DEF T
  <2> QED
    BY <1>4, <1>5, Induction
<1> QED
  BY <1>3, <1>6

\* WithParts, part by part.
ReadSteps(ins, parts, known, f) ==
    /\ f[0] = ins /\ f[Len(parts)] = WithParts(ins, parts, known)
    /\ \A i \in 1..Len(parts) : f[i] = WithReads(f[i - 1], parts[i], known)

\* The reads of parts are added step by step.
LEMMA ReadsStepByStep ==
    ASSUME NEW ins, NEW parts, NEW known, Len(parts) \in Nat
    PROVE  \E f : ReadSteps(ins, parts, known, f)
<1> DEFINE base == ins
           More(q, i) == WithReads(q, parts[i], known)
           Rec(f, m) == f = [i \in 0..m |-> IF i = 0 THEN base ELSE More(f[i - 1], i)]
           S == {m \in Nat : \E f : Rec(f, m)}
           upTo == CHOOSE f : Rec(f, Len(parts))
<1>1. WithParts(ins, parts, known) = upTo[Len(parts)]
  BY DEF WithParts
<1> HIDE DEF More, base
<1>2. 0 \in S
  <2> DEFINE g == [i \in 0..0 |-> base]
  <2>1. Rec(g, 0)
    OBVIOUS
  <2> HIDE DEF g
  <2> QED
    BY <2>1
<1>3. ASSUME NEW m \in Nat, m \in S PROVE m + 1 \in S
  <2>1. PICK f : Rec(f, m)
    BY <1>3
  <2> DEFINE g == [i \in 0..(m + 1) |-> IF i <= m THEN f[i] ELSE More(f[m], m + 1)]
  <2>2. Rec(g, m + 1)
    <3>1. ASSUME NEW i \in 0..(m + 1)
          PROVE  g[i] = IF i = 0 THEN base ELSE More(g[i - 1], i)
      <4>1. CASE i = m + 1
        BY <4>1
      <4>2. CASE i # m + 1
        <5>1. i \in 0..m /\ (i # 0 => i - 1 \in 0..m)
          BY <4>2
        <5> QED
          BY <2>1, <5>1
      <4> QED
        BY <4>1, <4>2
    <3> QED
      BY <3>1
  <2> HIDE DEF g
  <2> QED
    BY <2>2
<1>4. Rec(upTo, Len(parts))
  <2> HIDE DEF Rec
  <2>1. Len(parts) \in S
    <3> HIDE DEF S
    <3> QED
      BY <1>2, <1>3, Induction
  <2> QED
    BY <2>1
<1> HIDE DEF upTo
<1>5. /\ upTo[0] = base
      /\ \A i \in 1..Len(parts) : upTo[i] = More(upTo[i - 1], i)
  BY <1>4
<1> QED
  BY <1>1, <1>5 DEF More, base, ReadSteps

\* The inputs grow by what is read and not known.
LEMMA ReadsAreInputs ==
    ASSUME NEW ins, NEW parts, NEW known, Len(parts) \in Nat
    PROVE  /\ DOMAIN ins \subseteq DOMAIN WithParts(ins, parts, known)
           /\ \A i \in 1..Len(parts) : Reads(parts[i]) \ known
                 \subseteq DOMAIN WithParts(ins, parts, known)
<1>1. PICK n \in Nat : n = Len(parts)
  OBVIOUS
<1>2. PICK f : ReadSteps(ins, parts, known, f)
  BY ReadsStepByStep
<1>3. /\ f[0] = ins /\ f[n] = WithParts(ins, parts, known)
      /\ \A i \in 1..n : DOMAIN f[i] = DOMAIN f[i - 1] \cup (Reads(parts[i]) \ known)
  <2>1. \A q, e : DOMAIN WithReads(q, e, known) = DOMAIN q \cup (Reads(e) \ known)
    BY DEF WithReads
  <2>2. \A i \in 1..n : f[i] = WithReads(f[i - 1], parts[i], known)
    BY <1>1, <1>2 DEF ReadSteps
  <2> QED
    BY <1>1, <1>2, <2>1, <2>2, ZenonT(60) DEF ReadSteps
<1> DEFINE Good(d, i) == /\ DOMAIN ins \subseteq d
                         /\ \A j \in 1..n : j <= i => Reads(parts[j]) \ known \subseteq d
           T == {i \in Nat : i <= n => Good(DOMAIN f[i], i)}
<1>4. 0 \in T
  BY <1>3
<1>5. ASSUME NEW i \in Nat, i \in T PROVE i + 1 \in T
  <2>1. SUFFICES ASSUME i + 1 <= n PROVE Good(DOMAIN f[i + 1], i + 1)
    BY <1>5
  <2>2. i + 1 \in 1..n /\ i + 1 - 1 = i /\ i <= n
    BY <2>1
  <2>3. DOMAIN f[i + 1] = DOMAIN f[i] \cup (Reads(parts[i + 1]) \ known)
    BY <1>3, <2>2
  <2>4. Good(DOMAIN f[i], i)
    BY <1>5, <2>2
  <2>5. \A j \in 1..n : j <= i + 1 => j <= i \/ j = i + 1
    OBVIOUS
  <2> QED
    BY <2>3, <2>4, <2>5
<1>6. n \in T
  <2> HIDE DEF T
  <2> QED
    BY <1>4, <1>5, Induction
<1> QED
  BY <1>1, <1>3, <1>6

\* What Recompute makes the inputs of, statement by statement.
InputSteps(known, f) ==
    /\ f[0] = [n \in {} |-> 0]
    /\ inputs' = WithReads(f[Len(statements)], condition, known)
    /\ \A i \in 1..Len(statements) : f[i] = WithParts(f[i - 1], statements[i].parts, known)

\* The inputs are recomputed step by step.
LEMMA InputsStepByStep ==
    ASSUME Recompute, Len(statements) \in Nat, NEW defined, NEW known,
           defined = Selected(statements, {k \in DOMAIN statements : Defines(statements[k])}),
           known = {defined[k].dst : k \in DOMAIN defined}
    PROVE  \E f : InputSteps(known, f)
<1> DEFINE base == [n \in {} |-> 0]
           More(q, i) == WithParts(q, statements[i].parts, known)
           Rec(f, m) == f = [i \in 0..m |-> IF i = 0 THEN base ELSE More(f[i - 1], i)]
           S == {m \in Nat : \E f : Rec(f, m)}
           upTo == CHOOSE f : Rec(f, Len(statements))
<1>1. inputs' = WithReads(upTo[Len(statements)], condition, known)
  BY DEF Recompute
<1> HIDE DEF More, base
<1>2. 0 \in S
  <2> DEFINE g == [i \in 0..0 |-> base]
  <2>1. Rec(g, 0)
    OBVIOUS
  <2> HIDE DEF g
  <2> QED
    BY <2>1
<1>3. ASSUME NEW m \in Nat, m \in S PROVE m + 1 \in S
  <2>1. PICK f : Rec(f, m)
    BY <1>3
  <2> DEFINE g == [i \in 0..(m + 1) |-> IF i <= m THEN f[i] ELSE More(f[m], m + 1)]
  <2>2. Rec(g, m + 1)
    <3>1. ASSUME NEW i \in 0..(m + 1)
          PROVE  g[i] = IF i = 0 THEN base ELSE More(g[i - 1], i)
      <4>1. CASE i = m + 1
        BY <4>1
      <4>2. CASE i # m + 1
        <5>1. i \in 0..m /\ (i # 0 => i - 1 \in 0..m)
          BY <4>2
        <5> QED
          BY <2>1, <5>1
      <4> QED
        BY <4>1, <4>2
    <3> QED
      BY <3>1
  <2> HIDE DEF g
  <2> QED
    BY <2>2
<1>4. Rec(upTo, Len(statements))
  <2> HIDE DEF Rec
  <2>1. Len(statements) \in S
    <3> HIDE DEF S
    <3> QED
      BY <1>2, <1>3, Induction
  <2> QED
    BY <2>1
<1> HIDE DEF upTo
<1>5. /\ upTo[0] = base
      /\ \A i \in 1..Len(statements) : upTo[i] = More(upTo[i - 1], i)
  BY <1>4
<1> QED
  BY <1>1, <1>5 DEF More, base, InputSteps

\* The names that a slice defines, and those that it reads and does not define.
NamesSettled ==
    /\ \A k \in DOMAIN defs : defs[k].name \in Dsts(statements)
    /\ \A k \in DOMAIN statements : StatementReads(statements[k])
         \subseteq DOMAIN inputs \cup Dsts(statements)

\* Once the inputs are recomputed, every name read is an input or defined
\* above.
LEMMA RecomputeSettles ==
    ASSUME Ssa(statements), Recompute
    PROVE  NamesSettled' /\ Ssa(statements)'
<1>1. PICK n \in Nat : n = Len(statements) /\ DOMAIN statements = 1..n
  BY Lengths DEF Ssa
<1> DEFINE at == {k \in DOMAIN statements : Defines(statements[k])}
           defined == Selected(statements, at)
           known == {defined[k].dst : k \in DOMAIN defined}
<1>2. /\ defs' = [k \in DOMAIN defined |-> [name |-> defined[k].dst, bits |-> defined[k].bits]]
      /\ statements' = statements
  BY DEF Recompute
<1>3. \A k \in DOMAIN defined : defined[k].dst \in Dsts(statements)
  <2>1. \A k \in DOMAIN defined : \E j \in DOMAIN statements : j \in at
          /\ defined[k] = statements[j]
    <3> HIDE DEF at
    <3> QED
      BY SelectedElements DEF Ssa
  <2> HIDE DEF defined
  <2> QED
    BY <2>1 DEF Dsts
<1>4. PICK f : InputSteps(known, f)
  BY <1>1, InputsStepByStep
<1> HIDE DEF defined, at
<1>5. known \subseteq Dsts(statements)
  BY <1>3
<1> HIDE DEF known
<1>6. /\ DOMAIN f[n] \subseteq DOMAIN inputs'
      /\ \A i \in 1..n : f[i] = WithParts(f[i - 1], statements[i].parts, known)
  BY <1>1, <1>4 DEF InputSteps, WithReads
<1>7. \A i \in 1..n : /\ DOMAIN f[i - 1] \subseteq DOMAIN f[i]
                      /\ StatementReads(statements[i]) \ known \subseteq DOMAIN f[i]
  <2> SUFFICES ASSUME NEW i \in 1..n
               PROVE  /\ DOMAIN f[i - 1] \subseteq DOMAIN f[i]
                      /\ StatementReads(statements[i]) \ known \subseteq DOMAIN f[i]
    OBVIOUS
  <2>1. Len(statements[i].parts) \in Nat /\ DOMAIN statements[i].parts = 1..Len(statements[i].parts)
    BY <1>1, Lengths DEF Ssa, Shape
  <2> QED
    BY <1>6, <2>1, ReadsAreInputs DEF StatementReads
<1> DEFINE T == {i \in Nat : i <= n => \A j \in 1..n : j <= i =>
                                         StatementReads(statements[j]) \ known
                                            \subseteq DOMAIN f[i]}
<1>8. 0 \in T
  OBVIOUS
<1>9. ASSUME NEW i \in Nat, i \in T PROVE i + 1 \in T
  <2>1. SUFFICES ASSUME i + 1 <= n, NEW j \in 1..n, j <= i + 1
                 PROVE  StatementReads(statements[j]) \ known \subseteq DOMAIN f[i + 1]
    OBVIOUS
  <2>2. i + 1 \in 1..n /\ i + 1 - 1 = i /\ i <= n
    BY <2>1
  <2>3. CASE j = i + 1
    BY <1>7, <2>2, <2>3
  <2>4. CASE j # i + 1
    <3>1. j <= i
      BY <2>1, <2>4
    <3> QED
      BY <1>7, <1>9, <2>2, <3>1
  <2> QED
    BY <2>3, <2>4
<1>10. n \in T
  <2> HIDE DEF T
  <2> QED
    BY <1>8, <1>9, Induction
<1>11. \A j \in DOMAIN statements : StatementReads(statements[j])
         \subseteq DOMAIN inputs' \cup Dsts(statements)
  BY <1>1, <1>5, <1>6, <1>10
<1>12. \A k \in DOMAIN defs' : defs'[k].name \in Dsts(statements)
  BY <1>2, <1>3
<1> QED
  BY <1>2, <1>11, <1>12 DEF NamesSettled

----------------------------------------------------------------------------
(* The conversion: the latest version of a register holds what the register  *)
(* holds, a statement reads names that have a value, and a new name has none *)
(* before it is defined, so that giving it one changes no statement.         *)

\* The names that have a value: the plain ones, and the versions given out.
Known == PlainNames \cup {n \in Versions : n[2] <= latest[n[1]]}
\* A register has a latest version, or none.
LatestOK == latest \in [Registers -> Nat \cup {None}]
\* What is known, and that the latest version is what the register holds.
Agreement ==
    /\ DOMAIN env = PlainNames
    /\ DOMAIN val = Known
    /\ \A x \in Registers : val[Named(x)] = env[Plain(x)]
    /\ \A k \in Hidden : val[Plain(k)] = env[Plain(k)]
\* The statements read, define and stand for known names.
StatementsAreClosed ==
    \A k \in DOMAIN statements :
        /\ \A i \in DOMAIN statements[k].parts : Closed(statements[k].parts[i], Known)
        /\ statements[k].kind = "assign" => statements[k].dst \in Known
\* The slice is a sequence.
StatementsAreSequence == IsSequence(statements)
\* The condition agrees with the branch that the machine took.
ConditionIsTrue == ~Converting => (taken <=> Holds(condition, val))
\* Every statement is true of the machine.
AllSatisfied == \A k \in DOMAIN statements : Satisfied(statements[k])
\* What the conversion keeps.
IInv ==
    /\ LatestOK /\ StatementsAreSequence /\ Agreement
    /\ StatementsAreClosed /\ AllSatisfied /\ ConditionIsTrue

\* A renamed expression has the value that the lifted one has on the machine.
LEMMA RenameGround ==
    ASSUME NEW e, Lifted(e), LatestOK, Agreement
    PROVE  /\ Ground(Rename(e), val) = Ground(e, env)
           /\ Closed(Rename(e), Known)
<1>1. DOMAIN Rename(e) = DOMAIN e
  BY DEF Rename
<1>2. ASSUME NEW i \in DOMAIN e, IsVar(e[i])
      PROVE  /\ IsVar(Rename(e)[i])
             /\ Rename(e)[i].bits = e[i].bits
             /\ val[Rename(e)[i].name] = env[e[i].name]
             /\ Rename(e)[i].name \in Known
             /\ Rename(e)[i].op # "unknown"
  <2>1. PICK x \in Registers : e[i] = Variable(Plain(x), e[i].bits)
    BY <1>2 DEF Lifted
  <2>2. e[i].name = Plain(x) /\ e[i].name[1] = x
    BY <2>1 DEF Variable, Plain
  <2>3. Rename(e)[i] = Variable(Named(x), e[i].bits)
    BY <1>2, <2>2 DEF Rename
  <2>4. Named(x) \in Known
    <3>1. latest[x] \in Nat \cup {None}
      BY DEF LatestOK
    <3>2. CASE latest[x] = None
      BY <3>2 DEF Known, Named, PlainNames, Plain
    <3>3. CASE latest[x] \in Nat
      BY <3>3 DEF Known, Named, Versions
    <3> QED BY <3>1, <3>2, <3>3
  <2>5. /\ IsVar(Variable(Named(x), e[i].bits))
        /\ Variable(Named(x), e[i].bits).bits = e[i].bits
        /\ Variable(Named(x), e[i].bits).name = Named(x)
        /\ Variable(Named(x), e[i].bits).op = "var"
    BY DEF IsVar, Variable
  <2> QED BY <2>2, <2>3, <2>4, <2>5 DEF Agreement
<1>3. ASSUME NEW i \in DOMAIN e, ~IsVar(e[i])
      PROVE  Rename(e)[i] = e[i]
  BY <1>3 DEF Rename
<1>4. ASSUME NEW i \in DOMAIN e, e[i].op = "unknown"
      PROVE  val[e[i].stands] = env[e[i].stands] /\ e[i].stands \in Known
  BY <1>4 DEF Lifted, Agreement, Known, PlainNames
<1>5. Ground(Rename(e), val) = Ground(e, env)
  <2>1. ASSUME NEW i \in DOMAIN e PROVE Ground(Rename(e), val)[i] = Ground(e, env)[i]
    <3>1. CASE IsVar(e[i])
      BY <1>1, <1>2, <3>1 DEF Ground
    <3>2. CASE ~IsVar(e[i])
      BY <1>1, <1>3, <1>4, <3>2 DEF Ground
    <3> QED BY <3>1, <3>2
  <2> QED BY <1>1, <2>1 DEF Ground
<1>6. Closed(Rename(e), Known)
  BY <1>1, <1>2, <1>3, <1>4 DEF Closed
<1> QED BY <1>5, <1>6

\* Values of other names do not matter.
LEMMA GroundOfMore ==
    ASSUME NEW e, NEW u, NEW w, NEW names, Closed(e, names), \A n \in names : u[n] = w[n]
    PROVE  Ground(e, u) = Ground(e, w)
BY DEF Ground, Closed

\* What a statement says depends on the names it reads and defines only.
LEMMA SatisfiedOfMore ==
    ASSUME NEW s, NEW u, NEW w, NEW names,
           \A i \in DOMAIN s.parts : Closed(s.parts[i], names),
           \A n \in names : u[n] = w[n]
    PROVE  Denotes(s, u) = Denotes(s, w)
<1>1. \A i \in DOMAIN s.parts : Ground(s.parts[i], u) = Ground(s.parts[i], w)
  BY GroundOfMore
<1> QED BY <1>1 DEF Denotes, DenoteAt, Denote

\* A renamed statement says of val what the lifted one says of env.
LEMMA RenamedDenotes ==
    ASSUME NEW s, NEW r, LatestOK, Agreement,
           \A i \in DOMAIN s.parts : Lifted(s.parts[i]),
           r.kind = s.kind, r.bits = s.bits, r.parts = Renamed(s)
    PROVE  /\ Denotes(r, val) = Denotes(s, env)
           /\ \A i \in DOMAIN r.parts : Closed(r.parts[i], Known)
<1>1. DOMAIN r.parts = DOMAIN s.parts /\ \A i \in DOMAIN s.parts : r.parts[i] = Rename(s.parts[i])
  BY DEF Renamed
<1>2. \A i \in DOMAIN s.parts : /\ Ground(r.parts[i], val) = Ground(s.parts[i], env)
                                /\ Closed(r.parts[i], Known)
  BY <1>1, RenameGround
<1>3. \A i : PartBits(r, i) = PartBits(s, i)
  BY DEF PartBits
<1>4. Denotes(r, val) = Denotes(s, env)
  BY <1>1, <1>2, <1>3 DEF Denotes, DenoteAt, Denote
<1> QED BY <1>1, <1>2, <1>4

\* A new name is one that nothing knows.
LEMMA FreshIsNew ==
    ASSUME NEW x \in Registers, LatestOK
    PROVE  /\ Fresh(x) \notin Known
           /\ Fresh(x) \in Versions
           /\ latest[x] + 1 \in Nat
<1>1. latest[x] \in Nat \cup {-1}
  BY DEF LatestOK, None
<1>2. latest[x] + 1 \in Nat
  BY <1>1
<1>3. Fresh(x) \in Versions
  BY <1>2 DEF Fresh, Versions
<1>4. Fresh(x) \notin PlainNames
  BY <1>2 DEF Fresh, PlainNames, Plain, None
<1>5. ~(Fresh(x)[2] <= latest[Fresh(x)[1]])
  BY <1>1 DEF Fresh
<1> QED BY <1>2, <1>3, <1>4, <1>5 DEF Known

\* What becomes of the names when a statement defines one.
LEMMA DefineNames ==
    ASSUME NEW s \in Statements, NEW v, IInv, Define(s, v), s.dst \in Registers
    PROVE  /\ LatestOK'
           /\ Known' = Known \cup {Fresh(s.dst)}
           /\ Agreement'
           /\ \A n \in Known : val'[n] = val[n]
           /\ val'[Fresh(s.dst)] = v
           /\ Fresh(s.dst) \notin Known
<1> DEFINE x == s.dst
<1>0. x \in Registers
  OBVIOUS
<1> USE <1>0
<1> HIDE DEF x
<1>1. LatestOK /\ Agreement
  BY DEF IInv
<1>2. /\ latest' = [latest EXCEPT ![x] = @ + 1]
      /\ env' = [env EXCEPT ![Plain(x)] = v]
      /\ val' = [n \in DOMAIN val \cup {Fresh(x)} |-> IF n = Fresh(x) THEN v ELSE val[n]]
  BY DEF Define, x
<1>3. Fresh(x) \notin Known /\ Fresh(x) \in Versions /\ latest[x] + 1 \in Nat
  BY <1>1, FreshIsNew
<1>4. LatestOK'
  BY <1>1, <1>2, <1>3 DEF LatestOK
<1>5. latest'[x] = latest[x] + 1 /\ \A y \in Registers \ {x} : latest'[y] = latest[y]
  BY <1>1, <1>2 DEF LatestOK
<1>6. Known' = Known \cup {Fresh(x)}
  <2>1. ASSUME NEW n \in Versions
        PROVE  n[2] <= latest'[n[1]] <=> n[2] <= latest[n[1]] \/ n = Fresh(x)
    <3>1. n[1] \in Registers /\ n[2] \in Nat /\ n = <<n[1], n[2]>>
      BY DEF Versions
    <3>2. CASE n[1] = x
      <4>1. latest[x] \in Nat \cup {-1}
        BY <1>1 DEF LatestOK, None
      <4>2. n = Fresh(x) <=> n[2] = latest[x] + 1
        BY <3>1, <3>2 DEF Fresh
      <4> QED BY <3>1, <3>2, <4>1, <4>2, <1>5
    <3>3. CASE n[1] # x
      BY <3>1, <3>3, <1>5 DEF Fresh
    <3> QED BY <3>2, <3>3
  <2> QED BY <2>1, <1>3 DEF Known
<1>7. DOMAIN env' = PlainNames /\ DOMAIN val' = Known'
  BY <1>1, <1>2, <1>6 DEF Agreement
<1>8. /\ val'[Fresh(x)] = v
      /\ \A n \in Known : val'[n] = val[n]
  BY <1>1, <1>2, <1>3 DEF Agreement
<1>9. env'[Plain(x)] = v /\ \A n \in PlainNames \ {Plain(x)} : env'[n] = env[n]
  BY <1>1, <1>2 DEF Agreement, PlainNames
<1>10. ASSUME NEW y \in Registers PROVE val'[Named(y)'] = env'[Plain(y)]
  <2>1. CASE y = x
    BY <2>1, <1>5, <1>8, <1>9 DEF Named, Fresh
  <2>2. CASE y # x
    <3>1. Named(y)' = Named(y)
      BY <2>2, <1>5 DEF Named
    <3>2. Plain(y) \in PlainNames \ {Plain(x)}
      BY <2>2 DEF Plain, PlainNames
    <3>3. Named(y) \in Known
      <4>1. latest[y] \in Nat \cup {None}
        BY <1>1 DEF LatestOK
      <4>2. CASE latest[y] = None
        BY <4>2 DEF Known, Named, PlainNames, Plain
      <4>3. CASE latest[y] \in Nat
        BY <4>3 DEF Known, Named, Versions
      <4> QED BY <4>1, <4>2, <4>3
    <3> QED BY <3>1, <3>2, <3>3, <1>1, <1>8, <1>9 DEF Agreement
  <2> QED BY <2>1, <2>2
<1>11. ASSUME NEW k \in Hidden PROVE val'[Plain(k)] = env'[Plain(k)]
  <2>1. Plain(k) \in PlainNames \ {Plain(x)}
    BY ConstantsAssumption DEF Plain, PlainNames
  <2>2. Plain(k) \in Known
    BY <2>1 DEF Known
  <2> QED BY <2>1, <2>2, <1>1, <1>8, <1>9 DEF Agreement
<1>12. Agreement'
  BY <1>7, <1>10, <1>11 DEF Agreement
<1> QED BY <1>3, <1>4, <1>6, <1>8, <1>12 DEF x

\* What a step that appends one true statement makes of the statements.
LEMMA TrueStatementAdded ==
    ASSUME IInv, NEW r, statements' = Append(statements, r),
           Known \subseteq Known', \A n \in Known : val'[n] = val[n],
           \A i \in DOMAIN r.parts : Closed(r.parts[i], Known),
           r.kind = "assign" => r.dst \in Known' /\ val'[r.dst] = Denotes(r, val)[1],
           r.kind \in {"assign", "load", "store"} => r.seen = Denotes(r, val)
    PROVE  StatementsAreSequence' /\ StatementsAreClosed' /\ AllSatisfied'
<1>1. /\ IsSequence(statements')
      /\ \A k \in DOMAIN statements' : \/ k \in DOMAIN statements /\ statements'[k] = statements[k]
                                       \/ statements'[k] = r
  BY Appended DEF IInv, StatementsAreSequence
<1>2. StatementsAreSequence'
  BY <1>1 DEF StatementsAreSequence
<1>3. \A e : Closed(e, Known) => Closed(e, Known')
  BY DEF Closed
<1>4. ASSUME NEW k \in DOMAIN statements'
      PROVE  /\ \A i \in DOMAIN statements'[k].parts : Closed(statements'[k].parts[i], Known')
             /\ statements'[k].kind = "assign" => statements'[k].dst \in Known'
             /\ statements'[k].kind \in {"assign", "load", "store"}
                   => statements'[k].seen = Denotes(statements'[k], val')
             /\ statements'[k].kind = "assign"
                   => val'[statements'[k].dst] = Denotes(statements'[k], val')[1]
  <2>1. CASE k \in DOMAIN statements /\ statements'[k] = statements[k]
    <3> DEFINE q == statements[k]
    <3>1. /\ \A i \in DOMAIN q.parts : Closed(q.parts[i], Known)
          /\ q.kind = "assign" => q.dst \in Known
          /\ q.kind \in {"assign", "load", "store"} => q.seen = Denotes(q, val)
          /\ q.kind = "assign" => val[q.dst] = Denotes(q, val)[1]
      BY <2>1 DEF IInv, StatementsAreClosed, AllSatisfied, Satisfied
    <3> HIDE DEF q
    <3>2. Denotes(q, val') = Denotes(q, val)
      BY <3>1, SatisfiedOfMore
    <3>3. statements'[k] = q
      BY <2>1 DEF q
    <3> QED BY <1>3, <3>1, <3>2, <3>3
  <2>2. CASE statements'[k] = r
    <3>1. Denotes(r, val') = Denotes(r, val)
      BY SatisfiedOfMore
    <3> QED BY <1>3, <2>2, <3>1
  <2> QED BY <1>1, <2>1, <2>2
<1>5. StatementsAreClosed'
  BY <1>4 DEF StatementsAreClosed
<1>6. AllSatisfied'
  BY <1>4 DEF AllSatisfied, Satisfied
<1> QED BY <1>2, <1>5, <1>6

\* The statements that the converter is given.
LEMMA StatementForms ==
    ASSUME NEW s \in Statements
    PROVE  /\ Defines(s) => s.dst \in Registers /\ s.parts = <<s.parts[1]>>
           /\ s.kind = "store" => s.parts = <<s.parts[1], s.parts[2]>>
           /\ s.kind \in {"unsupported", "nop"} => s \in {Unsupported, Nop} /\ s.parts = <<>>
           /\ \A i \in DOMAIN s.parts : Lifted(s.parts[i]) /\ Proper(s.parts[i])
<1>1. /\ Unsupported.kind = "unsupported" /\ Unsupported.parts = <<>>
      /\ Nop.kind = "nop" /\ Nop.parts = <<>>
  BY DEF Unsupported, Nop
<1>2. /\ \/ Defines(s) /\ s.dst \in Registers /\ s.parts = <<s.parts[1]>>
         \/ s.kind = "store" /\ s.parts = <<s.parts[1], s.parts[2]>>
         \/ s \in {Unsupported, Nop}
      /\ \A i \in DOMAIN s.parts : Lifted(s.parts[i]) /\ Proper(s.parts[i])
  BY ConstantsAssumption
<1> QED
  BY <1>1, <1>2 DEF Defines

\* A statement that defines a name keeps the invariant.
LEMMA DefineKeeps ==
    ASSUME IInv, NEW s \in Statements, NEW v, Define(s, v), Converting, Defines(s),
           s.kind = "assign" => v = Denotes(s, env)[1]
    PROVE  IInv'
<1> DEFINE r == [kind |-> s.kind, dst |-> Fresh(s.dst), bits |-> s.bits,
                 parts |-> Renamed(s), seen |-> Denotes(s, env)]
<1>1. s.dst \in Registers /\ \A i \in DOMAIN s.parts : Lifted(s.parts[i])
  BY StatementForms
<1>2. /\ LatestOK' /\ Agreement'
      /\ Known' = Known \cup {Fresh(s.dst)}
      /\ \A n \in Known : val'[n] = val[n]
      /\ val'[Fresh(s.dst)] = v
  BY <1>1, DefineNames
<1>3. /\ r.kind = s.kind /\ r.bits = s.bits /\ r.parts = Renamed(s)
      /\ r.dst = Fresh(s.dst) /\ r.seen = Denotes(s, env)
      /\ statements' = Append(statements, r)
  BY DEF Define
<1> HIDE DEF r
<1>4. /\ Denotes(r, val) = Denotes(s, env)
      /\ \A i \in DOMAIN r.parts : Closed(r.parts[i], Known)
  BY <1>1, <1>3, RenamedDenotes DEF IInv
<1>5. StatementsAreSequence' /\ StatementsAreClosed' /\ AllSatisfied'
  BY <1>2, <1>3, <1>4, TrueStatementAdded
<1>6. ConditionIsTrue'
  BY DEF Define, ConditionIsTrue, Converting
<1> QED BY <1>2, <1>5, <1>6 DEF IInv

\* A store keeps it.
LEMMA StoreKeeps ==
    ASSUME IInv, NEW s \in Statements, RenameStore(s), Converting
    PROVE  IInv'
<1> DEFINE r == [kind |-> "store", bits |-> s.bits, parts |-> Renamed(s), seen |-> Denotes(s, env)]
<1>1. \A i \in DOMAIN s.parts : Lifted(s.parts[i])
  BY ConstantsAssumption
<1>2. /\ r.kind = s.kind /\ r.bits = s.bits /\ r.parts = Renamed(s) /\ r.seen = Denotes(s, env)
      /\ r.kind = "store" /\ statements' = Append(statements, r)
  BY DEF RenameStore
<1> HIDE DEF r
<1>3. /\ Denotes(r, val) = Denotes(s, env)
      /\ \A i \in DOMAIN r.parts : Closed(r.parts[i], Known)
  BY <1>1, <1>2, RenamedDenotes DEF IInv
<1>4. latest' = latest /\ env' = env /\ val' = val /\ condition' = condition /\ taken' = taken
  BY DEF RenameStore, machine
<1>5. Known' = Known
  BY <1>4 DEF Known
<1>6. StatementsAreSequence' /\ StatementsAreClosed' /\ AllSatisfied'
  BY <1>2, <1>3, <1>4, <1>5, TrueStatementAdded
<1>7. LatestOK' /\ Agreement' /\ ConditionIsTrue'
  BY <1>4, <1>5 DEF IInv, LatestOK, Agreement, Named, ConditionIsTrue, Converting
<1> QED BY <1>6, <1>7 DEF IInv

\* A statement that is kept as it is keeps it.
LEMMA KeepKeeps ==
    ASSUME IInv, NEW s \in Statements, Keep(s), Converting
    PROVE  IInv'
<1>1. /\ latest' = latest /\ env' = env /\ val' = val /\ condition' = condition /\ taken' = taken
      /\ statements' = Append(statements, s) /\ s.kind \in {"unsupported", "nop"}
  BY DEF Keep, machine
<1>2. Known' = Known
  BY <1>1 DEF Known
<1>3. \A i \in DOMAIN s.parts : Closed(s.parts[i], Known)
  <2>1. s.parts = <<>>
    BY StatementForms, <1>1
  <2> QED BY <2>1
<1>4. StatementsAreSequence' /\ StatementsAreClosed' /\ AllSatisfied'
  BY <1>1, <1>2, <1>3, TrueStatementAdded
<1>5. LatestOK' /\ Agreement' /\ ConditionIsTrue'
  BY <1>1, <1>2 DEF IInv, LatestOK, Agreement, Named, ConditionIsTrue, Converting
<1> QED BY <1>4, <1>5 DEF IInv

\* The condition keeps it.
LEMMA ConditionKeeps ==
    ASSUME IInv, NEW c \in Conditions, RenameCondition(c)
    PROVE  IInv'
<1>1. /\ latest' = latest /\ env' = env /\ val' = val /\ statements' = statements
      /\ condition' = Rename(c) /\ taken' = Holds(c, env)
  BY DEF RenameCondition
<1>2. Known' = Known
  BY <1>1 DEF Known
<1>3. Ground(Rename(c), val) = Ground(c, env)
  BY ConstantsAssumption, RenameGround DEF IInv
<1>4. Holds(condition', val') = Holds(c, env)
  BY <1>1, <1>3 DEF Holds, Denote
<1>5. ConditionIsTrue'
  BY <1>1, <1>4 DEF ConditionIsTrue, Converting
<1>6. StatementsAreSequence' /\ StatementsAreClosed' /\ AllSatisfied'
  BY <1>1, <1>2 DEF IInv, StatementsAreSequence, StatementsAreClosed, AllSatisfied, Satisfied
<1>7. LatestOK' /\ Agreement'
  BY <1>1, <1>2 DEF IInv, LatestOK, Agreement, Named
<1> QED BY <1>5, <1>6, <1>7 DEF IInv

\* It holds before the first statement.
LEMMA InitIInv == Init => IInv
<1> SUFFICES ASSUME Init PROVE IInv
  OBVIOUS
<1>1. /\ latest = [x \in Registers |-> None] /\ statements = <<>> /\ condition = <<>>
      /\ env \in [PlainNames -> Nat] /\ val = env
  BY ConstantsAssumption DEF Init
<1>2. LatestOK
  BY <1>1 DEF LatestOK
<1>3. Known = PlainNames
  BY <1>1 DEF Known, Versions, None
<1>4. Agreement
  BY <1>1, <1>3 DEF Agreement, Named, Plain
<1>5. IsSequence(statements) /\ DOMAIN statements = {}
  BY <1>1, Empty
<1>6. StatementsAreSequence
  BY <1>5 DEF StatementsAreSequence
<1>7. StatementsAreClosed /\ AllSatisfied /\ ConditionIsTrue
  BY <1>1, <1>5 DEF StatementsAreClosed, AllSatisfied, ConditionIsTrue, Converting
<1> QED BY <1>2, <1>4, <1>6, <1>7 DEF IInv

\* Every step keeps it.
LEMMA NextIInv == IInv /\ [Next]_vars => IInv'
<1> SUFFICES ASSUME IInv, [Next]_vars PROVE IInv'
  OBVIOUS
<1>1. ASSUME NEW s \in Statements, Converting, RenameAssign(s) PROVE IInv'
  BY <1>1, DefineKeeps DEF RenameAssign, Defines
<1>2. ASSUME NEW s \in Statements, NEW v, Converting, RenameLoad(s, v) PROVE IInv'
  <2>1. Define(s, v) /\ Defines(s) /\ s.kind # "assign"
    BY <1>2 DEF RenameLoad, Defines
  <2> QED BY <1>2, <2>1, DefineKeeps
<1>3. ASSUME NEW s \in Statements, Converting, RenameStore(s) PROVE IInv'
  BY <1>3, StoreKeeps
<1>4. ASSUME NEW s \in Statements, Converting, Keep(s) PROVE IInv'
  BY <1>4, KeepKeeps
<1>5. ASSUME NEW c \in Conditions, RenameCondition(c) PROVE IInv'
  BY <1>5, ConditionKeeps
<1>6. CASE UNCHANGED vars
  <2>1. /\ latest' = latest /\ env' = env /\ val' = val /\ statements' = statements
        /\ condition' = condition /\ taken' = taken
    BY <1>6 DEF vars, slice, machine
  <2>2. Known' = Known
    BY <2>1 DEF Known
  <2> QED BY <2>1, <2>2 DEF IInv, LatestOK, StatementsAreSequence, Agreement, Named,
                           StatementsAreClosed, AllSatisfied, Satisfied, ConditionIsTrue, Converting
<1> QED BY <1>1, <1>2, <1>3, <1>4, <1>5, <1>6 DEF Next

\* Whatever is converted, and whatever the loads bring, the slice in SSA form
\* is true of the machine that ran the lifted one (ssa_convert).
THEOREM ConversionIsTrue == Spec => []SliceIsTrue
<1>1. IInv => SliceIsTrue
  BY DEF IInv, AllSatisfied, ConditionIsTrue, SliceIsTrue
<1> QED BY InitIInv, NextIInv, <1>1, PTL DEF Spec

----------------------------------------------------------------------------
(* The slice is in SSA form from its first statement on, and the machine has *)
(* a memory that its loads and stores agree with.                            *)

\* The memories depend on the values of the names defined alone.
LEMMA ReplayedOfMore ==
    ASSUME NEW ss, Ssa(ss), NEW v, NEW w, \A n \in Dsts(ss) : v[n] = w[n],
           NEW m, Replayed(ss, v, m)
    PROVE  Replayed(ss, w, m)
<1>1. PICK held : Memories(ss, v, m, held)
  BY DEF Replayed
<1>2. DOMAIN ss = 1..Len(ss)
  BY Lengths DEF Ssa
<1>3. \A k \in 1..Len(ss) : ss[k].kind = "load" => w[ss[k].dst] = v[ss[k].dst]
  BY <1>2 DEF Dsts, Defines
<1>4. Memories(ss, w, m, held)
  BY <1>1, <1>3 DEF Memories
<1> QED
  BY <1>4 DEF Replayed

\* The names that the converter has given out.
Issued == Known \cap Versions

\* A renamed expression is a tree that reads names given out.
LEMMA RenamedReads ==
    ASSUME NEW e, Lifted(e), Proper(e), LatestOK
    PROVE  Yields(Rename(e), 1) /\ Reads(Rename(e)) \subseteq Free \cup Issued
<1>1. Yields(e, 1)
  BY ProperYields
<1>2. PICK n \in Nat : n = Len(e) /\ DOMAIN e = 1..n
  BY <1>1, Lengths DEF Yields
<1> DEFINE r == Rename(e)
<1>3. /\ IsSequence(r) /\ Len(r) = n /\ DOMAIN r = 1..n
      /\ \A i \in 1..n : r[i] = IF IsVar(e[i]) THEN Variable(Named(e[i].name[1]), e[i].bits)
           ELSE e[i]
  <2>1. r = [i \in 1..n |-> IF IsVar(e[i]) THEN Variable(Named(e[i].name[1]), e[i].bits) ELSE e[i]]
    BY <1>2 DEF Rename
  <2>2. r = [i \in 1..n |-> r[i]]
    BY <2>1
  <2> HIDE DEF r
  <2> QED
    BY <2>1, <2>2, Mapped
<1> HIDE DEF r
<1>4. \A x, b : /\ Variable(x, b).op = "var" /\ Variable(x, b).name = x
                /\ Arity(Variable(x, b)) = 0 /\ IsVar(Variable(x, b))
  BY DEF Variable, Arity, Leaves, IsVar
<1>5. \A i \in 1..n : IsVar(e[i]) => Arity(e[i]) = 0
  BY DEF IsVar, Arity, Leaves
<1>6. Yields(r, 1)
  <2>1. \A i \in 1..n : Arity(r[i]) = Arity(e[i])
    BY <1>3, <1>4, <1>5
  <2> QED
    BY <1>1, <1>2, <1>3, <2>1, Relabelled
<1>7. ASSUME NEW x \in Registers PROVE Named(x) \in Free \cup Issued
  <2>1. latest[x] \in Nat \cup {None}
    BY DEF LatestOK
  <2>2. CASE latest[x] = None
    BY <2>2 DEF Free, Named, Plain
  <2>3. CASE latest[x] \in Nat
    <3>1. Named(x) \in Versions /\ Named(x)[2] = latest[Named(x)[1]]
      BY <2>3 DEF Named, Versions
    <3> QED
      BY <2>3, <3>1 DEF Issued, Known, Named
  <2> QED
    BY <2>1, <2>2, <2>3
<1>8. \A i \in 1..n : IsVar(r[i]) => r[i].name \in Free \cup Issued
  <2> SUFFICES ASSUME NEW i \in 1..n, IsVar(r[i]) PROVE r[i].name \in Free \cup Issued
    OBVIOUS
  <2>1. IsVar(e[i])
    BY <1>3
  <2>2. PICK x \in Registers : e[i] = Variable(Plain(x), e[i].bits)
    BY <1>2, <2>1 DEF Lifted
  <2>3. e[i].name[1] = x
    BY <1>4, <2>2 DEF Plain
  <2>4. r[i].name = Named(x)
    BY <1>3, <1>4, <2>1, <2>3
  <2> QED
    BY <1>7, <2>4
<1>9. Reads(r) \subseteq Free \cup Issued
  BY <1>3, <1>8, ReadsOf
<1> QED
  BY <1>6, <1>9 DEF r

\* What the converter makes of a statement has the shape of one.
LEMMA RenamedShape ==
    ASSUME NEW s \in Statements, NEW n \in 1..2, DOMAIN s.parts = 1..n, LatestOK,
           NEW r, r.kind = s.kind, r.parts = Renamed(s)
    PROVE  /\ Parts(r) = 1..n /\ IsSequence(r.parts)
           /\ \A i \in Parts(r) : Yields(r.parts[i], 1)
           /\ StatementReads(r) \subseteq Free \cup Issued
<1> DEFINE q == Renamed(s)
<1>1. q = [i \in 1..n |-> Rename(s.parts[i])]
  BY DEF Renamed
<1>2. \A i \in 1..n : q[i] = Rename(s.parts[i])
  BY <1>1
<1>3. IsSequence(q) /\ DOMAIN q = 1..n
  <2>1. n \in Nat /\ q = [i \in 1..n |-> q[i]]
    BY <1>1
  <2> HIDE DEF q
  <2> QED
    BY <2>1, Mapped
<1>4. \A i \in 1..n : Yields(q[i], 1) /\ Reads(q[i]) \subseteq Free \cup Issued
  <2> HIDE DEF q
  <2> QED
    BY <1>2, StatementForms, RenamedReads
<1> HIDE DEF q
<1>5. r.parts = q
  BY DEF q
<1>6. Parts(r) = 1..n
  BY <1>3, <1>5 DEF Parts
<1>7. \A i \in Parts(r) : Reads(r.parts[i]) \subseteq Free \cup Issued
  BY <1>4, <1>5, <1>6
<1>8. StatementReads(r) \subseteq Free \cup Issued
  BY <1>7, ReadsOfParts
<1> QED
  BY <1>3, <1>4, <1>5, <1>6, <1>8

\* While statements are converted.
ConversionInv ==
    /\ IInv
    /\ Ssa(statements) /\ Dsts(statements) = Issued
    /\ Replayed(statements, val, memory)

\* A statement that defines a name keeps the slice in SSA form, and true of
\* the memory.
LEMMA DefineConverts ==
    ASSUME ConversionInv, Converting, NEW s \in Statements, Defines(s), NEW v, Define(s, v),
           s.kind = "assign" => v = Denotes(s, env)[1],
           s.kind = "load" => v = Word(memory, Denotes(s, env)[1], s.bits),
           memory' = memory
    PROVE  ConversionInv'
<1> DEFINE r == [kind |-> s.kind, dst |-> Fresh(s.dst), bits |-> s.bits,
                 parts |-> Renamed(s), seen |-> Denotes(s, env)]
<1>1. s.dst \in Registers /\ s.parts = <<s.parts[1]>>
  BY StatementForms
<1>2. IInv /\ LatestOK
  BY DEF ConversionInv, IInv
<1>3. IInv'
  BY <1>2, DefineKeeps
<1>4. /\ Known' = Known \cup {Fresh(s.dst)}
      /\ \A n \in Known : val'[n] = val[n]
      /\ val'[Fresh(s.dst)] = v
      /\ Fresh(s.dst) \notin Known
  BY <1>1, <1>2, DefineNames
<1>5. Fresh(s.dst) \in Versions
  BY <1>1, <1>2, FreshIsNew
<1>6. Issued' = Issued \cup {Fresh(s.dst)} /\ Fresh(s.dst) \notin Issued
  BY <1>4, <1>5 DEF Issued, Versions
<1>7. /\ r.kind = s.kind /\ r.dst = Fresh(s.dst) /\ r.bits = s.bits /\ r.parts = Renamed(s)
      /\ r.seen = Denotes(s, env) /\ DOMAIN r = {"kind", "dst", "bits", "parts", "seen"}
      /\ statements' = Append(statements, r)
  BY DEF Define
<1> HIDE DEF r
<1>8. DOMAIN s.parts = 1..1
  BY <1>1
<1>9. /\ Parts(r) = 1..1 /\ IsSequence(r.parts)
      /\ \A i \in Parts(r) : Yields(r.parts[i], 1)
      /\ StatementReads(r) \subseteq Free \cup Issued
  BY <1>2, <1>7, <1>8, RenamedShape
<1>10. Shape(r) /\ Defines(r)
  <2>1. r.kind \in {"assign", "load"} /\ Parts(r) = {1}
    BY <1>7, <1>9 DEF Defines
  <2> QED
    BY <1>5, <1>7, <1>9, <2>1 DEF Shape, Defines
<1>11. Ssa(statements) /\ IsSequence(statements) /\ Dsts(statements) = Issued
  BY DEF ConversionInv, Ssa
<1>12. Ssa(statements')
  BY <1>6, <1>7, <1>9, <1>10, <1>11, SsaAppend
<1>13. Dsts(statements') = Issued'
  BY <1>6, <1>7, <1>10, <1>11, DstsAppend
<1>14. Replayed(statements, val', memory)
  <2>1. \A n \in Dsts(statements) : val[n] = val'[n]
    BY <1>4, <1>11 DEF Issued
  <2> QED
    BY <1>11, <2>1, ReplayedOfMore DEF ConversionInv
<1>15. Replayed(statements', val', After(memory, r))
  <2>1. r.kind = "load" => val'[r.dst] = Word(memory, r.seen[1], r.bits)
    BY <1>4, <1>7
  <2> QED
    BY <1>7, <1>11, <1>14, <2>1, ReplayedAppend
<1>16. After(memory, r) = memory'
  BY <1>10 DEF After, Defines
<1> QED
  BY <1>3, <1>12, <1>13, <1>15, <1>16 DEF ConversionInv

\* So does a store.
LEMMA StoreConverts ==
    ASSUME ConversionInv, Converting, NEW s \in Statements, RenameStore(s),
           memory' = Written(memory, Denotes(s, env)[1], Denotes(s, env)[2], s.bits)
    PROVE  ConversionInv'
<1> DEFINE r == [kind |-> "store", bits |-> s.bits, parts |-> Renamed(s), seen |-> Denotes(s, env)]
<1>1. s.kind = "store" /\ s.parts = <<s.parts[1], s.parts[2]>>
  BY StatementForms DEF RenameStore
<1>2. IInv /\ LatestOK
  BY DEF ConversionInv, IInv
<1>3. IInv'
  BY <1>2, StoreKeeps
<1>4. latest' = latest /\ val' = val
  BY DEF RenameStore, machine
<1>5. Issued' = Issued
  BY <1>4 DEF Issued, Known
<1>6. /\ r.kind = "store" /\ r.bits = s.bits /\ r.parts = Renamed(s)
      /\ r.seen = Denotes(s, env) /\ DOMAIN r = {"kind", "bits", "parts", "seen"}
      /\ statements' = Append(statements, r)
  BY DEF RenameStore
<1> HIDE DEF r
<1>7. DOMAIN s.parts = 1..2
  BY <1>1
<1>8. /\ Parts(r) = 1..2 /\ IsSequence(r.parts)
      /\ \A i \in Parts(r) : Yields(r.parts[i], 1)
      /\ StatementReads(r) \subseteq Free \cup Issued
  BY <1>1, <1>2, <1>6, <1>7, RenamedShape
<1>9. Shape(r) /\ ~Defines(r)
  <2>1. Parts(r) = {1, 2}
    BY <1>8
  <2> QED
    BY <1>6, <1>8, <2>1 DEF Shape, Defines
<1>10. Ssa(statements) /\ IsSequence(statements) /\ Dsts(statements) = Issued
  BY DEF ConversionInv, Ssa
<1>11. Ssa(statements')
  BY <1>6, <1>8, <1>9, <1>10, SsaAppend
<1>12. Dsts(statements') = Issued'
  BY <1>5, <1>6, <1>9, <1>10, DstsAppend
<1>13. Replayed(statements', val', After(memory, r))
  BY <1>4, <1>6, <1>10, ReplayedAppend DEF ConversionInv
<1>14. After(memory, r) = memory'
  BY <1>6 DEF After
<1> QED
  BY <1>3, <1>11, <1>12, <1>13, <1>14 DEF ConversionInv

\* So does a statement that is kept as it is.
LEMMA KeepConverts ==
    ASSUME ConversionInv, Converting, NEW s \in Statements, Keep(s), memory' = memory
    PROVE  ConversionInv'
<1>1. IInv'
  BY KeepKeeps DEF ConversionInv
<1>2. latest' = latest /\ val' = val /\ statements' = Append(statements, s)
  BY DEF Keep, machine
<1>3. Issued' = Issued
  BY <1>2 DEF Issued, Known
<1>4. s \in {Unsupported, Nop} /\ s.kind \in {"unsupported", "nop"} /\ s.parts = <<>>
  BY StatementForms DEF Keep
<1>5. Shape(s) /\ ~Defines(s) /\ StatementReads(s) = {}
  <2>1. {"kind", "parts"} \subseteq DOMAIN s
    BY <1>4 DEF Unsupported, Nop
  <2>2. Parts(s) = {} /\ IsSequence(s.parts)
    BY <1>4, Empty DEF Parts
  <2>3. ~Defines(s) /\ s.kind # "store"
    BY <1>4 DEF Defines
  <2>4. Shape(s)
    BY <1>4, <2>1, <2>2, <2>3 DEF Shape
  <2>5. StatementReads(s) = {}
    BY <2>2 DEF StatementReads, Parts
  <2> QED
    BY <2>3, <2>4, <2>5
<1>6. Ssa(statements) /\ IsSequence(statements) /\ Dsts(statements) = Issued
  BY DEF ConversionInv, Ssa
<1>7. Ssa(statements')
  BY <1>2, <1>5, <1>6, SsaAppend
<1>8. Dsts(statements') = Issued'
  BY <1>2, <1>3, <1>5, <1>6, DstsAppend
<1>9. Replayed(statements', val', After(memory, s)) /\ After(memory, s) = memory'
  <2>1. s.kind # "load" /\ s.kind # "store"
    BY <1>4
  <2> QED
    BY <1>2, <1>6, <2>1, ReplayedAppend DEF ConversionInv, After
<1> QED
  BY <1>1, <1>7, <1>8, <1>9 DEF ConversionInv

\* What holds of the slice at every stage.
SliceInv ==
    /\ Ssa(statements)
    /\ stage \in {"converting", "optimising", "settled", "done"}
    /\ stage = "converting" => ConversionInv
    /\ \E m : Replayed(statements, val, m)
    /\ stage = "done" => NamesSettled

\* The slice is in SSA form before the first statement.
LEMMA InitSlice == RunInit => SliceInv
<1> SUFFICES ASSUME RunInit PROVE SliceInv
  OBVIOUS
<1>1. /\ Init /\ statements = <<>> /\ latest = [x \in Registers |-> None]
      /\ stage = "converting" /\ memory = Memory
  BY DEF RunInit, Init
<1>2. IsSequence(statements) /\ Len(statements) = 0 /\ DOMAIN statements = {}
  BY <1>1, Empty
<1>3. Ssa(statements) /\ Dsts(statements) = {}
  BY <1>2 DEF Ssa, Dsts
<1>4. Issued = {}
  <2>1. PlainNames \cap Versions = {}
    BY DEF PlainNames, Versions, Plain, None
  <2>2. \A n \in Versions : n[1] \in Registers /\ n[2] \in Nat
    BY DEF Versions
  <2>3. \A n \in Versions : ~(n[2] <= latest[n[1]])
    BY <1>1, <2>2 DEF None
  <2> QED
    BY <2>1, <2>3 DEF Issued, Known
<1>5. Replayed(statements, val, memory)
  <2> DEFINE held == [k \in {1} |-> Memory]
  <2>1. Memories(statements, val, memory, held)
    BY <1>1, <1>2 DEF Memories
  <2> HIDE DEF held
  <2> QED
    BY <2>1 DEF Replayed
<1>6. IInv
  BY <1>1, InitIInv
<1> QED
  BY <1>1, <1>3, <1>4, <1>5, <1>6 DEF SliceInv, ConversionInv

\* A statement converted keeps it so.
LEMMA ConvertKeepsSlice ==
    ASSUME SliceInv, NEW s \in Statements, Convert(s)
    PROVE  SliceInv'
<1>1. /\ stage = "converting" /\ Converting /\ ConversionInv
      /\ stage' = stage
  BY DEF Convert, SliceInv, optimiser
<1>2. CASE RenameAssign(s) /\ memory' = memory
  <2>1. Define(s, Denotes(s, env)[1]) /\ s.kind = "assign" /\ Defines(s)
    BY <1>2 DEF RenameAssign, Defines
  <2> QED
    BY <1>1, <1>2, <2>1, DefineConverts DEF SliceInv, ConversionInv
<1>3. CASE Keep(s) /\ memory' = memory
  BY <1>1, <1>3, KeepConverts DEF SliceInv, ConversionInv
<1>4. CASE RenameLoad(s, Word(memory, Denotes(s, env)[1], s.bits)) /\ memory' = memory
  <2>1. Define(s, Word(memory, Denotes(s, env)[1], s.bits)) /\ s.kind = "load" /\ Defines(s)
    BY <1>4 DEF RenameLoad, Defines
  <2> QED
    BY <1>1, <1>4, <2>1, DefineConverts DEF SliceInv, ConversionInv
<1>5. CASE /\ RenameStore(s)
           /\ memory' = Written(memory, Denotes(s, env)[1], Denotes(s, env)[2], s.bits)
  BY <1>1, <1>5, StoreConverts DEF SliceInv, ConversionInv
<1> QED
  BY <1>2, <1>3, <1>4, <1>5 DEF Convert

\* Every step keeps it so.
LEMMA NextSlice == SliceInv /\ [RunNext]_runVars => SliceInv'
<1> SUFFICES ASSUME SliceInv, [RunNext]_runVars PROVE SliceInv'
  OBVIOUS
<1>1. ASSUME NEW s \in Statements, Convert(s) PROVE SliceInv'
  BY <1>1, ConvertKeepsSlice
<1>2. ASSUME NEW c \in Conditions, Conclude(c) PROVE SliceInv'
  <2>1. statements' = statements /\ val' = val /\ stage' = "optimising"
    BY <1>2 DEF Conclude, RenameCondition
  <2> QED
    BY <2>1 DEF SliceInv
<1>3. CASE Pass
  <2>1. PICK m : Replayed(statements, val, m)
    BY DEF SliceInv
  <2>2. Ssa(statements)' /\ Replayed(statements', val', m)
    BY <1>3, <2>1, PassKeeps DEF SliceInv
  <2>3. stage' \in {"settled", "optimising"}
    BY <1>3 DEF Pass
  <2> QED
    BY <2>2, <2>3 DEF SliceInv
<1>4. CASE Recompute
  <2>1. NamesSettled' /\ Ssa(statements)'
    BY <1>4, RecomputeSettles DEF SliceInv
  <2>2. statements' = statements /\ val' = val /\ stage' = "done"
    BY <1>4 DEF Recompute, machine
  <2> QED
    BY <2>1, <2>2 DEF SliceInv
<1>5. CASE EncodeSlice \/ UNCHANGED runVars
  <2>1. UNCHANGED <<vars, optimiser, memory>>
    BY <1>5 DEF EncodeSlice, runVars
  <2>2. /\ latest' = latest /\ statements' = statements /\ condition' = condition /\
             inputs' = inputs
        /\ defs' = defs /\ env' = env /\ val' = val /\ taken' = taken
        /\ stage' = stage /\ memory' = memory
    BY <2>1 DEF vars, slice, machine, optimiser
  <2>3. Known' = Known /\ Issued' = Issued
    BY <2>2 DEF Known, Issued
  <2>4. IInv' <=> IInv
    BY <2>2, <2>3 DEF IInv, LatestOK, StatementsAreSequence, Agreement, Named,
                      StatementsAreClosed, AllSatisfied, Satisfied, ConditionIsTrue, Converting
  <2>5. NamesSettled' <=> NamesSettled
    BY <2>2 DEF NamesSettled
  <2> QED
    BY <2>2, <2>3, <2>4, <2>5 DEF SliceInv, ConversionInv
<1> QED
  BY <1>1, <1>2, <1>3, <1>4, <1>5 DEF RunNext

----------------------------------------------------------------------------
(* The taint pass, and another run beside the machine's.                     *)

\* Propagate, statement by statement.
FlowSteps(sources, f) ==
    /\ f[0] = [taint |-> Seeds(sources), memory |-> {}, opaque |-> FALSE]
    /\ f[Len(statements)] = Propagate(sources)
    /\ \A i \in 1..Len(statements) : f[i] = PropagateStatement(f[i - 1], statements[i])

\* Taint flows statement by statement.
LEMMA FlowStepByStep ==
    ASSUME NEW sources, Len(statements) \in Nat
    PROVE  \E f : FlowSteps(sources, f)
<1> DEFINE base == [taint |-> Seeds(sources), memory |-> {}, opaque |-> FALSE]
           More(q, i) == PropagateStatement(q, statements[i])
           Rec(f, m) == f = [i \in 0..m |-> IF i = 0 THEN base ELSE More(f[i - 1], i)]
           S == {m \in Nat : \E f : Rec(f, m)}
           upTo == CHOOSE f : Rec(f, Len(statements))
<1>1. Propagate(sources) = upTo[Len(statements)]
  BY DEF Propagate
<1> HIDE DEF More, base
<1>2. 0 \in S
  <2> DEFINE g == [i \in 0..0 |-> base]
  <2>1. Rec(g, 0)
    OBVIOUS
  <2> HIDE DEF g
  <2> QED
    BY <2>1
<1>3. ASSUME NEW m \in Nat, m \in S PROVE m + 1 \in S
  <2>1. PICK f : Rec(f, m)
    BY <1>3
  <2> DEFINE g == [i \in 0..(m + 1) |-> IF i <= m THEN f[i] ELSE More(f[m], m + 1)]
  <2>2. Rec(g, m + 1)
    <3>1. ASSUME NEW i \in 0..(m + 1)
          PROVE  g[i] = IF i = 0 THEN base ELSE More(g[i - 1], i)
      <4>1. CASE i = m + 1
        BY <4>1
      <4>2. CASE i # m + 1
        <5>1. i \in 0..m /\ (i # 0 => i - 1 \in 0..m)
          BY <4>2
        <5> QED
          BY <2>1, <5>1
      <4> QED
        BY <4>1, <4>2
    <3> QED
      BY <3>1
  <2> HIDE DEF g
  <2> QED
    BY <2>2
<1>4. Rec(upTo, Len(statements))
  <2> HIDE DEF Rec
  <2>1. Len(statements) \in S
    <3> HIDE DEF S
    <3> QED
      BY <1>2, <1>3, Induction
  <2> QED
    BY <2>1
<1> HIDE DEF upTo
<1>5. /\ upTo[0] = base
      /\ \A i \in 1..Len(statements) : upTo[i] = More(upTo[i - 1], i)
  BY <1>4
<1> QED
  BY <1>1, <1>5 DEF More, base, FlowSteps

\* Rerun, statement by statement.
RunSteps(start, f) ==
    /\ f[0] = [val |-> start, mem |-> Memory]
    /\ f[Len(statements)].val = Rerun(start)
    /\ \A i \in 1..Len(statements) : f[i] = RerunStatement(f[i - 1], statements[i])

\* The other run goes on statement by statement.
LEMMA RunStepByStep ==
    ASSUME NEW start, Len(statements) \in Nat
    PROVE  \E f : RunSteps(start, f)
<1> DEFINE base == [val |-> start, mem |-> Memory]
           More(q, i) == RerunStatement(q, statements[i])
           Rec(f, m) == f = [i \in 0..m |-> IF i = 0 THEN base ELSE More(f[i - 1], i)]
           S == {m \in Nat : \E f : Rec(f, m)}
           upTo == CHOOSE f : Rec(f, Len(statements))
<1>1. Rerun(start) = upTo[Len(statements)].val
  BY DEF Rerun
<1> HIDE DEF More, base
<1>2. 0 \in S
  <2> DEFINE g == [i \in 0..0 |-> base]
  <2>1. Rec(g, 0)
    OBVIOUS
  <2> HIDE DEF g
  <2> QED
    BY <2>1
<1>3. ASSUME NEW m \in Nat, m \in S PROVE m + 1 \in S
  <2>1. PICK f : Rec(f, m)
    BY <1>3
  <2> DEFINE g == [i \in 0..(m + 1) |-> IF i <= m THEN f[i] ELSE More(f[m], m + 1)]
  <2>2. Rec(g, m + 1)
    <3>1. ASSUME NEW i \in 0..(m + 1)
          PROVE  g[i] = IF i = 0 THEN base ELSE More(g[i - 1], i)
      <4>1. CASE i = m + 1
        BY <4>1
      <4>2. CASE i # m + 1
        <5>1. i \in 0..m /\ (i # 0 => i - 1 \in 0..m)
          BY <4>2
        <5> QED
          BY <2>1, <5>1
      <4> QED
        BY <4>1, <4>2
    <3> QED
      BY <3>1
  <2> HIDE DEF g
  <2> QED
    BY <2>2
<1>4. Rec(upTo, Len(statements))
  <2> HIDE DEF Rec
  <2>1. Len(statements) \in S
    <3> HIDE DEF S
    <3> QED
      BY <1>2, <1>3, Induction
  <2> QED
    BY <2>1
<1> HIDE DEF upTo
<1>5. /\ upTo[0] = base
      /\ \A i \in 1..Len(statements) : upTo[i] = More(upTo[i - 1], i)
  BY <1>4
<1> QED
  BY <1>1, <1>5 DEF More, base, RunSteps

\* What is tainted stays so, and so with what is opaque.
LEMMA TaintGrows ==
    ASSUME NEW p, NEW s, NEW q, q = PropagateStatement(p, s)
    PROVE  /\ \A n : TaintOf(p.taint, n) \subseteq TaintOf(q.taint, n)
           /\ p.opaque => q.opaque
<1> DEFINE flow == UNION {TaintOfExpr(p.taint, e) : e \in Visited(s)}
<1>1. \A n, more : \A m : TaintOf(p.taint, m) \subseteq TaintOf(Joined(p.taint, n, more), m)
  BY DEF TaintOf, Joined
<1>2. /\ q.taint = CASE s.kind = "assign" -> Joined(p.taint, s.dst, flow)
                     [] s.kind = "load" -> Joined(p.taint, s.dst, flow \cup p.memory)
                     [] OTHER -> p.taint
      /\ p.opaque => q.opaque
  BY DEF PropagateStatement
<1> HIDE DEF flow
<1> QED
  BY <1>1, <1>2

\* Taint is only added.
LEMMA FlowGrows ==
    ASSUME NEW sources, Len(statements) \in Nat, NEW f, FlowSteps(sources, f),
           NEW i \in 0..Len(statements)
    PROVE  /\ \A n : TaintOf(f[i].taint, n) \subseteq TaintOf(Propagate(sources).taint, n)
           /\ f[i].opaque => Propagate(sources).opaque
<1>1. PICK m \in Nat : m = Len(statements)
  OBVIOUS
<1> DEFINE Below(p, q) == /\ \A n : TaintOf(p.taint, n) \subseteq TaintOf(q.taint, n)
                          /\ p.opaque => q.opaque
           T == {j \in Nat : i + j <= m => Below(f[i], f[i + j])}
<1>2. 0 \in T
  <2>1. i + 0 = i
    BY <1>1
  <2> QED
    BY <2>1
<1>3. ASSUME NEW j \in Nat, j \in T PROVE j + 1 \in T
  <2>1. SUFFICES ASSUME i + (j + 1) <= m PROVE Below(f[i], f[i + (j + 1)])
    BY <1>3
  <2>2. /\ i + j <= m /\ i + (j + 1) \in 1..m /\ i + (j + 1) - 1 = i + j
    BY <1>1, <2>1
  <2>3. Below(f[i], f[i + j])
    BY <1>3, <2>2
  <2>4. f[i + (j + 1)] = PropagateStatement(f[i + j], statements[i + (j + 1)])
    BY <1>1, <2>2 DEF FlowSteps
  <2>5. Below(f[i + j], f[i + (j + 1)])
    BY <2>4, TaintGrows
  <2> QED
    BY <2>3, <2>5
<1>4. m - i \in T
  <2>1. m - i \in Nat
    BY <1>1
  <2> HIDE DEF T
  <2> QED
    BY <1>2, <1>3, <2>1, Induction
<1>5. i + (m - i) = m /\ m <= m
  BY <1>1
<1> QED
  BY <1>1, <1>4, <1>5 DEF FlowSteps

\* Without an unknown an expression says the same of two environments that
\* agree on what it reads.
LEMMA KnownExpression ==
    ASSUME NEW e, ~ContainsUnknown(e), NEW u, NEW w, \A n \in Reads(e) : u[n] = w[n]
    PROVE  \A b : DenoteAt(e, u, b) = DenoteAt(e, w, b)
<1>1. \A i \in DOMAIN e : /\ e[i].op # "unknown"
                          /\ IsVar(e[i]) => u[e[i].name] = w[e[i].name]
  BY DEF ContainsUnknown, Reads
<1>2. Ground(e, u) = Ground(e, w)
  BY <1>1 DEF Ground
<1> QED
  BY <1>2 DEF DenoteAt, Denote

----------------------------------------------------------------------------
(* What the pass reports free of a source is the same in the other run.      *)

\* Of the names, those that the source does not reach have the machine's values.
SameFree(names, source, taint, u) ==
    \A n \in names : source \notin TaintOf(taint, n) => u[n] = val[n]
\* r is the other run, p what the pass knows, and mem the memory of the
\* machine at the same statement.
Alongside(names, source, p, r, mem) ==
    /\ names \subseteq DOMAIN r.val
    /\ SameFree(names, source, p.taint, r.val)
    /\ source \notin p.memory => r.mem = mem

\* The expressions of a statement that the source does not reach.
LEMMA SameSeen ==
    ASSUME NEW s, Shape(s), NEW names, StatementReads(s) \subseteq names,
           NEW taint, NEW source, NEW u, SameFree(names, source, taint, u),
           NEW i \in Parts(s), ~ContainsUnknown(s.parts[i]),
           source \notin TaintOfExpr(taint, s.parts[i])
    PROVE  Denotes(s, u)[i] = Denotes(s, val)[i]
<1>1. Reads(s.parts[i]) \subseteq names
  BY PartReads
<1>2. \A n \in Reads(s.parts[i]) : u[n] = val[n]
  BY <1>1 DEF TaintOfExpr, SameFree
<1>3. \A b : DenoteAt(s.parts[i], u, b) = DenoteAt(s.parts[i], val, b)
  BY <1>2, KnownExpression
<1> QED
  BY <1>3 DEF Denotes, Parts

\* What a statement that defines n does to the other run and to the pass.
DefinesIn(p, q, r, w, n) ==
    /\ q.memory = p.memory /\ w.mem = r.mem
    /\ \A m : m # n => TaintOf(q.taint, m) = TaintOf(p.taint, m)
    /\ DOMAIN w.val = DOMAIN r.val \cup {n}
    /\ \A m \in DOMAIN r.val : m # n => w.val[m] = r.val[m]

\* A name that gets the same value in the other run is the same in both.
LEMMA DefinedAlongside ==
    ASSUME NEW names, NEW source, NEW p, NEW r, NEW mem, Alongside(names, source, p, r, mem),
           NEW n, NEW q, NEW w, DefinesIn(p, q, r, w, n),
           source \notin TaintOf(q.taint, n) => w.val[n] = val[n]
    PROVE  Alongside(names \cup {n}, source, q, w, mem)
BY DEF Alongside, SameFree, DefinesIn

\* A statement keeps the runs alongside each other.
LEMMA StepAlongside ==
    ASSUME NEW s, Shape(s), Satisfied(s),
           NEW names, StatementReads(s) \subseteq names,
           NEW source, NEW p, NEW r, NEW mem, Alongside(names, source, p, r, mem),
           ~PropagateStatement(p, s).opaque,
           s.kind = "store" => /\ source \notin TaintOfExpr(p.taint, s.parts[1])
                               /\ ~ContainsUnknown(s.parts[1]),
           s.kind = "load" => val[s.dst] = Word(mem, s.seen[1], s.bits)
    PROVE  Alongside(names \cup (IF Defines(s) THEN {s.dst} ELSE {}), source,
                     PropagateStatement(p, s), RerunStatement(r, s), After(mem, s))
<1> DEFINE flow == UNION {TaintOfExpr(p.taint, e) : e \in Visited(s)}
           q == PropagateStatement(p, s)
           w == RerunStatement(r, s)
           at == Denotes(s, r.val)
<1>1. /\ s.kind = "assign" => q.taint = Joined(p.taint, s.dst, flow)
      /\ s.kind = "load" => q.taint = Joined(p.taint, s.dst, flow \cup p.memory)
      /\ s.kind \notin {"assign", "load"} => q.taint = p.taint
      /\ q.memory = IF s.kind = "store" THEN p.memory \cup flow ELSE p.memory
      /\ s.kind # "unsupported" /\ \A e \in Visited(s) : ~ContainsUnknown(e)
  BY DEF PropagateStatement
<1>2. /\ s.kind = "assign" =>
           /\ w.val = [n \in DOMAIN r.val \cup {s.dst} |-> IF n = s.dst THEN at[1] ELSE r.val[n]]
           /\ w.mem = r.mem
      /\ s.kind = "load" =>
           /\ w.val = [n \in DOMAIN r.val \cup {s.dst} |->
                         IF n = s.dst THEN Word(r.mem, at[1], s.bits) ELSE r.val[n]]
           /\ w.mem = r.mem
      /\ s.kind = "store" => w.val = r.val /\ w.mem = Written(r.mem, at[1], at[2], s.bits)
      /\ s.kind \notin {"assign", "load", "store"} => w = r
  BY DEF RerunStatement
<1>3. \A more : /\ more \subseteq TaintOf(Joined(p.taint, s.dst, more), s.dst)
                /\ \A m : m # s.dst => TaintOf(Joined(p.taint, s.dst, more), m)
                      = TaintOf(p.taint, m)
  BY DEF TaintOf, Joined
<1>4. ASSUME s.kind = "assign"
      PROVE  /\ DefinesIn(p, q, r, w, s.dst) /\ w.val[s.dst] = at[1]
             /\ flow \subseteq TaintOf(q.taint, s.dst)
  <2> HIDE DEF w, q, at, flow
  <2>1. /\ q.taint = Joined(p.taint, s.dst, flow) /\ q.memory = p.memory
        /\ w.val = [n \in DOMAIN r.val \cup {s.dst} |-> IF n = s.dst THEN at[1] ELSE r.val[n]]
        /\ w.mem = r.mem
    BY <1>1, <1>2, <1>4
  <2>2. /\ DOMAIN w.val = DOMAIN r.val \cup {s.dst} /\ w.val[s.dst] = at[1]
        /\ \A m \in DOMAIN r.val : m # s.dst => w.val[m] = r.val[m]
    BY <2>1
  <2>3. /\ flow \subseteq TaintOf(q.taint, s.dst)
        /\ \A m : m # s.dst => TaintOf(q.taint, m) = TaintOf(p.taint, m)
    BY <1>3, <2>1
  <2> QED
    BY <2>1, <2>2, <2>3 DEF DefinesIn
<1>5. ASSUME s.kind = "load"
      PROVE  /\ DefinesIn(p, q, r, w, s.dst) /\ w.val[s.dst] = Word(r.mem, at[1], s.bits)
             /\ (flow \cup p.memory) \subseteq TaintOf(q.taint, s.dst)
  <2> HIDE DEF w, q, at, flow
  <2>1. /\ q.taint = Joined(p.taint, s.dst, (flow \cup p.memory)) /\ q.memory = p.memory
        /\ w.val = [n \in DOMAIN r.val \cup {s.dst} |-> IF n
             = s.dst THEN Word(r.mem, at[1], s.bits) ELSE r.val[n]]
        /\ w.mem = r.mem
    BY <1>1, <1>2, <1>5
  <2>2. /\ DOMAIN w.val = DOMAIN r.val \cup {s.dst} /\ w.val[s.dst] = Word(r.mem, at[1], s.bits)
        /\ \A m \in DOMAIN r.val : m # s.dst => w.val[m] = r.val[m]
    BY <2>1
  <2>3. /\ (flow \cup p.memory) \subseteq TaintOf(q.taint, s.dst)
        /\ \A m : m # s.dst => TaintOf(q.taint, m) = TaintOf(p.taint, m)
    BY <1>3, <2>1
  <2> QED
    BY <2>1, <2>2, <2>3 DEF DefinesIn
<1>6. \A i \in Parts(s) : s.parts[i] \in Visited(s) /\ source \notin flow =>
                            at[i] = Denotes(s, val)[i]
  <2> SUFFICES ASSUME NEW i \in Parts(s), s.parts[i] \in Visited(s), source \notin flow
               PROVE  at[i] = Denotes(s, val)[i]
    OBVIOUS
  <2>1. source \notin TaintOfExpr(p.taint, s.parts[i])
    OBVIOUS
  <2>2. ~ContainsUnknown(s.parts[i])
    BY <1>1
  <2>3. SameFree(names, source, p.taint, r.val)
    BY DEF Alongside
  <2> HIDE DEF flow
  <2> QED
    BY <2>1, <2>2, <2>3, SameSeen
<1>7. /\ Defines(s) => 1 \in Parts(s) /\ s.parts[1] \in Visited(s)
      /\ s.kind = "store" => 1 \in Parts(s) /\ 2 \in Parts(s) /\ s.parts[2] \in Visited(s)
  BY DEF Shape, Parts, Visited, Defines
<1> HIDE DEF flow, q, w, at
<1>8. CASE s.kind = "assign"
  <2>1. Defines(s) /\ After(mem, s) = mem /\ val[s.dst] = Denotes(s, val)[1]
    BY <1>8 DEF Defines, After, Satisfied
  <2>2. source \notin flow => at[1] = val[s.dst]
    BY <1>6, <1>7, <2>1
  <2>3. source \notin TaintOf(q.taint, s.dst) => w.val[s.dst] = val[s.dst]
    BY <1>8, <1>4, <2>1, <2>2
  <2>4. Alongside(names \cup {s.dst}, source, q, w, mem)
    BY <1>4, <1>8, <2>3, DefinedAlongside
  <2> QED
    BY <2>1, <2>4 DEF q, w
<1>9. CASE s.kind = "load"
  <2>1. Defines(s) /\ After(mem, s) = mem /\ s.seen = Denotes(s, val)
    BY <1>9 DEF Defines, After, Satisfied
  <2>2. source \notin flow \cup p.memory => Word(r.mem, at[1], s.bits) = val[s.dst]
    <3> SUFFICES ASSUME source \notin flow, source \notin p.memory
                 PROVE  Word(r.mem, at[1], s.bits) = val[s.dst]
      OBVIOUS
    <3>1. r.mem = mem
      BY DEF Alongside
    <3>2. at[1] = s.seen[1]
      BY <1>6, <1>7, <2>1
    <3> QED
      BY <1>9, <3>1, <3>2
  <2>3. source \notin TaintOf(q.taint, s.dst) => w.val[s.dst] = val[s.dst]
    BY <1>9, <1>5, <2>1, <2>2
  <2>4. Alongside(names \cup {s.dst}, source, q, w, mem)
    BY <1>9, <1>5, <2>3, DefinedAlongside
  <2> QED
    BY <2>1, <2>4 DEF q, w
<1>10. CASE s.kind = "store"
  <2>1. ~Defines(s) /\ s.seen = Denotes(s, val)
    BY <1>10 DEF Defines, Satisfied
  <2>2. After(mem, s) = Written(mem, s.seen[1], s.seen[2], s.bits)
    BY <1>10 DEF After
  <2>3. at[1] = s.seen[1]
    <3>1. SameFree(names, source, p.taint, r.val)
      BY DEF Alongside
    <3>2. 1 \in Parts(s)
      BY <1>7, <1>10
    <3>3. Denotes(s, r.val)[1] = Denotes(s, val)[1]
      BY <1>10, <3>1, <3>2, SameSeen
    <3> QED
      BY <2>1, <3>3 DEF at
  <2>4. source \notin q.memory => w.mem = After(mem, s)
    <3> SUFFICES ASSUME source \notin p.memory, source \notin flow PROVE w.mem = After(mem, s)
      BY <1>1, <1>10
    <3>1. r.mem = mem
      BY DEF Alongside
    <3>2. at[2] = s.seen[2]
      BY <1>6, <1>7, <1>10, <2>1
    <3> QED
      BY <1>2, <1>10, <2>2, <2>3, <3>1, <3>2
  <2>5. q.taint = p.taint /\ w.val = r.val
    BY <1>1, <1>2, <1>10
  <2>6. Alongside(names, source, q, w, After(mem, s))
    BY <2>4, <2>5 DEF Alongside, SameFree
  <2> QED
    BY <2>1, <2>6 DEF q, w
<1>11. CASE s.kind = "nop"
  <2>1. ~Defines(s) /\ After(mem, s) = mem /\ q.taint = p.taint /\ q.memory = p.memory /\ w = r
    BY <1>1, <1>2, <1>11 DEF Defines, After
  <2>2. Alongside(names, source, q, w, mem)
    BY <2>1 DEF Alongside, SameFree
  <2> QED
    BY <2>1, <2>2 DEF q, w
<1> QED
  BY <1>1, <1>8, <1>9, <1>10, <1>11 DEF Shape

\* The names whose values the two runs compare below statement k.
Compared(k) == (Free \cap DOMAIN inputs) \cup Before(statements, k)

\* A statement reads names that were compared, and adds the one it defines.
LEMMA ComparedReads ==
    ASSUME Ssa(statements), NamesSettled, NEW k \in DOMAIN statements
    PROVE  /\ StatementReads(statements[k]) \subseteq Compared(k)
           /\ Compared(k + 1) = Compared(k) \cup
                (IF Defines(statements[k]) THEN {statements[k].dst} ELSE {})
<1>1. Dsts(statements) \cap Free = {}
  <2>1. Versions \cap Free = {}
    BY DEF Versions, Free, Plain, None
  <2>2. Dsts(statements) \subseteq Versions
    BY DEF Dsts, Ssa, Shape
  <2> QED
    BY <2>1, <2>2
<1>2. StatementReads(statements[k]) \subseteq Compared(k)
  BY <1>1 DEF Ssa, NamesSettled, Compared
<1>3. \A i \in DOMAIN statements : i < k + 1 <=> i < k \/ i = k
  BY Lengths DEF Ssa
<1> QED
  BY <1>2, <1>3 DEF Compared, Before

\* What the pass reports free of a source is the same in the other run.
LEMMA RunsAlongside ==
    ASSUME SliceInv, stage = "done", SliceIsTrue,
           NEW sources, NEW source, NEW start, Free \subseteq DOMAIN start,
           \A n \in Free \cap DOMAIN inputs : source \notin Seeds(sources)[n] => start[n] = val[n]
    PROVE  Independent(Propagate(sources), source, start)
<1> DEFINE final == Propagate(sources)
<1>1. SUFFICES ASSUME ~final.opaque, ~StoresBlindly(final), NEW d \in DOMAIN defs,
                      source \notin TaintOf(final.taint, defs[d].name)
               PROVE  Rerun(start)[defs[d].name] = val[defs[d].name]
  BY DEF Independent
<1>2. Ssa(statements) /\ NamesSettled
  BY DEF SliceInv
<1>3. PICK n \in Nat : n = Len(statements) /\ DOMAIN statements = 1..n
  BY <1>2, Lengths DEF Ssa
<1>4. PICK m, held : Memories(statements, val, m, held)
  BY DEF SliceInv, Replayed
<1>5. PICK f : FlowSteps(sources, f)
  BY <1>3, FlowStepByStep
<1>6. PICK g : RunSteps(start, g)
  BY <1>3, RunStepByStep
<1>7. \A i \in 0..n : /\ \A x : TaintOf(f[i].taint, x) \subseteq TaintOf(final.taint, x)
                      /\ ~f[i].opaque
  BY <1>1, <1>3, <1>5, FlowGrows
<1> DEFINE T == {i \in Nat : i <= n => Alongside(Compared(i + 1), source, f[i], g[i], held[i + 1])}
<1>8. 0 \in T
  <2>1. Compared(0 + 1) = Free \cap DOMAIN inputs
    <3>1. \A i \in DOMAIN statements : ~(i < 0 + 1)
      BY <1>3
    <3> QED
      BY <3>1 DEF Compared, Before
  <2>2. /\ f[0].taint = Seeds(sources) /\ f[0].memory = {}
        /\ g[0].val = start /\ g[0].mem = Memory
        /\ held[0 + 1] = Memory
    BY <1>4, <1>5, <1>6 DEF FlowSteps, RunSteps, Memories
  <2>3. \A x \in DOMAIN inputs : TaintOf(f[0].taint, x) = Seeds(sources)[x]
    BY <2>2 DEF TaintOf, Seeds
  <2>4. Alongside(Compared(0 + 1), source, f[0], g[0], held[0 + 1])
    BY <2>1, <2>2, <2>3 DEF Alongside, SameFree
  <2> QED
    BY <2>4
<1>9. ASSUME NEW i \in Nat, i \in T PROVE i + 1 \in T
  <2> DEFINE s == statements[i + 1]
  <2>1. SUFFICES ASSUME i + 1 <= n
                 PROVE  Alongside(Compared(i + 1 + 1), source, f[i + 1], g[i + 1], held[i + 1 + 1])
    BY <1>9
  <2>2. i + 1 \in 1..n /\ i + 1 - 1 = i /\ i <= n /\ i + 1 \in 0..n /\ i \in 0..n
    BY <2>1
  <2>3. Alongside(Compared(i + 1), source, f[i], g[i], held[i + 1])
    BY <1>9, <2>2
  <2>4. f[i + 1] = PropagateStatement(f[i], s) /\ g[i + 1] = RerunStatement(g[i], s)
    BY <1>3, <1>5, <1>6, <2>2 DEF FlowSteps, RunSteps
  <2>5. Shape(s) /\ Satisfied(s)
    BY <1>2, <1>3, <2>2 DEF Ssa, SliceIsTrue
  <2>6. /\ StatementReads(s) \subseteq Compared(i + 1)
        /\ Compared(i + 1 + 1) = Compared(i + 1) \cup (IF Defines(s) THEN {s.dst} ELSE {})
    BY <1>2, <1>3, <2>2, ComparedReads
  <2>7. /\ held[i + 1 + 1] = After(held[i + 1], s)
        /\ s.kind = "load" => val[s.dst] = Word(held[i + 1], s.seen[1], s.bits)
    BY <1>3, <1>4, <2>2 DEF Memories
  <2>8. s.kind = "store" => /\ source \notin TaintOfExpr(f[i].taint, s.parts[1])
                            /\ ~ContainsUnknown(s.parts[1])
    <3> SUFFICES ASSUME s.kind = "store"
                 PROVE  /\ source \notin TaintOfExpr(f[i].taint, s.parts[1])
                        /\ ~ContainsUnknown(s.parts[1])
      OBVIOUS
    <3>1. TaintOfExpr(final.taint, s.parts[1]) = {} /\ ~ContainsUnknown(s.parts[1])
      BY <1>1, <1>3, <2>2 DEF StoresBlindly
    <3>2. TaintOfExpr(f[i].taint, s.parts[1]) \subseteq TaintOfExpr(final.taint, s.parts[1])
      BY <1>7, <2>2 DEF TaintOfExpr
    <3> QED
      BY <3>1, <3>2
  <2>9. ~PropagateStatement(f[i], s).opaque
    BY <1>7, <2>2, <2>4
  <2> HIDE DEF s
  <2> QED
    BY <2>3, <2>4, <2>5, <2>6, <2>7, <2>8, <2>9, StepAlongside
<1>10. n \in T
  <2> HIDE DEF T
  <2> QED
    BY <1>8, <1>9, Induction
<1>11. /\ Alongside(Compared(n + 1), source, f[n], g[n], held[n + 1])
       /\ f[n] = final /\ g[n].val = Rerun(start)
  BY <1>3, <1>5, <1>6, <1>10 DEF FlowSteps, RunSteps
<1>12. defs[d].name \in Compared(n + 1)
  <2>1. defs[d].name \in Dsts(statements)
    BY <1>2 DEF NamesSettled
  <2>2. \A i \in DOMAIN statements : i < n + 1
    BY <1>3
  <2> QED
    BY <2>1, <2>2 DEF Dsts, Before, Compared
<1> QED
  BY <1>1, <1>11, <1>12 DEF Alongside, SameFree

----------------------------------------------------------------------------
(* The slice stays true of the machine: its statements fit, and the passes  *)
(* keep that.                                                               *)

\* An assignment of what the lifter cannot say, at whatever width.
Bare(e) == Len(e) = 1 /\ e[1].op = "unknown"

\* A statement of the slice: its expressions have widths and known names, its
\* definition has the width of its register, and it is true of the machine.
Fitting(s, names, u) ==
    /\ Shape(s)
    /\ \A i \in Parts(s) : Closed(s.parts[i], names) /\ Size(s.parts[i]) # 0
    /\ Defines(s) => s.dst[1] \in Registers /\ s.bits = Width[s.dst[1]]
    /\ s.kind = "assign" => s.bits = Size(s.parts[1]) \/ Bare(s.parts[1])
    /\ s.kind = "store" => s.bits \in Nat /\ Bytes(s.bits) <= 2 ^ Widest
    /\ s.kind \in {"assign", "load", "store"} => s.seen = Denotes(s, u)
    /\ s.kind = "assign" => u[s.dst] = Denotes(s, u)[1]

\* What is bare is one unknown node.
LEMMA BareIs ==
    ASSUME NEW e, IsSequence(e), Bare(e)
    PROVE  \E n : n.op = "unknown" /\ e = <<n>>
<1>1. PICK n : n = e[1]
  OBVIOUS
<1>2. Len(e) = 1 /\ n.op = "unknown"
  BY <1>1 DEF Bare
<1>3. IsSequence(<<n>>) /\ Len(<<n>>) = 1 /\ <<n>>[1] = n
  BY Singles
<1>4. \A i \in 1..1 : e[i] = <<n>>[i]
  BY <1>1, <1>3
<1>5. e = <<n>>
  BY <1>2, <1>3, <1>4, SameSequence
<1> QED
  BY <1>2, <1>5

\* Expressions may be replaced with others of their width and value.
LEMMA RewrittenFits ==
    ASSUME NEW names, NEW u, NEW s, Fitting(s, names, u),
           NEW q, q = [i \in Parts(s) |-> q[i]],
           \A i \in Parts(s) :
               /\ Means(q[i], names, u, Size(s.parts[i]), Denote(s.parts[i], u))
               /\ Bare(s.parts[i]) => Bare(q[i]),
           NEW t, t = [s EXCEPT !.parts = q]
    PROVE  Fitting(t, names, u)
<1>1. Shape(s) /\ \A i \in Parts(s) : Yields(q[i], 1)
  BY DEF Fitting, Means
<1>2. Alike(s, t) /\ Shape(t) /\ t.parts = q /\ Parts(t) = Parts(s)
  BY <1>1, Rewritten
<1>3. /\ t.kind = s.kind
      /\ Defines(s) => t.dst = s.dst /\ t.bits = s.bits /\ t.seen = s.seen
      /\ s.kind = "store" => t.bits = s.bits /\ t.seen = s.seen
  BY <1>2 DEF Alike
<1>4. \A i \in Parts(s) : Size(q[i]) = Size(s.parts[i]) /\ Denote(q[i], u) = Denote(s.parts[i], u)
  BY DEF Means
<1>5. \A i \in Parts(t) : Closed(t.parts[i], names) /\ Size(t.parts[i]) # 0
  BY <1>2, <1>4 DEF Fitting, Means
<1>6. Defines(t) <=> Defines(s)
  BY <1>3 DEF Defines
<1>7. Defines(t) => t.dst[1] \in Registers /\ t.bits = Width[t.dst[1]]
  BY <1>3, <1>6 DEF Fitting
<1>8. ASSUME s.kind \in {"assign", "load", "store"} PROVE Denotes(t, u) = Denotes(s, u)
  <2>1. t.bits = s.bits
    BY <1>3, <1>8 DEF Defines
  <2>2. \A i : PartBits(t, i) = PartBits(s, i)
    BY <1>3, <2>1 DEF PartBits
  <2>3. \A i \in Parts(s) : \A b : DenoteAt(t.parts[i], u, b) = DenoteAt(s.parts[i], u, b)
    BY <1>2, <1>4 DEF DenoteAt
  <2>4. DOMAIN t.parts = Parts(s) /\ DOMAIN s.parts = Parts(s)
    BY <1>2 DEF Parts
  <2> QED
    BY <2>2, <2>3, <2>4 DEF Denotes
<1>9. t.kind \in {"assign", "load", "store"} => t.seen = Denotes(t, u)
  <2>1. s.kind \in {"assign", "load", "store"} => t.seen = s.seen
    BY <1>3 DEF Defines
  <2> QED
    BY <1>3, <1>8, <2>1 DEF Fitting
<1>10. t.kind = "assign" => u[t.dst] = Denotes(t, u)[1]
  <2>1. s.kind = "assign" => t.dst = s.dst
    BY <1>3 DEF Defines
  <2> QED
    BY <1>3, <1>8, <2>1 DEF Fitting
<1>11. t.kind = "assign" => t.bits = Size(t.parts[1]) \/ Bare(t.parts[1])
  <2> SUFFICES ASSUME s.kind = "assign" PROVE t.bits = Size(t.parts[1]) \/ Bare(t.parts[1])
    BY <1>3
  <2>1. 1 \in Parts(s) /\ t.bits = s.bits
    BY <1>1, <1>3 DEF Shape, Defines
  <2>2. s.bits = Size(s.parts[1]) \/ Bare(s.parts[1])
    BY DEF Fitting
  <2> QED
    BY <1>2, <1>4, <2>1, <2>2
<1>12. t.kind = "store" => t.bits \in Nat
  BY <1>3 DEF Fitting
<1> QED
  BY <1>2, <1>5, <1>7, <1>9, <1>10, <1>11, <1>12 DEF Fitting

\* A part of a statement means its value.
LEMMA PartMeans ==
    ASSUME NEW names, NEW u, NEW s, Fitting(s, names, u), NEW i \in Parts(s)
    PROVE  Means(s.parts[i], names, u, Size(s.parts[i]), Denote(s.parts[i], u))
             /\ Size(s.parts[i]) # 0
BY DEF Fitting, Shape, Means

\* Neither simplify nor inlining touches what is bare.
LEMMA BareStays ==
    ASSUME NEW e, IsSequence(e), Bare(e)
    PROVE  Bare(Simplify(e)) /\ \A map : Bare(Substitute(e, map))
<1>1. PICK n : n.op = "unknown" /\ e = <<n>>
  BY BareIs
<1>2. Arity(n) = 0
  BY <1>1 DEF Arity, Leaves
<1>3. Simplify(<<n>>) = Rebuilt(n, <<>>)
  BY <1>2, Simplifies
<1>4. Rebuilt(n, <<>>) = <<n>>
  BY <1>2 DEF Rebuilt, Arity, Leaves
<1>5. \A map : Substitute(<<n>>, map) = <<n>>
  BY <1>1 DEF Substitute, IsVar
<1> QED
  BY <1>1, <1>3, <1>4, <1>5

\* A simplified statement still fits.
LEMMA SimplifiedFits ==
    ASSUME NEW names, NEW u, \A k \in names : u[k] \in Nat,
           NEW s, Fitting(s, names, u)
    PROVE  Fitting(Simplified(s), names, u)
<1> DEFINE q == [i \in Parts(s) |-> Simplify(s.parts[i])]
<1>1. Simplified(s) = [s EXCEPT !.parts = q]
  BY DEF Simplified, Parts, Fitting, Shape
<1>2. q = [i \in Parts(s) |-> q[i]] /\ \A i \in Parts(s) : q[i] = Simplify(s.parts[i])
  OBVIOUS
<1> HIDE DEF q
<1>3. ASSUME NEW i \in Parts(s)
      PROVE  /\ Means(q[i], names, u, Size(s.parts[i]), Denote(s.parts[i], u))
             /\ Bare(s.parts[i]) => Bare(q[i])
  <2>1. PICK e : e = s.parts[i]
    OBVIOUS
  <2>2. Means(e, names, u, Size(e), Denote(e, u)) /\ Size(e) # 0
    BY <1>3, <2>1, PartMeans
  <2>3. Means(Simplify(e), names, u, Size(e), Denote(e, u))
    BY <2>2, SimplifyMeans
  <2>4. Bare(e) => Bare(Simplify(e))
    BY <2>2, YieldsSequence, BareStays DEF Means
  <2> QED
    BY <1>2, <2>1, <2>3, <2>4
<1>4. PICK t : t = [s EXCEPT !.parts = q]
  OBVIOUS
<1>5. Fitting(t, names, u)
  BY <1>2, <1>3, <1>4, RewrittenFits
<1> QED
  BY <1>1, <1>4, <1>5

\* What build_inline_map finds stands for what it replaces.
LEMMA InlinedReplaces ==
    ASSUME NEW names, NEW u, \A k \in names : u[k] \in Nat,
           NEW ss, \A k \in DOMAIN ss : Fitting(ss[k], names, u),
           NEW n \in DOMAIN Inlined(ss)
    PROVE  Replaces(Inlined(ss)[n], n, names, u)
<1>1. \E s \in Copies(ss) : s.dst = n
  BY DEF Inlined
<1> DEFINE s == CHOOSE s \in Copies(ss) : s.dst = n
<1>2. s \in Copies(ss) /\ s.dst = n
  BY <1>1
<1>3. Inlined(ss)[n] = s.parts[1][1]
  BY DEF Inlined
<1> HIDE DEF s
<1>4. PICK j \in DOMAIN ss : /\ s = ss[j] /\ s.kind = "assign" /\ Len(s.parts[1]) = 1
                             /\ s.parts[1][1].op \in {"var", "const"}
  BY <1>2 DEF Copies
<1>5. Fitting(s, names, u) /\ Defines(s)
  BY <1>4 DEF Defines
<1>6. 1 \in Parts(s)
  BY <1>5 DEF Fitting, Shape
<1>7. PICK e : e = s.parts[1]
  OBVIOUS
<1>8. Means(e, names, u, Size(e), Denote(e, u)) /\ Size(e) # 0
  BY <1>5, <1>6, <1>7, PartMeans
<1>9. PICK m : m = e[1]
  OBVIOUS
<1>10. IsSequence(e) /\ Len(e) = 1 /\ m.op \in {"var", "const"} /\ Closed(e, names)
  BY <1>4, <1>7, <1>8, <1>9, YieldsSequence DEF Means
<1>11. e = <<m>>
  <2>1. IsSequence(<<m>>) /\ Len(<<m>>) = 1 /\ <<m>>[1] = m
    BY Singles
  <2>2. \A i \in 1..1 : e[i] = <<m>>[i]
    BY <1>9, <2>1
  <2> QED
    BY <1>10, <2>1, <2>2, SameSequence
<1>12. Arity(m) = 0
  BY <1>10 DEF Arity, Leaves
<1>13. KnownNode(m, names)
  BY <1>9, <1>10, ClosedNodes
<1>14. Size(e) = NodeSize(m, <<>>)
  BY <1>11, <1>12, Sizes
<1>15. Denote(e, u) = Computed(Grounded(m, u), <<>>)
  BY <1>11, <1>12, Denotations
<1>16. s.dst[1] \in Registers /\ s.bits = Width[s.dst[1]] /\ s.bits = Size(e)
  <2>1. ~Bare(e)
    BY <1>9, <1>10 DEF Bare
  <2> QED
    BY <1>4, <1>5, <1>7, <2>1 DEF Fitting
<1>17. PICK b \in Nat \ {0} : b = s.bits
  BY <1>16, WidthsAssumption
<1>18. PICK d : d = Denote(e, u)
  OBVIOUS
<1>19. Valued(d, b)
  BY <1>8, <1>16, <1>17, <1>18, SizedIsValued
<1>20. u[s.dst] = d.v
  <2>1. u[s.dst] = Denotes(s, u)[1]
    BY <1>4, <1>5 DEF Fitting
  <2>2. Denotes(s, u)[1] = d.v % 2 ^ b
    BY <1>4, <1>6, <1>7, <1>17, <1>18 DEF Denotes, DenoteAt, PartBits, Parts
  <2>3. d.v % 2 ^ b = d.v
    BY <1>19, WithinItsWidth DEF Valued
  <2> QED
    BY <2>1, <2>2, <2>3
<1>21. d = [w |-> b, v |-> u[s.dst]]
  BY <1>19, <1>20 DEF Valued
<1> QED
  BY <1>2, <1>3, <1>7, <1>9, <1>10, <1>13, <1>14, <1>15, <1>16, <1>17, <1>18, <1>21 DEF Replaces

\* A statement with values inlined still fits.
LEMMA PropagatedFits ==
    ASSUME NEW names, NEW u, \A k \in names : u[k] \in Nat,
           NEW map, \A n \in DOMAIN map : Replaces(map[n], n, names, u),
           NEW s, Fitting(s, names, u)
    PROVE  Fitting(Propagated(s, map), names, u)
<1> DEFINE q == [i \in Parts(s) |-> Substitute(s.parts[i], map)]
<1>1. Propagated(s, map) = [s EXCEPT !.parts = q]
  BY DEF Propagated, Parts, Fitting, Shape
<1>2. q = [i \in Parts(s) |-> q[i]] /\ \A i \in Parts(s) : q[i] = Substitute(s.parts[i], map)
  OBVIOUS
<1> HIDE DEF q
<1>3. ASSUME NEW i \in Parts(s)
      PROVE  /\ Means(q[i], names, u, Size(s.parts[i]), Denote(s.parts[i], u))
             /\ Bare(s.parts[i]) => Bare(q[i])
  <2>1. PICK e : e = s.parts[i]
    OBVIOUS
  <2>2. Means(e, names, u, Size(e), Denote(e, u)) /\ Size(e) # 0
    BY <1>3, <2>1, PartMeans
  <2>3. Means(Substitute(e, map), names, u, Size(e), Denote(e, u))
    BY <2>2, SubstituteMeans
  <2>4. Bare(e) => Bare(Substitute(e, map))
    BY <2>2, YieldsSequence, BareStays DEF Means
  <2> QED
    BY <1>2, <2>1, <2>3, <2>4
<1>4. PICK t : t = [s EXCEPT !.parts = q]
  OBVIOUS
<1>5. Fitting(t, names, u)
  BY <1>2, <1>3, <1>4, RewrittenFits
<1> QED
  BY <1>1, <1>4, <1>5

\* The condition of the branch: it has a width and known names.
FittingCondition(c, names) == Yields(c, 1) /\ Closed(c, names) /\ Size(c) # 0

\* A pass keeps the statements and the condition what they are.
LEMMA PassFits ==
    ASSUME NEW names, \A k \in names : val[k] \in Nat, IsSequence(statements),
           \A k \in DOMAIN statements : Fitting(statements[k], names, val),
           FittingCondition(condition, names), Pass
    PROVE  /\ \A k \in DOMAIN statements' : Fitting(statements'[k], names, val)
           /\ FittingCondition(condition', names)
           /\ Denote(condition', val) = Denote(condition, val)
<1> DEFINE folded == [k \in DOMAIN statements |-> Simplified(statements[k])]
           map == Inlined(folded)
           propagated == [k \in DOMAIN folded |-> Propagated(folded[k], map)]
           reduced == Substitute(Simplify(condition), map)
           live == LiveNames(propagated, reduced)
<1>1. /\ statements' = Selected(propagated, {k \in DOMAIN propagated : IsLive(propagated[k], live)})
      /\ condition' = reduced
  BY DEF Pass
<1>2. PICK n \in Nat : n = Len(statements) /\ DOMAIN statements = 1..n
  BY Lengths
<1>3. DOMAIN folded = 1..n /\ \A k \in 1..n : folded[k] = Simplified(statements[k])
  BY <1>2
<1>4. reduced = Substitute(Simplify(condition), map)
  OBVIOUS
<1> HIDE DEF folded
<1>5. \A k \in 1..n : Fitting(folded[k], names, val)
  BY <1>2, <1>3, SimplifiedFits
<1>6. \A m \in DOMAIN map : Replaces(map[m], m, names, val)
  BY <1>3, <1>5, InlinedReplaces
<1> HIDE DEF map
<1>7. DOMAIN propagated = 1..n /\ \A k \in 1..n : propagated[k] = Propagated(folded[k], map)
  BY <1>3
<1>8. propagated = [k \in 1..n |-> propagated[k]]
  BY <1>3
<1> HIDE DEF propagated
<1>9. IsSequence(propagated)
  BY <1>8, Mapped
<1>10. \A k \in 1..n : Fitting(propagated[k], names, val)
  BY <1>5, <1>6, <1>7, PropagatedFits
<1> HIDE DEF live
<1>11. ASSUME NEW k \in DOMAIN statements' PROVE Fitting(statements'[k], names, val)
  <2>1. PICK at : at = {i \in DOMAIN propagated : IsLive(propagated[i], live)}
    OBVIOUS
  <2>2. statements' = Selected(propagated, at)
    BY <1>1, <2>1
  <2>3. \A i \in DOMAIN Selected(propagated, at) :
            \E j \in DOMAIN propagated : Selected(propagated, at)[i] = propagated[j]
    BY <1>9, SelectedElements
  <2>4. \E j \in DOMAIN propagated : statements'[k] = propagated[j]
    BY <1>11, <2>2, <2>3
  <2> QED
    BY <1>7, <1>10, <2>4
<1>12. Means(condition, names, val, Size(condition), Denote(condition, val)) /\ Size(condition) # 0
  BY DEF FittingCondition, Means
<1>13. PICK c : c = Simplify(condition)
  OBVIOUS
<1>14. Means(c, names, val, Size(condition), Denote(condition, val))
  BY <1>12, <1>13, SimplifyMeans
<1>15. Means(Substitute(c, map), names, val, Size(condition), Denote(condition, val))
  BY <1>6, <1>12, <1>14, SubstituteMeans
<1>16. condition' = Substitute(c, map)
  BY <1>1, <1>13
<1>17. FittingCondition(condition', names) /\ Denote(condition', val) = Denote(condition, val)
  BY <1>12, <1>15, <1>16 DEF Means, FittingCondition
<1> QED
  BY <1>11, <1>17

\* The machine's memory: a byte at every address.
Bytewise(mem) == mem \in [0..(2 ^ Widest - 1) -> 0..(2 ^ ByteBits - 1)]

\* An offset from an address wraps to an address.
LEMMA OffsetIsAddress ==
    ASSUME NEW address \in Int, NEW i \in Int
    PROVE  OffsetBy(address, i) \in 0..(2 ^ Widest - 1)
<1>1. PICK m : m = 2 ^ Widest
  OBVIOUS
<1>2. m \in Nat \ {0}
  BY <1>1, WidthsAssumption, PowerIsCount
<1>3. PICK x \in Int : x = address + i - 1
  OBVIOUS
<1>4. x % m \in 0..(m - 1)
  BY <1>2
<1> QED
  BY <1>1, <1>3, <1>4 DEF OffsetBy

\* A width has a number of bytes.
LEMMA BytesNatural ==
    ASSUME NEW b \in Nat
    PROVE  Bytes(b) \in Nat
<1>1. PICK m \in Nat \ {0} : m = ByteBits
  BY WidthsAssumption
<1>2. b \div m \in Nat
  BY <1>1
<1> QED
  BY <1>1, <1>2 DEF Bytes

\* The weight of a byte is a number above zero.
LEMMA PlaceNatural ==
    ASSUME NEW i \in Nat \ {0}
    PROVE  2 ^ (ByteBits * (i - 1)) \in Nat \ {0}
<1>1. PICK m \in Nat \ {0} : m = ByteBits
  BY WidthsAssumption
<1>2. i - 1 \in Nat
  OBVIOUS
<1>3. PICK j \in Nat : j = i - 1
  BY <1>2
<1>4. m * j \in Nat
  OBVIOUS
<1>5. 2 ^ (m * j) \in Nat \ {0}
  BY <1>4, PowerIsCount
<1> QED
  BY <1>1, <1>3, <1>5

\* The product of numbers is a number.
LEMMA ProductNatural == \A x, y \in Nat : x * y \in Nat
OBVIOUS

\* A word read from memory is a number.
LEMMA WordNatural ==
    ASSUME NEW mem, Bytewise(mem), NEW address \in Int, NEW b \in Nat
    PROVE  Word(mem, address, b) \in Nat
<1>1. PICK n \in Nat : n = Bytes(b)
  BY BytesNatural
<1> DEFINE More(q, i) == q + 2 ^ (ByteBits * (i - 1)) * mem[OffsetBy(address, i)]
           Rec(f, m) == f = [i \in 0..m |-> IF i = 0 THEN 0 ELSE More(f[i - 1], i)]
           S == {m \in Nat : \E f : Rec(f, m)}
           sum == CHOOSE f : Rec(f, n)
<1>2. Word(mem, address, b) = sum[n]
  BY <1>1 DEF Word
<1>3. \A i \in Nat \ {0}, q \in Nat : More(q, i) \in Nat
  <2> SUFFICES ASSUME NEW i \in Nat \ {0}, NEW q \in Nat PROVE More(q, i) \in Nat
    OBVIOUS
  <2>1. PICK x \in Nat : x = 2 ^ (ByteBits * (i - 1))
    BY PlaceNatural
  <2>2. OffsetBy(address, i) \in 0..(2 ^ Widest - 1)
    BY OffsetIsAddress
  <2>3. mem[OffsetBy(address, i)] \in 0..(2 ^ ByteBits - 1)
    BY <2>2 DEF Bytewise
  <2>4. PICK y \in Nat : y = mem[OffsetBy(address, i)]
    BY <2>3
  <2>5. x * y \in Nat
    BY ProductNatural
  <2>6. PICK z \in Nat : z = x * y
    BY <2>5
  <2>7. q + z \in Nat
    OBVIOUS
  <2> QED
    BY <2>1, <2>4, <2>6, <2>7
<1> HIDE DEF More
<1>4. 0 \in S
  <2> DEFINE g == [i \in 0..0 |-> 0]
  <2>1. Rec(g, 0)
    OBVIOUS
  <2> HIDE DEF g
  <2> QED
    BY <2>1
<1>5. ASSUME NEW m \in Nat, m \in S PROVE m + 1 \in S
  <2>1. PICK f : Rec(f, m)
    BY <1>5
  <2> DEFINE g == [i \in 0..(m + 1) |-> IF i <= m THEN f[i] ELSE More(f[m], m + 1)]
  <2>2. Rec(g, m + 1)
    <3>1. ASSUME NEW i \in 0..(m + 1)
          PROVE  g[i] = IF i = 0 THEN 0 ELSE More(g[i - 1], i)
      <4>1. CASE i = m + 1
        BY <4>1
      <4>2. CASE i # m + 1
        <5>1. i \in 0..m /\ (i # 0 => i - 1 \in 0..m)
          BY <4>2
        <5> QED
          BY <2>1, <5>1
      <4> QED
        BY <4>1, <4>2
    <3> QED
      BY <3>1
  <2> HIDE DEF g
  <2> QED
    BY <2>2
<1>6. Rec(sum, n)
  <2> HIDE DEF Rec
  <2>1. n \in S
    <3> HIDE DEF S
    <3> QED
      BY <1>4, <1>5, Induction
  <2> QED
    BY <2>1
<1> HIDE DEF sum, S
<1>7. sum[0] = 0 /\ \A i \in 1..n : sum[i] = More(sum[i - 1], i)
  BY <1>6
<1> DEFINE T == {i \in Nat : i <= n => sum[i] \in Nat}
<1>8. 0 \in T
  BY <1>7
<1>9. ASSUME NEW i \in Nat, i \in T PROVE i + 1 \in T
  <2> SUFFICES ASSUME i + 1 <= n PROVE sum[i + 1] \in Nat
    BY <1>9
  <2>1. i + 1 \in 1..n /\ i + 1 - 1 = i /\ i <= n /\ i + 1 \in Nat \ {0}
    OBVIOUS
  <2>2. sum[i] \in Nat
    BY <1>9, <2>1
  <2>3. sum[i + 1] = More(sum[i], i + 1)
    BY <1>7, <2>1
  <2> QED
    BY <1>3, <2>1, <2>2, <2>3
<1>10. n \in T
  <2> HIDE DEF T
  <2> QED
    BY <1>8, <1>9, Induction
<1> QED
  BY <1>2, <1>10

\* A memory written to is a memory of bytes.
LEMMA WrittenBytewise ==
    ASSUME NEW mem, Bytewise(mem), NEW address, NEW x \in Int, NEW b \in Nat
    PROVE  Bytewise(Written(mem, address, x, b))
<1>1. DOMAIN mem = 0..(2 ^ Widest - 1) /\ \A p \in DOMAIN mem : mem[p] \in 0..(2 ^ ByteBits - 1)
  BY DEF Bytewise
<1>2. PICK n \in Nat : n = Bytes(b)
  BY BytesNatural
<1>3. ASSUME NEW i \in 1..n PROVE ByteOf(x, i) \in 0..(2 ^ ByteBits - 1)
  <2>1. PICK k \in Nat \ {0} : k = 2 ^ (ByteBits * (i - 1))
    BY PlaceNatural
  <2>2. PICK m \in Nat \ {0} : m = 2 ^ ByteBits
    BY WidthsAssumption, PowerIsCount
  <2>3. x \div k \in Int
    OBVIOUS
  <2>4. PICK y \in Int : y = x \div k
    BY <2>3
  <2>5. y % m \in 0..(m - 1)
    OBVIOUS
  <2> QED
    BY <2>1, <2>2, <2>4, <2>5 DEF ByteOf
<1> DEFINE At(p) == {i \in 1..n : OffsetBy(address, i) = p}
           w == [p \in DOMAIN mem |->
                   IF \E i \in 1..n : OffsetBy(address, i) = p
                   THEN ByteOf(x, CHOOSE i \in 1..n : OffsetBy(address, i) = p) ELSE mem[p]]
<1>4. Written(mem, address, x, b) = w
  BY <1>2 DEF Written
<1>5. ASSUME NEW p \in DOMAIN mem PROVE w[p] \in 0..(2 ^ ByteBits - 1)
  <2>1. CASE \E i \in 1..n : OffsetBy(address, i) = p
    <3>1. PICK i : i = CHOOSE j \in 1..n : OffsetBy(address, j) = p
      OBVIOUS
    <3>2. i \in 1..n
      BY <2>1, <3>1
    <3>3. w[p] = ByteOf(x, i)
      BY <1>5, <2>1, <3>1
    <3> QED
      BY <1>3, <3>2, <3>3
  <2>2. CASE ~\E i \in 1..n : OffsetBy(address, i) = p
    BY <1>1, <1>5, <2>2
  <2> QED
    BY <2>1, <2>2
<1>6. w \in [DOMAIN mem -> 0..(2 ^ ByteBits - 1)]
  BY <1>5
<1> HIDE DEF w
<1> QED
  BY <1>1, <1>4, <1>6 DEF Bytewise

\* The widths of a statement, whatever the values.
Widthwise(s) ==
    /\ \A i \in Parts(s) : Size(s.parts[i]) # 0
    /\ Defines(s) => s.dst[1] \in Registers /\ s.bits = Width[s.dst[1]]
    /\ s.kind = "assign" => s.bits = Size(s.parts[1]) \/ Bare(s.parts[1])
    /\ s.kind = "store" => s.bits \in Nat /\ Bytes(s.bits) <= 2 ^ Widest

\* To fit is to have the right shape and widths, known names, and to be true
\* of the machine.
LEMMA FittingIs ==
    ASSUME NEW s, NEW names, NEW u
    PROVE  Fitting(s, names, u) <=>
             /\ Shape(s) /\ Widthwise(s)
             /\ \A i \in Parts(s) : Closed(s.parts[i], names)
             /\ s.kind \in {"assign", "load", "store"} => s.seen = Denotes(s, u)
             /\ s.kind = "assign" => u[s.dst] = Denotes(s, u)[1]
BY DEF Fitting, Widthwise

\* A lifted expression means something, of names that are not versions.
LEMMA LiftedMeans ==
    ASSUME NEW e, Lifted(e), Proper(e), NEW u
    PROVE  Means(e, PlainNames, u, Size(e), Denote(e, u))
<1>1. Yields(e, 1)
  BY ProperYields
<1>2. Closed(e, PlainNames)
  BY DEF Closed, Lifted, Variable, IsVar, PlainNames
<1> QED
  BY <1>1, <1>2 DEF Means

\* The value of a lifted expression is a number.
LEMMA LiftedValue ==
    ASSUME NEW e, Lifted(e), Proper(e), Size(e) # 0, NEW u, \A n \in PlainNames : u[n] \in Nat,
           NEW b \in Nat
    PROVE  DenoteAt(e, u, b) \in Nat
<1>1. PICK d, z : d = Denote(e, u) /\ z = Size(e)
  OBVIOUS
<1>2. Means(e, PlainNames, u, z, d)
  BY <1>1, LiftedMeans
<1>3. Valued(d, z)
  BY <1>1, <1>2, SizedIsValued
<1>4. z \in Nat /\ InWidth(d.v, z)
  BY <1>3 DEF Valued
<1>5. PICK x \in Nat : x = d.v
  BY <1>4, InWidthIs
<1>6. InWidth(x % 2 ^ b, b)
  BY RemainderInWidth
<1>7. x % 2 ^ b \in Nat
  BY <1>6, InWidthIs
<1> QED
  BY <1>1, <1>5, <1>7 DEF DenoteAt

\* What the lifted statements say of the machine are numbers.
LEMMA LiftedDenotes ==
    ASSUME NEW s \in Statements, NEW u, \A n \in PlainNames : u[n] \in Nat
    PROVE  /\ s.kind \in {"assign", "load"} => Denotes(s, u)[1] \in Nat /\ s.bits \in Nat
           /\ s.kind = "store" => Denotes(s, u)[1] \in Nat /\ Denotes(s, u)[2] \in Nat /\
                 s.bits \in Nat
<1>1. /\ \A i \in DOMAIN s.parts : Lifted(s.parts[i]) /\ Proper(s.parts[i])
      /\ Defines(s) => s.dst \in Registers /\ DOMAIN s.parts = {1}
      /\ s.kind = "store" => DOMAIN s.parts = {1, 2}
  <2>1. Defines(s) => DOMAIN s.parts = {1}
    BY StatementForms
  <2>2. s.kind = "store" => DOMAIN s.parts = {1, 2}
    BY StatementForms
  <2> QED
    BY <2>1, <2>2, StatementForms
<1>2. Sized(s) /\ (Defines(s) => s.bits = Width[s.dst])
  BY WidthsAssumption
<1>3. \A i \in DOMAIN s.parts : Size(s.parts[i]) # 0
  BY <1>2 DEF Sized
<1>4. Defines(s) => s.bits \in Nat
  BY <1>1, <1>2, WidthsAssumption
<1>5. s.kind = "store" => s.bits \in Nat
  BY <1>2 DEF Sized
<1>6. Widest \in Nat
  BY WidthsAssumption
<1>7. \A i \in DOMAIN s.parts : \A b \in Nat : DenoteAt(s.parts[i], u, b) \in Nat
  BY <1>1, <1>3, LiftedValue
<1>8. ASSUME s.kind \in {"assign", "load"} PROVE Denotes(s, u)[1] \in Nat /\ s.bits \in Nat
  <2>1. Defines(s) /\ 1 \in DOMAIN s.parts /\ s.bits \in Nat
    BY <1>1, <1>4, <1>8 DEF Defines
  <2>2. PartBits(s, 1) \in Nat
    BY <1>6, <2>1 DEF PartBits
  <2>3. Denotes(s, u)[1] = DenoteAt(s.parts[1], u, PartBits(s, 1))
    BY <2>1 DEF Denotes
  <2> QED
    BY <1>7, <2>1, <2>2, <2>3
<1>9. ASSUME s.kind = "store"
      PROVE  Denotes(s, u)[1] \in Nat /\ Denotes(s, u)[2] \in Nat /\ s.bits \in Nat
  <2>1. 1 \in DOMAIN s.parts /\ 2 \in DOMAIN s.parts /\ s.bits \in Nat
    BY <1>1, <1>5, <1>9
  <2>2. PartBits(s, 1) \in Nat /\ PartBits(s, 2) \in Nat
    BY <1>6, <2>1 DEF PartBits
  <2>3. /\ Denotes(s, u)[1] = DenoteAt(s.parts[1], u, PartBits(s, 1))
        /\ Denotes(s, u)[2] = DenoteAt(s.parts[2], u, PartBits(s, 2))
    BY <2>1 DEF Denotes
  <2> QED
    BY <1>7, <2>1, <2>2, <2>3
<1> QED
  BY <1>8, <1>9

\* The converter keeps the widths.
LEMMA RenamedWidths ==
    ASSUME NEW s \in Statements, NEW r, r.kind = s.kind, r.parts = Renamed(s),
           Defines(s) => r.dst[1] = s.dst /\ r.bits = s.bits,
           s.kind = "store" => r.bits = s.bits
    PROVE  Widthwise(r)
<1>1. \A i \in DOMAIN s.parts : Lifted(s.parts[i]) /\ Yields(s.parts[i], 1)
  BY StatementForms, ProperYields
<1>2. Sized(s) /\ (Defines(s) => s.bits = Width[s.dst] /\ s.dst \in Registers)
  BY WidthsAssumption, StatementForms
<1>3. DOMAIN r.parts = DOMAIN s.parts /\ \A i \in DOMAIN s.parts : r.parts[i] = Rename(s.parts[i])
  BY DEF Renamed
<1>4. \A i \in DOMAIN s.parts : Size(r.parts[i]) = Size(s.parts[i])
  BY <1>1, <1>3, RenameSize
<1>5. \A i \in Parts(r) : Size(r.parts[i]) # 0
  BY <1>2, <1>3, <1>4 DEF Parts, Sized
<1>6. Defines(r) <=> Defines(s)
  BY DEF Defines
<1>7. ASSUME r.kind = "assign" PROVE r.bits = Size(r.parts[1]) \/ Bare(r.parts[1])
  <2>1. Defines(s)
    BY <1>7 DEF Defines
  <2>2. 1 \in DOMAIN s.parts
    BY <2>1, StatementForms
  <2>3. s.bits = Size(s.parts[1]) \/ (Len(s.parts[1]) = 1 /\ ContainsUnknown(s.parts[1]))
    BY <1>2, <1>7 DEF Sized
  <2>4. ASSUME Len(s.parts[1]) = 1, ContainsUnknown(s.parts[1]) PROVE Bare(r.parts[1])
    <3>1. PICK e : e = s.parts[1]
      OBVIOUS
    <3>2. DOMAIN e = 1..1
      BY <1>1, <2>2, <2>4, <3>1, Lengths DEF Yields
    <3>3. e[1].op = "unknown"
      BY <2>4, <3>1, <3>2 DEF ContainsUnknown
    <3>4. r.parts[1] = Rename(e)
      BY <1>3, <2>2, <3>1
    <3>5. Rename(e) = [i \in 1..1 |-> e[i]]
      BY <3>2, <3>3 DEF Rename, IsVar
    <3>6. PICK f : f = [i \in 1..1 |-> e[i]]
      OBVIOUS
    <3>7. f = [i \in 1..1 |-> f[i]] /\ f[1] = e[1]
      BY <3>6
    <3>8. Len(f) = 1
      BY <3>7, Mapped
    <3> QED
      BY <3>3, <3>4, <3>5, <3>6, <3>7, <3>8 DEF Bare
  <2>5. r.bits = s.bits /\ Size(r.parts[1]) = Size(s.parts[1])
    BY <1>4, <2>1, <2>2
  <2> QED
    BY <2>3, <2>4, <2>5
<1>8. r.kind = "store" => r.bits \in Nat /\ Bytes(r.bits) <= 2 ^ Widest
  BY <1>2 DEF Sized
<1> QED
  BY <1>2, <1>5, <1>6, <1>7, <1>8 DEF Widthwise

\* The slice is true of the machine at every stage, and why.
RunInv ==
    /\ SliceInv
    /\ Bytewise(memory)
    /\ \A n \in DOMAIN val : val[n] \in Nat
    /\ stage = "converting" => \A n \in PlainNames : env[n] \in Nat
    /\ \A k \in DOMAIN statements : Fitting(statements[k], DOMAIN val, val)
    /\ stage # "converting" =>
         FittingCondition(condition, DOMAIN val) /\ (taken <=> Holds(condition, val))

\* A slice whose statements fit and whose condition means what was taken is
\* true of the machine.
LEMMA RunInvSlice == RunInv => SliceIsTrue
<1> SUFFICES ASSUME RunInv PROVE SliceIsTrue
  OBVIOUS
<1>1. \A k \in DOMAIN statements : Satisfied(statements[k])
  BY DEF RunInv, Fitting, Satisfied
<1>2. ~Converting => (taken <=> Holds(condition, val))
  BY DEF RunInv, SliceInv, ConversionInv, IInv, ConditionIsTrue
<1> QED
  BY <1>1, <1>2 DEF SliceIsTrue

\* The invariant holds before the first statement.
LEMMA InitRunInv == RunInit => RunInv
<1> SUFFICES ASSUME RunInit PROVE RunInv
  OBVIOUS
<1>1. SliceInv
  BY InitSlice
<1>2. /\ stage = "converting" /\ memory = Memory /\ statements = <<>>
      /\ env \in [PlainNames -> Nat] /\ val = env
  BY ConstantsAssumption DEF RunInit, Init
<1>3. Bytewise(memory)
  BY <1>2, WidthsAssumption DEF Bytewise
<1>4. DOMAIN statements = {}
  BY <1>2
<1> QED
  BY <1>1, <1>2, <1>3, <1>4 DEF RunInv

\* A statement converted.
LEMMA ConvertFits ==
    ASSUME RunInv, SliceInv', NEW s \in Statements, Convert(s)
    PROVE  RunInv'
<1>1. /\ stage = "converting" /\ stage' = "converting" /\ ConversionInv /\ ConversionInv'
  BY DEF Convert, optimiser, SliceInv, RunInv
<1>2. /\ IInv /\ IInv' /\ Ssa(statements) /\ Ssa(statements')
      /\ \A n \in PlainNames : env[n] \in Nat
      /\ \A n \in DOMAIN val : val[n] \in Nat
      /\ DOMAIN env = PlainNames /\ Bytewise(memory)
  BY <1>1 DEF ConversionInv, RunInv, IInv, Agreement
<1>3. /\ DOMAIN val' = Known'
      /\ \A k \in DOMAIN statements' : Shape(statements'[k])
      /\ \A k \in DOMAIN statements' : \A i \in DOMAIN statements'[k].parts :
              Closed(statements'[k].parts[i], Known')
      /\ \A k \in DOMAIN statements' :
              /\ statements'[k].kind \in {"assign", "load", "store"}
                    => statements'[k].seen = Denotes(statements'[k], val')
              /\ statements'[k].kind = "assign"
                    => val'[statements'[k].dst] = Denotes(statements'[k], val')[1]
  BY <1>2 DEF IInv, Agreement, AllSatisfied, Satisfied, StatementsAreClosed, Ssa
<1>4. \A k \in DOMAIN statements : Widthwise(statements[k])
  BY FittingIs DEF RunInv
<1>5. \E r : statements' = Append(statements, r) /\ Widthwise(r)
  <2>1. CASE Defines(s)
    <3>1. \E v : Define(s, v)
      BY <2>1 DEF Convert, RenameAssign, RenameLoad, RenameStore, Keep, Defines
    <3> DEFINE r == [kind |-> s.kind, dst |-> Fresh(s.dst), bits |-> s.bits,
                     parts |-> Renamed(s), seen |-> Denotes(s, env)]
    <3>2. statements' = Append(statements, r)
      BY <3>1 DEF Define
    <3>3. r.kind = s.kind /\ r.parts = Renamed(s) /\ r.dst[1] = s.dst /\ r.bits = s.bits
      BY DEF Fresh
    <3> HIDE DEF r
    <3>4. Widthwise(r)
      BY <3>3, RenamedWidths
    <3> QED
      BY <3>2, <3>4
  <2>2. CASE RenameStore(s)
    <3> DEFINE r == [kind |-> "store", bits |-> s.bits, parts |-> Renamed(s),
                  seen |-> Denotes(s, env)]
    <3>1. statements' = Append(statements, r) /\ s.kind = "store"
      BY <2>2 DEF RenameStore
    <3>2. r.kind = s.kind /\ r.parts = Renamed(s) /\ r.bits = s.bits /\ ~Defines(s)
      BY <3>1 DEF Defines
    <3> HIDE DEF r
    <3>3. Widthwise(r)
      BY <3>2, RenamedWidths
    <3> QED
      BY <3>1, <3>3
  <2>3. CASE Keep(s)
    <3>1. statements' = Append(statements, s) /\ s.kind \in {"unsupported", "nop"}
      BY <2>3 DEF Keep
    <3>2. s.parts = <<>>
      BY <3>1, StatementForms
    <3>3. Widthwise(s)
      BY <3>1, <3>2 DEF Widthwise, Defines, Parts
    <3> QED
      BY <3>1, <3>3
  <2> QED
    BY <2>1, <2>2, <2>3 DEF Convert, RenameAssign, RenameLoad, Defines
<1>6. PICK r : statements' = Append(statements, r) /\ Widthwise(r)
  BY <1>5
<1>7. \A k \in DOMAIN statements' : Widthwise(statements'[k])
  <2>1. \A k \in DOMAIN statements' : \/ k \in DOMAIN statements /\ statements'[k] = statements[k]
                                      \/ statements'[k] = r
    BY <1>2, <1>6, Appended DEF Ssa
  <2> QED
    BY <1>4, <1>6, <2>1
<1>8. ASSUME NEW k \in DOMAIN statements' PROVE Fitting(statements'[k], DOMAIN val', val')
  <2>1. PICK t : t = statements'[k]
    OBVIOUS
  <2>2. /\ t.kind \in {"assign", "load", "store"} => t.seen = Denotes(t, val')
        /\ t.kind = "assign" => val'[t.dst] = Denotes(t, val')[1]
    BY <1>3, <1>8, <2>1
  <2>3. Shape(t) /\ Widthwise(t) /\ \A i \in Parts(t) : Closed(t.parts[i], DOMAIN val')
    BY <1>3, <1>7, <1>8, <2>1 DEF Parts
  <2>4. Fitting(t, DOMAIN val', val')
    BY <2>2, <2>3, FittingIs
  <2> QED
    BY <2>1, <2>4
<1>9. /\ s.kind \in {"assign", "load"} => Denotes(s, env)[1] \in Nat /\ s.bits \in Nat
      /\ s.kind = "store" => Denotes(s, env)[1] \in Nat /\ Denotes(s, env)[2] \in Nat /\
           s.bits \in Nat
  BY <1>2, LiftedDenotes
<1>10. ASSUME NEW v \in Nat, Define(s, v)
       PROVE  (\A n \in DOMAIN val' : val'[n] \in Nat) /\ (\A n \in PlainNames : env'[n] \in Nat)
  <2>1. /\ env' = [env EXCEPT ![Plain(s.dst)] = v]
        /\ val' = [n \in DOMAIN val \cup {Fresh(s.dst)} |-> IF n = Fresh(s.dst) THEN v ELSE val[n]]
    BY <1>10 DEF Define
  <2>2. \A n \in DOMAIN val' : val'[n] \in Nat
    BY <1>2, <1>10, <2>1
  <2>3. \A n \in PlainNames : env'[n] \in Nat
    BY <1>2, <1>10, <2>1
  <2> QED
    BY <2>2, <2>3
<1>11. /\ \A n \in DOMAIN val' : val'[n] \in Nat
       /\ \A n \in PlainNames : env'[n] \in Nat
       /\ Bytewise(memory')
  <2>1. CASE RenameAssign(s) /\ memory' = memory
    BY <1>2, <1>9, <1>10, <2>1 DEF RenameAssign
  <2>2. CASE Keep(s) /\ memory' = memory
    BY <1>2, <2>2 DEF Keep, machine
  <2>3. CASE RenameLoad(s, Word(memory, Denotes(s, env)[1], s.bits)) /\ memory' = memory
    <3>1. s.kind = "load" /\ Define(s, Word(memory, Denotes(s, env)[1], s.bits))
      BY <2>3 DEF RenameLoad
    <3>2. Word(memory, Denotes(s, env)[1], s.bits) \in Nat
      BY <1>2, <1>9, <3>1, WordNatural
    <3> QED
      BY <1>2, <1>10, <2>3, <3>1, <3>2
  <2>4. CASE /\ RenameStore(s)
             /\ memory' = Written(memory, Denotes(s, env)[1], Denotes(s, env)[2], s.bits)
    <3>1. s.kind = "store" /\ env' = env /\ val' = val
      BY <2>4 DEF RenameStore, machine
    <3>2. Bytewise(Written(memory, Denotes(s, env)[1], Denotes(s, env)[2], s.bits))
      BY <1>2, <1>9, <3>1, WrittenBytewise
    <3> QED
      BY <1>2, <2>4, <3>1, <3>2
  <2> QED
    BY <2>1, <2>2, <2>3, <2>4 DEF Convert
<1> QED
  BY <1>1, <1>8, <1>11 DEF RunInv

\* The condition concluded.
LEMMA ConcludeFits ==
    ASSUME RunInv, SliceInv', NEW c \in Conditions, Conclude(c)
    PROVE  RunInv'
<1>1. /\ stage = "converting" /\ stage' = "optimising" /\ memory' = memory
      /\ statements' = statements /\ val' = val
      /\ condition' = Rename(c) /\ taken' = Holds(c, env)
  BY DEF Conclude, RenameCondition
<1>2. LatestOK /\ Agreement
  BY <1>1 DEF RunInv, SliceInv, ConversionInv, IInv
<1>3. Lifted(c) /\ Proper(c) /\ Size(c) # 0
  BY ConstantsAssumption, WidthsAssumption
<1>4. Ground(Rename(c), val) = Ground(c, env) /\ Closed(Rename(c), DOMAIN val)
  BY <1>2, <1>3, RenameGround DEF Agreement
<1>5. taken' <=> Holds(condition', val')
  BY <1>1, <1>4 DEF Holds, Denote
<1>6. Yields(Rename(c), 1)
  BY <1>2, <1>3, RenamedReads
<1>7. Size(Rename(c)) # 0
  BY <1>3, ProperYields, RenameSize
<1>8. FittingCondition(condition', DOMAIN val')
  BY <1>1, <1>4, <1>6, <1>7 DEF FittingCondition
<1> QED
  BY <1>1, <1>5, <1>8 DEF RunInv

\* A pass over the slice keeps the invariant.
LEMMA PassFitsRun ==
    ASSUME RunInv, SliceInv', Pass, memory' = memory
    PROVE  RunInv'
<1>1. /\ stage = "optimising" /\ stage' \in {"settled", "optimising"}
      /\ val' = val /\ taken' = taken
  BY DEF Pass, machine
<1>2. IsSequence(statements)
  BY DEF RunInv, SliceInv, Ssa
<1>3. PICK names : names = DOMAIN val
  OBVIOUS
<1>4. /\ \A k \in names : val[k] \in Nat
      /\ \A k \in DOMAIN statements : Fitting(statements[k], names, val)
      /\ FittingCondition(condition, names) /\ (taken <=> Holds(condition, val))
  BY <1>1, <1>3 DEF RunInv
<1>5. /\ \A k \in DOMAIN statements' : Fitting(statements'[k], names, val)
      /\ FittingCondition(condition', names)
      /\ Denote(condition', val) = Denote(condition, val)
  BY <1>2, <1>4, PassFits
<1>6. taken' <=> Holds(condition', val')
  BY <1>1, <1>4, <1>5 DEF Holds
<1> QED
  BY <1>1, <1>3, <1>5, <1>6 DEF RunInv

\* Every step keeps the invariant.
LEMMA NextRunInv == RunInv /\ [RunNext]_runVars => RunInv'
<1> SUFFICES ASSUME RunInv, [RunNext]_runVars PROVE RunInv'
  OBVIOUS
<1>1. SliceInv'
  BY NextSlice DEF RunInv
<1>2. ASSUME NEW s \in Statements, Convert(s) PROVE RunInv'
  BY <1>1, <1>2, ConvertFits
<1>3. ASSUME NEW c \in Conditions, Conclude(c) PROVE RunInv'
  BY <1>1, <1>3, ConcludeFits
<1>4. CASE Pass /\ UNCHANGED <<memory, formulas>>
  BY <1>1, <1>4, PassFitsRun
<1>5. CASE Recompute /\ UNCHANGED <<memory, formulas>>
  <2>1. /\ stage \in {"settled", "optimising"} /\ stage' = "done" /\ statements' = statements
        /\ condition' = condition /\ val' = val /\ taken' = taken /\ memory' = memory
    BY <1>5 DEF Recompute, machine
  <2> QED
    BY <1>1, <2>1 DEF RunInv
<1>6. CASE EncodeSlice \/ UNCHANGED runVars
  <2>1. UNCHANGED <<vars, optimiser, memory>>
    BY <1>6 DEF EncodeSlice, runVars
  <2>2. /\ statements' = statements /\ condition' = condition /\ env' = env /\ val' = val
        /\ taken' = taken /\ stage' = stage /\ memory' = memory
    BY <2>1 DEF vars, slice, machine, optimiser
  <2> QED
    BY <1>1, <2>2 DEF RunInv
<1> QED
  BY <1>2, <1>3, <1>4, <1>5, <1>6 DEF RunNext

\* Every slice that the converter and the passes make is true of the machine
\* it was lifted from: what a statement defines has the value that the
\* machine computed, and the condition the one that its branch tested,
\* through inlining, simplification and the removal of dead statements
\* (convert.rs, optimize.rs, expr.rs).
THEOREM SliceStaysTrue == RunSpec => []SliceIsTrue
BY InitRunInv, NextRunInv, RunInvSlice, PTL DEF RunSpec

\* What the may-taint pass reports free of a source does not depend on it: on
\* every slice that the converter and the passes make, whatever it does to
\* its memory (taint.rs).
THEOREM TaintStaysSound == RunSpec => []TaintIsSound
<1>1. SliceInv /\ SliceIsTrue => TaintIsSound
  <2> SUFFICES ASSUME SliceInv, SliceIsTrue, stage = "done", NEW start \in Starts
               PROVE  /\ \A x \in Registers :
                           Independent(Propagate(Registers), x,
                              Varied({Plain(x)} \cup Hiding, start))
                      /\ Independent(Propagate({}), "any input", start)
    BY DEF TaintIsSound
  <2>1. ASSUME NEW x \in Registers
        PROVE  Independent(Propagate(Registers), x, Varied({Plain(x)} \cup Hiding, start))
    <3> DEFINE other == Varied({Plain(x)} \cup Hiding, start)
    <3>1. Free \subseteq DOMAIN other
      BY DEF Varied, Free, PlainNames
    <3>2. ASSUME NEW n \in Free \cap DOMAIN inputs, x \notin Seeds(Registers)[n]
          PROVE  other[n] = val[n]
      <4>1. PICK y \in Registers : n = Plain(y)
        BY DEF Free
      <4>2. n[1] = y /\ n \in PlainNames
        BY <4>1 DEF Plain, PlainNames
      <4>3. y # x
        BY <3>2, <4>2 DEF Seeds
      <4>4. n \notin {Plain(x)} \cup Hiding
        BY <4>1, <4>3, ConstantsAssumption DEF Plain, Hiding
      <4> QED
        BY <4>2, <4>4 DEF Varied
    <3> HIDE DEF other
    <3>3. Independent(Propagate(Registers), x, other)
      BY <3>1, <3>2, RunsAlongside
    <3> QED
      BY <3>3 DEF other
  <2>2. Independent(Propagate({}), "any input", start)
    <3>1. Free \subseteq DOMAIN start
      BY ConstantsAssumption DEF Free, PlainNames
    <3>2. \A n \in Free \cap DOMAIN inputs : "any input" \in Seeds({})[n]
      BY DEF Seeds
    <3> QED
      BY <3>1, <3>2, RunsAlongside
  <2> QED
    BY <2>1, <2>2
<1>2. RunInv => TaintIsSound
  BY <1>1, RunInvSlice DEF RunInv
<1> QED
  BY <1>2, InitRunInv, NextRunInv, PTL DEF RunSpec

----------------------------------------------------------------------------
(* What the encoders declare, and the terms of a statement.                 *)

\* Every name is declared at the width of its register.
Rightly(d) == \A n \in DOMAIN d : d[n] = Width[n[1]]
\* The names of an expression are declared.
Declares(d, e) == \A i \in 1..Len(e) : DeclaredRight(e[i], d)

\* All the reads of a name have one width.
LEMMA FirstWidthIs ==
    ASSUME NEW e, Yields(e, 1), Size(e) # 0, NEW n \in Reads(e)
    PROVE  FirstWidth(e, n) = Width[n[1]]
<1>1. PICK m \in Nat : m = Len(e) /\ DOMAIN e = 1..m
  BY Lengths DEF Yields
<1> DEFINE S == {i \in 1..m : IsVar(e[i]) /\ e[i].name = n}
           P(i) == IsVar(e[i]) /\ e[i].name = n
             /\ \A k \in 1..(i - 1) : ~(IsVar(e[k]) /\ e[k].name = n)
<1>2. \E i \in 1..m : P(i)
  <2>1. S # {} /\ S \in SUBSET Nat
    BY <1>1 DEF Reads
  <2>2. PICK i \in S : \A k \in S : i <= k
    <3> HIDE DEF S
    <3> QED
      BY <2>1, Least
  <2>3. \A k \in 1..(i - 1) : k \in 1..m /\ ~(i <= k)
    BY <1>1
  <2> QED
    BY <2>2, <2>3
<1>3. PICK i : i = CHOOSE k \in 1..m : P(k)
  OBVIOUS
<1>4. i \in 1..m /\ P(i)
  BY <1>2, <1>3
<1>5. FirstWidth(e, n) = e[i].bits
  BY <1>1, <1>3 DEF FirstWidth
<1>6. PICK g : g = e[i]
  OBVIOUS
<1>7. g.op = "var" /\ g.name = n
  BY <1>4, <1>6 DEF IsVar
<1>8. Arity(g) = 0
  BY <1>7 DEF Arity, Leaves
<1>9. NodeSize(g, <<>>) # 0
  BY <1>1, <1>4, <1>6, <1>8, SizedLeaves
<1>10. g.bits = Width[n[1]]
  BY <1>7, <1>8, <1>9, LeafSize
<1> QED
  BY <1>5, <1>6, <1>10

\* The reads of an expression are added at the widths of their registers.
LEMMA ReadsRight ==
    ASSUME NEW e, Yields(e, 1), Size(e) # 0, NEW d, Rightly(d), NEW known
    PROVE  /\ Rightly(WithReads(d, e, known))
           /\ DOMAIN WithReads(d, e, known) = DOMAIN d \cup (Reads(e) \ known)
BY FirstWidthIs DEF WithReads, Rightly

\* So are the reads of a statement's parts.
LEMMA PartsRight ==
    ASSUME NEW parts, IsSequence(parts), NEW d, Rightly(d), NEW known,
           \A i \in DOMAIN parts : Yields(parts[i], 1) /\ Size(parts[i]) # 0
    PROVE  Rightly(WithParts(d, parts, known))
<1>1. PICK n \in Nat : n = Len(parts) /\ DOMAIN parts = 1..n
  BY Lengths
<1>2. PICK f : ReadSteps(d, parts, known, f)
  BY <1>1, ReadsStepByStep
<1>3. /\ f[0] = d /\ f[n] = WithParts(d, parts, known)
      /\ \A i \in 1..n : f[i] = WithReads(f[i - 1], parts[i], known)
  BY <1>1, <1>2 DEF ReadSteps
<1> DEFINE T == {i \in Nat : i <= n => Rightly(f[i])}
<1>4. 0 \in T
  BY <1>3
<1>5. ASSUME NEW i \in Nat, i \in T PROVE i + 1 \in T
  <2> SUFFICES ASSUME i + 1 <= n PROVE Rightly(f[i + 1])
    BY <1>5
  <2>1. i + 1 \in 1..n /\ i + 1 - 1 = i /\ i <= n
    OBVIOUS
  <2>2. Rightly(f[i]) /\ Yields(parts[i + 1], 1) /\ Size(parts[i + 1]) # 0
    BY <1>1, <1>5, <2>1
  <2>3. f[i + 1] = WithReads(f[i], parts[i + 1], known)
    BY <1>3, <2>1
  <2>4. PICK g, e, d0 : g = f[i + 1] /\ e = parts[i + 1] /\ d0 = f[i]
    OBVIOUS
  <2>5. Yields(e, 1) /\ Size(e) # 0 /\ Rightly(d0)
    BY <2>2, <2>4
  <2>6. Rightly(WithReads(d0, e, known))
    BY <2>5, ReadsRight
  <2> QED
    BY <2>3, <2>4, <2>6
<1>6. n \in T
  <2> HIDE DEF T
  <2> QED
    BY <1>4, <1>5, Induction
<1> QED
  BY <1>3, <1>6

\* An expression whose reads are declared is declared.
LEMMA DeclaresReads ==
    ASSUME NEW e, Yields(e, 1), NEW d, Rightly(d), Reads(e) \subseteq DOMAIN d
    PROVE  Declares(d, e)
<1>1. \A i \in 1..Len(e) : IsVar(e[i]) => e[i].name \in DOMAIN d
  BY YieldsSequence, NamesRead
<1> QED
  BY <1>1 DEF Declares, DeclaredRight, Rightly

\* An expression of a width has a term of it in every backend.
LEMMA SizedEncodes ==
    ASSUME NEW backend \in Backends, NEW e, Yields(e, 1), Size(e) # 0, NEW d, Declares(d, e), NEW v
    PROVE  OfWidth(Encode(backend, e, d, v), Size(e))
<1> DEFINE T == {e[i] : i \in 1..Len(e)}
<1>1. \A n \in T : DeclaredRight(n, d)
  BY DEF Declares
<1>2. e \in Trees(T)
  <2>1. \A i \in 1..Len(e) : e[i] \in T
    OBVIOUS
  <2> HIDE DEF T
  <2> QED
    BY <2>1, YieldsSequence, TreesAre DEF Nodes
<1> HIDE DEF T
<1> QED
  BY <1>1, <1>2, EncodedTerm

----------------------------------------------------------------------------
(* What encoding a statement does to the encoder.                           *)

\* The state of an encoder.
Encoder(m) == {"declared", "stores", "havoced", "memo", "outcome"} \subseteq DOMAIN m

\* A declaration at the width of the register keeps the declarations right.
LEMMA DeclareKeeps ==
    ASSUME NEW m, Encoder(m), Rightly(m.declared), NEW n, NEW b, b = Width[n[1]],
           NEW q, q = Declare(m, n, b)
    PROVE  /\ Encoder(q) /\ Rightly(q.declared)
           /\ DOMAIN q.declared = DOMAIN m.declared \cup {n}
           /\ q.stores = m.stores /\ q.havoced = m.havoced /\ q.memo = m.memo /\
                 q.outcome = m.outcome
<1>1. CASE n \in DOMAIN m.declared
  <2>1. m.declared[n] = b
    BY <1>1 DEF Rightly
  <2>2. q = [m EXCEPT !.outcome = @ \cup {}]
    BY <1>1, <2>1 DEF Declare
  <2>3. /\ Encoder(q) /\ q.declared = m.declared
        /\ q.stores = m.stores /\ q.havoced = m.havoced /\ q.memo = m.memo
    BY <2>2 DEF Encoder
  <2>4. q.outcome = m.outcome
    BY <2>2 DEF Encoder
  <2> QED
    BY <1>1, <2>3, <2>4
<1>2. CASE n \notin DOMAIN m.declared
  <2>1. q = [m EXCEPT !.declared = [x \in DOMAIN @ \cup {n} |-> IF x = n THEN b ELSE @[x]]]
    BY <1>2 DEF Declare
  <2>2. /\ Encoder(q)
        /\ q.stores = m.stores /\ q.havoced = m.havoced /\ q.memo = m.memo /\ q.outcome = m.outcome
    BY <2>1 DEF Encoder
  <2>3. q.declared = [x \in DOMAIN m.declared \cup {n} |-> IF x = n THEN b ELSE m.declared[x]]
    BY <2>1 DEF Encoder
  <2>4. Rightly(q.declared) /\ DOMAIN q.declared = DOMAIN m.declared \cup {n}
    BY <2>3 DEF Rightly
  <2> QED
    BY <2>2, <2>4
<1> QED
  BY <1>1, <1>2

\* So does a statement that declares its name, or leaves it alone.
LEMMA DeclaredOrNot ==
    ASSUME NEW m, Encoder(m), Rightly(m.declared), NEW s, Widthwise(s),
           NEW q, q = m \/ (Defines(s) /\ q = Declare(m, s.dst, s.bits))
    PROVE  /\ Encoder(q) /\ Rightly(q.declared) /\ DOMAIN m.declared \subseteq DOMAIN q.declared
           /\ q # m => s.dst \in DOMAIN q.declared
           /\ Defines(s) /\ q = Declare(m, s.dst, s.bits) => s.dst \in DOMAIN q.declared
           /\ q.stores = m.stores /\ q.havoced = m.havoced /\ q.memo = m.memo /\
                 q.outcome = m.outcome
<1>1. CASE q = m /\ ~(Defines(s) /\ q = Declare(m, s.dst, s.bits))
  BY <1>1
<1>2. CASE Defines(s) /\ q = Declare(m, s.dst, s.bits)
  <2>1. PICK n, b : n = s.dst /\ b = s.bits
    OBVIOUS
  <2>2. b = Width[n[1]] /\ q = Declare(m, n, b)
    BY <1>2, <2>1 DEF Widthwise
  <2>3. /\ Encoder(q) /\ Rightly(q.declared)
        /\ DOMAIN q.declared = DOMAIN m.declared \cup {n}
        /\ q.stores = m.stores /\ q.havoced = m.havoced /\ q.memo = m.memo /\ q.outcome = m.outcome
    BY <2>2, DeclareKeeps
  <2> QED
    BY <2>1, <2>3
<1> QED
  BY <1>1, <1>2

\* What becomes of the encoder of the terms of a statement.
Concluded(q, after, s, terms, v) ==
    q = CASE s.kind = "assign" -> Asserted(after, s.dst, v, terms[1])
          [] s.kind = "load" -> EncodeLoad(after, s, terms[1].v, v)
          [] s.kind = "store" -> EncodeStore(after, s, terms[1].v, terms[2].v)
          [] OTHER -> after
Rendered(backend, m, s, v, after, terms) ==
    /\ Encoder(after) /\ Rightly(after.declared) /\
         DOMAIN m.declared \subseteq DOMAIN after.declared
    /\ Defines(s) => s.dst \in DOMAIN after.declared
    /\ after.stores = m.stores /\ after.havoced = m.havoced /\ after.memo = m.memo
    /\ after.outcome = m.outcome
    /\ \A i \in Parts(s) : \E d : /\ Declares(d, s.parts[i])
                                  /\ terms[i] = Fit(Encode(backend, s.parts[i], d, v),
                                        PartBits(s, i))

\* The widths at which parts are encoded are numbers.
LEMMA PartBitsNatural ==
    ASSUME NEW s, Shape(s), Widthwise(s)
    PROVE  \A i \in Parts(s) : PartBits(s, i) \in Nat
<1>1. Widest \in Nat /\ \A x \in Registers : Width[x] \in Nat
  BY WidthsAssumption
<1> QED
  BY <1>1 DEF PartBits, Shape, Widthwise, Defines

\* What encoding a statement comes to, when it does not overflow and the text
\* backend has all that it reads.
LEMMA StatementEncodes ==
    ASSUME NEW backend \in Backends, NEW v, NEW s, Shape(s), Widthwise(s),
           NEW m, Encoder(m), Rightly(m.declared),
           backend = "text" => StatementReads(s) \subseteq DOMAIN m.declared,
           ~Overflows(m, s), NEW q, q = EncodeStatement(backend, m, s, v)
    PROVE  \E after, terms : Rendered(backend, m, s, v, after, terms)
             /\ Concluded(q, after, s, terms, v)
<1> DEFINE early == Defines(s) /\ (backend = "text" \/ s.kind = "load")
           before == IF early THEN Declare(m, s.dst, s.bits) ELSE m
           reading == IF backend = "z3" THEN [before EXCEPT !.declared
             = WithParts(@, s.parts, {})] ELSE before
           terms == [i \in DOMAIN s.parts |->
                       Fit(Encode(backend, s.parts[i], reading.declared, v), PartBits(s, i))]
           defined == IF Defines(s) THEN Declare(reading, s.dst, s.bits) ELSE reading
           after == Noted(defined, terms)
<1>1. q = IF \E i \in DOMAIN terms : ~IsTerm(terms[i]) THEN after
          ELSE CASE s.kind = "assign" -> Asserted(after, s.dst, v, terms[1])
                 [] s.kind = "load" -> EncodeLoad(after, s, terms[1].v, v)
                 [] s.kind = "store" -> EncodeStore(after, s, terms[1].v, terms[2].v)
                 [] OTHER -> after
  BY DEF EncodeStatement
<1>2. Defines(s) => s.bits = Width[s.dst[1]]
  BY DEF Widthwise
<1>3. /\ Encoder(before) /\ Rightly(before.declared)
      /\ DOMAIN m.declared \subseteq DOMAIN before.declared
      /\ before.stores = m.stores /\ before.havoced = m.havoced
      /\ before.memo = m.memo /\ before.outcome = m.outcome
  <2>1. before = m \/ (Defines(s) /\ before = Declare(m, s.dst, s.bits))
    OBVIOUS
  <2> HIDE DEF before, reading, terms, defined, after, early
  <2> QED
    BY <2>1, DeclaredOrNot
<1>4. reading = IF backend = "z3" THEN [before EXCEPT !.declared = WithParts(@, s.parts, {})]
        ELSE before
  OBVIOUS
<1> HIDE DEF before, early
<1>5. IsSequence(s.parts) /\ \A i \in DOMAIN s.parts : Yields(s.parts[i], 1) /\ Size(s.parts[i]) # 0
  BY DEF Shape, Widthwise, Parts
<1>6. PICK n \in Nat : n = Len(s.parts) /\ DOMAIN s.parts = 1..n
  BY <1>5, Lengths
<1>7. /\ Encoder(reading) /\ Rightly(reading.declared)
      /\ DOMAIN m.declared \subseteq DOMAIN reading.declared
      /\ reading.stores = m.stores /\ reading.havoced = m.havoced
      /\ reading.memo = m.memo /\ reading.outcome = m.outcome
      /\ \A i \in 1..n : Reads(s.parts[i]) \subseteq DOMAIN reading.declared
  <2>1. CASE backend = "z3"
    <3>1. PICK d : d = WithParts(before.declared, s.parts, {})
      OBVIOUS
    <3>2. Rightly(d)
      BY <1>3, <1>5, <3>1, PartsRight
    <3>3. /\ DOMAIN before.declared \subseteq DOMAIN d
          /\ \A i \in 1..n : Reads(s.parts[i]) \subseteq DOMAIN d
      BY <1>6, <3>1, ReadsAreInputs
    <3>4. /\ Encoder(reading) /\ reading.declared = d
          /\ reading.stores = before.stores /\ reading.havoced = before.havoced
          /\ reading.memo = before.memo /\ reading.outcome = before.outcome
      BY <1>3, <1>4, <2>1, <3>1 DEF Encoder
    <3> QED
      BY <1>3, <3>2, <3>3, <3>4
  <2>2. CASE backend = "text"
    <3>1. reading = before
      BY <1>4, <2>2
    <3>2. \A i \in 1..n : Reads(s.parts[i]) \subseteq DOMAIN m.declared
      BY <1>6, <2>2, PartReads DEF Parts
    <3> QED
      BY <1>3, <3>1, <3>2
  <2> QED
    BY <2>1, <2>2 DEF Backends
<1> HIDE DEF reading
<1>8. /\ DOMAIN terms = 1..n
      /\ \A i \in 1..n : terms[i]
           = Fit(Encode(backend, s.parts[i], reading.declared, v), PartBits(s, i))
  BY <1>6
<1>9. \A i \in 1..n : Declares(reading.declared, s.parts[i])
  BY <1>5, <1>6, <1>7, DeclaresReads
<1>10. after = Noted(defined, terms)
  OBVIOUS
<1> HIDE DEF terms
<1>11. \A i \in 1..n : IsTerm(terms[i])
  <2> SUFFICES ASSUME NEW i \in 1..n PROVE IsTerm(terms[i])
    OBVIOUS
  <2>1. PICK t : t = Encode(backend, s.parts[i], reading.declared, v)
    OBVIOUS
  <2>2. OfWidth(t, Size(s.parts[i]))
    BY <1>5, <1>6, <1>9, <2>1, SizedEncodes
  <2>3. IsTerm(t)
    BY <2>2, TermOfWidth
  <2>4. PartBits(s, i) \in Nat
    BY <1>6, PartBitsNatural DEF Parts
  <2>5. terms[i] = Term(PartBits(s, i), AsBv(t).v % 2 ^ PartBits(s, i))
    BY <1>8, <2>1, <2>3 DEF Fit
  <2> QED
    BY <2>4, <2>5 DEF IsTerm, Term
<1>12. /\ Encoder(defined) /\ Rightly(defined.declared)
       /\ DOMAIN m.declared \subseteq DOMAIN defined.declared
       /\ Defines(s) => s.dst \in DOMAIN defined.declared
       /\ defined.stores = m.stores /\ defined.havoced = m.havoced
       /\ defined.memo = m.memo /\ defined.outcome = m.outcome
  <2>1. PICK r : r = reading
    OBVIOUS
  <2>2. /\ defined = r \/ (Defines(s) /\ defined = Declare(r, s.dst, s.bits))
        /\ Defines(s) => defined = Declare(r, s.dst, s.bits)
    BY <2>1
  <2>3. Encoder(r) /\ Rightly(r.declared)
    BY <1>7, <2>1
  <2> HIDE DEF defined
  <2>4. /\ Encoder(defined) /\ Rightly(defined.declared)
        /\ DOMAIN r.declared \subseteq DOMAIN defined.declared
        /\ Defines(s) /\ defined = Declare(r, s.dst, s.bits) => s.dst \in DOMAIN defined.declared
        /\ defined.stores = r.stores /\ defined.havoced = r.havoced
        /\ defined.memo = r.memo /\ defined.outcome = r.outcome
    BY <2>2, <2>3, DeclaredOrNot
  <2> QED
    BY <1>7, <2>1, <2>2, <2>4
<1> HIDE DEF defined
<1>13. /\ Encoder(after) /\ after.declared = defined.declared
       /\ after.stores = defined.stores /\ after.havoced = defined.havoced
       /\ after.memo = defined.memo /\ after.outcome = defined.outcome
  <2>1. {k \in DOMAIN terms : ~IsTerm(terms[k])} = {}
    BY <1>8, <1>11
  <2>2. after = [defined EXCEPT !.outcome = @ \cup {}]
    BY <1>10, <2>1 DEF Noted
  <2> QED
    BY <1>12, <2>2 DEF Encoder
<1> HIDE DEF after
<1>14. \A i \in Parts(s) : /\ Declares(reading.declared, s.parts[i])
                           /\ terms[i] = Fit(Encode(backend, s.parts[i], reading.declared, v),
                                 PartBits(s, i))
  BY <1>6, <1>8, <1>9 DEF Parts
<1>15. Rendered(backend, m, s, v, after, terms)
  BY <1>12, <1>13, <1>14 DEF Rendered
<1>16. Concluded(q, after, s, terms, v)
  BY <1>1, <1>8, <1>11 DEF Concluded
<1> QED
  BY <1>15, <1>16

----------------------------------------------------------------------------
(* No conflict of widths.                                                   *)

\* The inputs of a slice are declared at the widths of their registers, and
\* they are all that its condition reads and it does not define.
InputsSettled ==
    /\ Rightly(inputs)
    /\ Reads(condition) \subseteq DOMAIN inputs \cup Dsts(statements)

\* The inputs that are recomputed are declared at the widths of their
\* registers.
LEMMA RecomputeInputs ==
    ASSUME Ssa(statements), Recompute, \A k \in DOMAIN statements : Widthwise(statements[k]),
           Yields(condition, 1), Size(condition) # 0
    PROVE  InputsSettled'
<1>1. PICK n \in Nat : n = Len(statements) /\ DOMAIN statements = 1..n
  BY Lengths DEF Ssa
<1> DEFINE at == {k \in DOMAIN statements : Defines(statements[k])}
           defined == Selected(statements, at)
           known == {defined[k].dst : k \in DOMAIN defined}
<1>2. statements' = statements /\ condition' = condition
  BY DEF Recompute
<1>3. \A k \in DOMAIN defined : defined[k].dst \in Dsts(statements)
  <2>1. \A k \in DOMAIN defined : \E j \in DOMAIN statements : j \in at
          /\ defined[k] = statements[j]
    <3> HIDE DEF at
    <3> QED
      BY SelectedElements DEF Ssa
  <2> HIDE DEF defined
  <2> QED
    BY <2>1 DEF Dsts
<1>4. PICK f : InputSteps(known, f)
  BY <1>1, InputsStepByStep
<1> HIDE DEF defined, at
<1>5. known \subseteq Dsts(statements)
  BY <1>3
<1> HIDE DEF known
<1>6. /\ f[0] = [x \in {} |-> 0]
      /\ inputs' = WithReads(f[n], condition, known)
      /\ \A i \in 1..n : f[i] = WithParts(f[i - 1], statements[i].parts, known)
  BY <1>1, <1>4 DEF InputSteps
<1> DEFINE T == {i \in Nat : i <= n => Rightly(f[i])}
<1>7. 0 \in T
  BY <1>6 DEF Rightly
<1>8. ASSUME NEW i \in Nat, i \in T PROVE i + 1 \in T
  <2>1. SUFFICES ASSUME i + 1 <= n PROVE Rightly(f[i + 1])
    BY <1>8
  <2>2. i + 1 \in 1..n /\ i + 1 - 1 = i /\ i <= n
    BY <2>1
  <2>3. PICK s, d : s = statements[i + 1] /\ d = f[i]
    OBVIOUS
  <2>4. Rightly(d) /\ Shape(s) /\ Widthwise(s)
    BY <1>1, <1>8, <2>2, <2>3 DEF Ssa
  <2>5. PICK parts : parts = s.parts
    OBVIOUS
  <2>6. IsSequence(parts) /\ \A j \in DOMAIN parts : Yields(parts[j], 1) /\ Size(parts[j]) # 0
    BY <2>4, <2>5 DEF Shape, Widthwise, Parts
  <2>7. Rightly(WithParts(d, parts, known))
    BY <2>4, <2>6, PartsRight
  <2> QED
    BY <1>6, <2>2, <2>3, <2>5, <2>7
<1>9. n \in T
  <2> HIDE DEF T
  <2> QED
    BY <1>7, <1>8, Induction
<1>10. PICK d, e : d = f[n] /\ e = condition
  OBVIOUS
<1>11. Rightly(d) /\ Yields(e, 1) /\ Size(e) # 0
  BY <1>9, <1>10
<1>12. /\ Rightly(WithReads(d, e, known))
       /\ DOMAIN WithReads(d, e, known) = DOMAIN d \cup (Reads(e) \ known)
  BY <1>11, ReadsRight
<1>13. inputs' = WithReads(d, e, known)
  BY <1>6, <1>10
<1>14. PICK w : w = inputs'
  OBVIOUS
<1>15. Rightly(w) /\ Reads(e) \subseteq DOMAIN w \cup Dsts(statements)
  BY <1>5, <1>12, <1>13, <1>14
<1> QED
  BY <1>2, <1>10, <1>14, <1>15 DEF InputsSettled, Rightly

----------------------------------------------------------------------------
(* A formula, step by step.                                                 *)

\* The answer of an encoder that has come to the end.
Answer(backend, m, v) ==
    LET declared == IF backend = "z3" THEN WithReads(m.declared, condition, {}) ELSE m.declared
        truth == Encode(backend, condition, declared, v)
    IN  [outcome |-> Noted(m, <<truth>>).outcome, condition |-> IsTerm(truth)
      /\ AsBool(truth).v = 1]
EncodeSteps(backend, v, f) ==
    /\ f[0] = Begun(backend)
    /\ Formula(backend, v) = Answer(backend, f[Len(statements)], v)
    /\ \A i \in 1..Len(statements) : f[i] = EncodeStatement(backend, f[i - 1], statements[i], v)

\* A formula is encoded step by step.
LEMMA EncodedStepByStep ==
    ASSUME NEW backend, NEW v, Len(statements) \in Nat
    PROVE  \E f : EncodeSteps(backend, v, f)
<1> DEFINE base == Begun(backend)
           More(q, i) == EncodeStatement(backend, q, statements[i], v)
           Rec(f, m) == f = [i \in 0..m |-> IF i = 0 THEN base ELSE More(f[i - 1], i)]
           S == {m \in Nat : \E f : Rec(f, m)}
           upTo == CHOOSE f : Rec(f, Len(statements))
<1>1. Formula(backend, v) = Answer(backend, upTo[Len(statements)], v)
  BY DEF Formula, Answer
<1> HIDE DEF More, base
<1>2. 0 \in S
  <2> DEFINE g == [i \in 0..0 |-> base]
  <2>1. Rec(g, 0)
    OBVIOUS
  <2> HIDE DEF g
  <2> QED
    BY <2>1
<1>3. ASSUME NEW m \in Nat, m \in S PROVE m + 1 \in S
  <2>1. PICK f : Rec(f, m)
    BY <1>3
  <2> DEFINE g == [i \in 0..(m + 1) |-> IF i <= m THEN f[i] ELSE More(f[m], m + 1)]
  <2>2. Rec(g, m + 1)
    <3>1. ASSUME NEW i \in 0..(m + 1)
          PROVE  g[i] = IF i = 0 THEN base ELSE More(g[i - 1], i)
      <4>1. CASE i = m + 1
        BY <4>1
      <4>2. CASE i # m + 1
        <5>1. i \in 0..m /\ (i # 0 => i - 1 \in 0..m)
          BY <4>2
        <5> QED
          BY <2>1, <5>1
      <4> QED
        BY <4>1, <4>2
    <3> QED
      BY <3>1
  <2> HIDE DEF g
  <2> QED
    BY <2>2
<1>4. Rec(upTo, Len(statements))
  <2> HIDE DEF Rec
  <2>1. Len(statements) \in S
    <3> HIDE DEF S
    <3> QED
      BY <1>2, <1>3, Induction
  <2> QED
    BY <2>1
<1> HIDE DEF upTo
<1>5. /\ upTo[0] = base
      /\ \A i \in 1..Len(statements) : upTo[i] = More(upTo[i - 1], i)
  BY <1>4
<1> QED
  BY <1>1, <1>5 DEF More, base, EncodeSteps

----------------------------------------------------------------------------
(* A statement has no conflict.                                             *)

\* A state of the encoder that declines nothing but what the text cannot say,
\* and above statement k has declared what that one may read.
Uncontested(backend, m, k) ==
    /\ Encoder(m) /\ Rightly(m.declared)
    /\ "illsorted" \notin m.outcome
    /\ "refused" \in m.outcome => backend = "text" /\ Untextual
    /\ backend = "text" => DOMAIN inputs \cup Compared(k) \subseteq DOMAIN m.declared

\* What is concluded of a statement declares nothing, and adds no outcome but
\* false.
LEMMA ConcludedKeeps ==
    ASSUME NEW q, NEW after, NEW s, NEW terms, NEW v, Encoder(after),
             Concluded(q, after, s, terms, v)
    PROVE  /\ Encoder(q) /\ q.declared = after.declared
           /\ q.outcome \subseteq after.outcome \cup {"false"}
<1>1. \A x, t, m : Encoder(m) => LET w == Asserted(m, x, v, t)
                                 IN  /\ Encoder(w) /\ w.declared = m.declared
                                     /\ w.outcome \subseteq m.outcome \cup {"false"}
  BY DEF Asserted, Encoder
<1>2. CASE s.kind = "assign"
  BY <1>1, <1>2 DEF Concluded
<1>3. CASE s.kind = "load"
  <2>1. q = EncodeLoad(after, s, terms[1].v, v)
    BY <1>3 DEF Concluded
  <2>2. PICK value, key : q = Asserted([after EXCEPT !.memo
               = @ \cup {[key |-> key, value |-> value]}], s.dst, v, Term(s.bits, value))
    BY <2>1 DEF EncodeLoad
  <2>3. PICK m : m = [after EXCEPT !.memo = @ \cup {[key |-> key, value |-> value]}]
    OBVIOUS
  <2>4. Encoder(m) /\ m.declared = after.declared /\ m.outcome = after.outcome
    BY <2>3 DEF Encoder
  <2>5. PICK x, t : x = s.dst /\ t = Term(s.bits, value)
    OBVIOUS
  <2>6. q = Asserted(m, x, v, t)
    BY <2>2, <2>3, <2>5
  <2>7. Encoder(q) /\ q.declared = m.declared /\ q.outcome \subseteq m.outcome \cup {"false"}
    BY <2>4, <2>6 DEF Asserted, Encoder
  <2> QED
    BY <2>4, <2>7
<1>4. CASE s.kind = "store"
  <2>1. q = EncodeStore(after, s, terms[1].v, terms[2].v)
    BY <1>4 DEF Concluded
  <2> QED
    BY <2>1 DEF EncodeStore, Encoder
<1>5. CASE s.kind \notin {"assign", "load", "store"}
  BY <1>5 DEF Concluded
<1> QED
  BY <1>2, <1>3, <1>4, <1>5

\* A statement encodes without a conflict of widths.
LEMMA StatementUncontested ==
    ASSUME NEW backend \in Backends, NEW v, Ssa(statements), NamesSettled,
           NEW k \in DOMAIN statements, Widthwise(statements[k]),
           NEW m, Uncontested(backend, m, k),
           NEW q, q = EncodeStatement(backend, m, statements[k], v)
    PROVE  Uncontested(backend, q, k + 1)
<1>1. PICK s : s = statements[k]
  OBVIOUS
<1>2. Shape(s) /\ Widthwise(s)
  BY <1>1 DEF Ssa
<1>3. /\ StatementReads(s) \subseteq Compared(k)
      /\ Compared(k + 1) = Compared(k) \cup (IF Defines(s) THEN {s.dst} ELSE {})
  BY <1>1, ComparedReads
<1>4. CASE Overflows(m, s)
  <2>1. s.kind = "store" /\ ~Defines(s)
    BY <1>4 DEF Overflows, Defines
  <2>2. q = [m EXCEPT !.memo = {}, !.stores = <<>>, !.havoced = TRUE]
    BY <1>1, <1>4 DEF EncodeStatement
  <2>3. Encoder(q) /\ q.declared = m.declared /\ q.outcome = m.outcome
    BY <2>2 DEF Uncontested, Encoder
  <2> QED
    BY <1>3, <2>1, <2>3 DEF Uncontested
<1>5. CASE ~Overflows(m, s)
  <2>1. /\ Encoder(m) /\ Rightly(m.declared)
        /\ backend = "text" => StatementReads(s) \subseteq DOMAIN m.declared
        /\ q = EncodeStatement(backend, m, s, v)
    BY <1>1, <1>3 DEF Uncontested
  <2>2. PICK after, terms : Rendered(backend, m, s, v, after, terms)
               /\ Concluded(q, after, s, terms, v)
    BY <1>2, <1>5, <2>1, StatementEncodes
  <2>3. Encoder(after)
    BY <2>2 DEF Rendered
  <2>4. /\ Encoder(q) /\ q.declared = after.declared
        /\ q.outcome \subseteq after.outcome \cup {"false"}
    BY <2>2, <2>3, ConcludedKeeps
  <2>5. /\ Rightly(after.declared) /\ after.outcome = m.outcome
        /\ DOMAIN m.declared \subseteq DOMAIN after.declared
        /\ Defines(s) => s.dst \in DOMAIN after.declared
    BY <2>2 DEF Rendered
  <2> QED
    BY <1>3, <2>4, <2>5 DEF Uncontested
<1> QED
  BY <1>4, <1>5

\* The condition has a term, and so nothing is declined at the end either.
LEMMA AnswerUncontested ==
    ASSUME NEW backend \in Backends, NEW v, NEW m, Encoder(m), Rightly(m.declared),
           Yields(condition, 1), Size(condition) # 0,
           backend = "text" => Reads(condition) \subseteq DOMAIN m.declared
    PROVE  /\ Answer(backend, m, v).outcome = m.outcome
           /\ \E d : /\ Declares(d, condition)
                     /\ Answer(backend, m, v).condition <=> AsBool(Encode(backend, condition, d,
                           v)).v = 1
<1>1. PICK e, d0 : e = condition /\ d0 = m.declared
  OBVIOUS
<1>2. PICK d : d = IF backend = "z3" THEN WithReads(d0, e, {}) ELSE d0
  OBVIOUS
<1>3. Rightly(d) /\ Reads(e) \subseteq DOMAIN d
  <2>1. Rightly(d0) /\ Yields(e, 1) /\ Size(e) # 0
          /\ (backend = "text" => Reads(e) \subseteq DOMAIN d0)
    BY <1>1
  <2>2. /\ Rightly(WithReads(d0, e, {}))
        /\ DOMAIN WithReads(d0, e, {}) = DOMAIN d0 \cup (Reads(e) \ {})
    BY <2>1, ReadsRight
  <2> QED
    BY <1>2, <2>1, <2>2 DEF Backends
<1>4. Yields(e, 1) /\ Size(e) # 0
  BY <1>1
<1>5. Declares(d, e)
  BY <1>3, <1>4, DeclaresReads
<1>6. PICK t : t = Encode(backend, e, d, v)
  OBVIOUS
<1>7. OfWidth(t, Size(e))
  BY <1>4, <1>5, <1>6, SizedEncodes
<1>8. IsTerm(t)
  BY <1>7, TermOfWidth
<1>9. PICK a : a = Answer(backend, m, v)
  OBVIOUS
<1>10. a = [outcome |-> Noted(m, <<t>>).outcome, condition |-> IsTerm(t) /\ AsBool(t).v = 1]
  BY <1>1, <1>2, <1>6, <1>9 DEF Answer
<1>11. Noted(m, <<t>>).outcome = m.outcome
  <2>1. {k \in DOMAIN <<t>> : ~IsTerm(<<t>>[k])} = {}
    BY <1>8
  <2>2. Noted(m, <<t>>) = [m EXCEPT !.outcome = @ \cup {}]
    BY <2>1 DEF Noted
  <2> QED
    BY <2>2 DEF Encoder
<1>12. a.outcome = m.outcome /\ (a.condition <=> AsBool(t).v = 1)
  BY <1>8, <1>10, <1>11
<1> QED
  BY <1>1, <1>5, <1>6, <1>9, <1>12

\* No formula has a conflict of widths, and the text backend alone refuses
\* one, for what it cannot write.
LEMMA FormulaUncontested ==
    ASSUME NEW backend \in Backends, NEW v, Ssa(statements), NamesSettled, InputsSettled,
           \A k \in DOMAIN statements : Widthwise(statements[k]),
           Yields(condition, 1), Size(condition) # 0
    PROVE  /\ "illsorted" \notin Formula(backend, v).outcome
           /\ "refused" \in Formula(backend, v).outcome => backend = "text" /\ Untextual
<1>1. PICK n \in Nat : n = Len(statements) /\ DOMAIN statements = 1..n
  BY Lengths DEF Ssa
<1>2. PICK f : EncodeSteps(backend, v, f)
  BY <1>1, EncodedStepByStep
<1>3. /\ f[0] = Begun(backend)
      /\ Formula(backend, v) = Answer(backend, f[n], v)
      /\ \A i \in 1..n : f[i] = EncodeStatement(backend, f[i - 1], statements[i], v)
  BY <1>1, <1>2 DEF EncodeSteps
<1> DEFINE T == {i \in Nat : i <= n => Uncontested(backend, f[i], i + 1)}
<1>4. 0 \in T
  <2>1. Compared(0 + 1) \subseteq DOMAIN inputs
    <3>1. \A i \in DOMAIN statements : ~(i < 0 + 1)
      BY <1>1
    <3> QED
      BY <3>1 DEF Compared, Before
  <2>2. PICK b : b = Begun(backend)
    OBVIOUS
  <2>3. /\ Encoder(b) /\ b.declared = (IF backend = "text" THEN inputs ELSE [x \in {} |-> 0])
        /\ b.outcome = (IF backend = "text" /\ Untextual THEN {"refused"} ELSE {})
    BY <2>2 DEF Begun, Encoder
  <2>4. Rightly(b.declared)
    BY <2>3 DEF Rightly, InputsSettled
  <2>5. Uncontested(backend, b, 0 + 1)
    BY <2>1, <2>3, <2>4 DEF Uncontested
  <2> QED
    BY <1>3, <2>2, <2>5
<1>5. ASSUME NEW i \in Nat, i \in T PROVE i + 1 \in T
  <2>1. SUFFICES ASSUME i + 1 <= n PROVE Uncontested(backend, f[i + 1], i + 1 + 1)
    BY <1>5
  <2>2. i + 1 \in 1..n /\ i + 1 - 1 = i /\ i <= n
    BY <2>1
  <2>3. PICK m, q, k : m = f[i] /\ q = f[i + 1] /\ k = i + 1
    OBVIOUS
  <2>4. /\ Uncontested(backend, m, k) /\ k \in DOMAIN statements /\ Widthwise(statements[k])
        /\ q = EncodeStatement(backend, m, statements[k], v)
    BY <1>1, <1>3, <1>5, <2>2, <2>3
  <2>5. Uncontested(backend, q, k + 1)
    BY <2>4, StatementUncontested
  <2> QED
    BY <2>3, <2>5
<1>6. n \in T
  <2> HIDE DEF T
  <2> QED
    BY <1>4, <1>5, Induction
<1>7. PICK m, k : m = f[n] /\ k = n + 1
  OBVIOUS
<1>8. Uncontested(backend, m, k)
  BY <1>6, <1>7
<1>9. Dsts(statements) \subseteq Compared(k)
  <2>1. \A i \in DOMAIN statements : i < k
    BY <1>1, <1>7
  <2> QED
    BY <2>1 DEF Compared, Before, Dsts
<1>10. /\ Encoder(m) /\ Rightly(m.declared)
       /\ backend = "text" => Reads(condition) \subseteq DOMAIN m.declared
  BY <1>8, <1>9 DEF Uncontested, InputsSettled
<1>11. Answer(backend, m, v).outcome = m.outcome
  BY <1>10, AnswerUncontested
<1> QED
  BY <1>3, <1>7, <1>8, <1>11 DEF Uncontested

----------------------------------------------------------------------------
(* The invariant of the widths.                                             *)

\* The slice that is done is declared at the widths of its registers, and
\* what has been encoded, was encoded of that slice.
WidthInv ==
    /\ RunInv
    /\ stage = "done" => InputsSettled
    /\ stage # "done" => formulas = <<>>
    /\ NoWidthConflict
    /\ \A backend \in DOMAIN formulas : "illsorted" \notin formulas[backend].outcome

\* The invariant holds before the first statement.
LEMMA InitWidthInv == RunInit => WidthInv
<1> SUFFICES ASSUME RunInit PROVE WidthInv
  OBVIOUS
<1>1. RunInv /\ stage = "converting" /\ formulas = <<>>
  BY InitRunInv DEF RunInit
<1> QED
  BY <1>1 DEF WidthInv, NoWidthConflict

\* Every step keeps the invariant.
LEMMA NextWidthInv == WidthInv /\ [RunNext]_runVars => WidthInv'
<1> SUFFICES ASSUME WidthInv, [RunNext]_runVars PROVE WidthInv'
  OBVIOUS
<1>1. RunInv /\ RunInv'
  BY NextRunInv DEF WidthInv
<1>2. ASSUME stage # "done", stage' # "done", formulas' = formulas PROVE WidthInv'
  <2>1. formulas' = <<>>
    BY <1>2 DEF WidthInv
  <2> QED
    BY <1>1, <1>2, <2>1 DEF WidthInv, NoWidthConflict
<1>3. ASSUME NEW s \in Statements, Convert(s) PROVE WidthInv'
  BY <1>2, <1>3 DEF Convert, optimiser
<1>4. ASSUME NEW c \in Conditions, Conclude(c) PROVE WidthInv'
  BY <1>2, <1>4 DEF Conclude
<1>5. CASE Pass /\ UNCHANGED <<memory, formulas>>
  <2>1. stage = "optimising" /\ stage' \in {"settled", "optimising"} /\ formulas' = formulas
    BY <1>5 DEF Pass
  <2> QED
    BY <1>2, <2>1
<1>6. CASE Recompute /\ UNCHANGED <<memory, formulas>>
  <2>1. stage \in {"settled", "optimising"} /\ stage' = "done" /\ formulas' = formulas
    BY <1>6 DEF Recompute
  <2>2. formulas' = <<>>
    BY <2>1 DEF WidthInv
  <2>3. /\ Ssa(statements) /\ \A k \in DOMAIN statements : Widthwise(statements[k])
        /\ FittingCondition(condition, DOMAIN val)
    BY <1>1, <2>1, FittingIs DEF RunInv, SliceInv
  <2>4. InputsSettled'
    BY <1>6, <2>3, RecomputeInputs DEF FittingCondition
  <2> QED
    BY <1>1, <2>1, <2>2, <2>4 DEF WidthInv, NoWidthConflict
<1>7. CASE EncodeSlice
  <2>1. /\ stage = "done" /\ stage' = "done"
        /\ formulas' = [backend \in Backends |-> Formula(backend, val)]
        /\ statements' = statements /\ condition' = condition /\ inputs' = inputs
    BY <1>7 DEF EncodeSlice, vars, slice, optimiser
  <2>2. /\ Ssa(statements) /\ NamesSettled /\ InputsSettled
        /\ \A k \in DOMAIN statements : Widthwise(statements[k])
        /\ FittingCondition(condition, DOMAIN val)
    BY <1>1, <2>1, FittingIs DEF RunInv, SliceInv, WidthInv
  <2>3. \A backend \in Backends :
            /\ "illsorted" \notin Formula(backend, val).outcome
            /\ "refused" \in Formula(backend, val).outcome => backend = "text" /\ Untextual
    BY <2>2, FormulaUncontested DEF FittingCondition
  <2>4. Untextual' <=> Untextual
    BY <2>1 DEF Untextual
  <2>5. InputsSettled'
    BY <2>1, <2>2 DEF InputsSettled, Rightly
  <2> QED
    BY <1>1, <2>1, <2>3, <2>4, <2>5 DEF WidthInv, NoWidthConflict
<1>8. CASE UNCHANGED runVars
  <2>1. /\ stage' = stage /\ statements' = statements /\ condition' = condition /\ inputs' = inputs
        /\ formulas' = formulas
    BY <1>8 DEF runVars, vars, slice, optimiser
  <2>2. Untextual' <=> Untextual
    BY <2>1 DEF Untextual
  <2>3. InputsSettled' <=> InputsSettled
    BY <2>1 DEF InputsSettled, Rightly
  <2> QED
    BY <1>1, <2>1, <2>2, <2>3 DEF WidthInv, NoWidthConflict
<1> QED
  BY <1>3, <1>4, <1>5, <1>6, <1>7, <1>8 DEF RunNext

\* Of a slice whose registers the lifter reads at one width, whatever the
\* passes have made of it, Z3 declines nothing, and the text backend nothing
\* but an unknown or a rotation by a register: what encoder.rs calls
\* unreachable is (encoder.rs, smtlib.rs).
THEOREM WidthsNeverConflict == RunSpec => []NoWidthConflict
BY InitWidthInv, NextWidthInv, PTL DEF RunSpec, WidthInv

----------------------------------------------------------------------------
(* The terms of a formula have the values of the machine.                   *)

\* The same of an expression in a formula whose names are declared.
LEMMA SizedTells ==
    ASSUME NEW backend \in Backends, NEW e, Yields(e, 1), Size(e) # 0, NEW D, Declares(D, e),
           NEW names, Closed(e, names), NEW u, \A k \in names : u[k] \in Nat
    PROVE  Tells(backend, Encode(backend, e, D, u), Size(e), Denote(e, u))
<1> DEFINE T == {e[i] : i \in 1..Len(e)}
<1>1. \A n \in T : DeclaredRight(n, D)
  BY DEF Declares
<1>2. \A n \in T : KnownNode(n, names)
  BY YieldsSequence, ClosedNodes
<1>3. e \in Trees(T)
  <2>1. \A i \in 1..Len(e) : e[i] \in T
    OBVIOUS
  <2> HIDE DEF T
  <2> QED
    BY <2>1, YieldsSequence, TreesAre DEF Nodes
<1> HIDE DEF T
<1> QED
  BY <1>1, <1>2, <1>3, EncodedValue

\* An expression at a width is a value of that width.
LEMMA DenotedInWidth ==
    ASSUME NEW e, Yields(e, 1), Size(e) # 0, NEW names, Closed(e, names),
           NEW u, \A k \in names : u[k] \in Nat, NEW b \in Nat
    PROVE  InWidth(DenoteAt(e, u, b), b)
<1>1. PICK z, d : z = Size(e) /\ d = Denote(e, u)
  OBVIOUS
<1>2. Means(e, names, u, z, d) /\ z # 0
  BY <1>1 DEF Means
<1>3. Valued(d, z)
  BY <1>2, SizedIsValued
<1>4. d.v \in Nat
  BY <1>3, InWidthIs DEF Valued
<1> QED
  BY <1>1, <1>4, RemainderInWidth DEF DenoteAt

\* The term of an expression is the value that the machine has for it.
LEMMA TermDenotes ==
    ASSUME NEW backend \in Backends, NEW e, Yields(e, 1), Size(e) # 0, NEW d, Declares(d, e),
           NEW names, Closed(e, names), NEW u, \A k \in names : u[k] \in Nat,
           NEW b \in Nat, NEW t, t = Fit(Encode(backend, e, d, u), b)
    PROVE  t = Term(b, DenoteAt(e, u, b))
<1>1. PICK x, z, c : x = Encode(backend, e, d, u) /\ z = Size(e) /\ c = Denote(e, u)
  OBVIOUS
<1>2. Tells(backend, x, z, c)
  BY <1>1, SizedTells
<1>3. IsTerm(x) /\ AsBv(x).v = c.v
  BY <1>2, TellsIs
<1>4. t = Term(b, AsBv(x).v % 2 ^ b)
  BY <1>1, <1>3 DEF Fit
<1> QED
  BY <1>1, <1>3, <1>4 DEF DenoteAt

\* So are the terms of a statement what the machine saw.
LEMMA TermsSeen ==
    ASSUME NEW backend \in Backends, NEW names, NEW u, \A k \in names : u[k] \in Nat,
           NEW s, Fitting(s, names, u), s.kind \in {"assign", "load", "store"},
           NEW m, NEW after, NEW terms, Rendered(backend, m, s, u, after, terms), NEW i \in Parts(s)
    PROVE  /\ terms[i] = Term(PartBits(s, i), s.seen[i])
           /\ s.seen[i] = DenoteAt(s.parts[i], u, PartBits(s, i))
           /\ PartBits(s, i) \in Nat /\ InWidth(s.seen[i], PartBits(s, i))
<1>1. PICK e, b, t : e = s.parts[i] /\ b = PartBits(s, i) /\ t = terms[i]
  OBVIOUS
<1>2. /\ Shape(s) /\ Widthwise(s) /\ Closed(e, names) /\ s.seen = Denotes(s, u)
      /\ Size(e) # 0
  BY <1>1, FittingIs DEF Fitting
<1>3. Yields(e, 1)
  BY <1>1, <1>2 DEF Shape
<1>4. b \in Nat
  BY <1>1, <1>2, PartBitsNatural
<1>5. PICK d : Declares(d, e) /\ t = Fit(Encode(backend, e, d, u), b)
  BY <1>1 DEF Rendered
<1>6. t = Term(b, DenoteAt(e, u, b))
  BY <1>2, <1>3, <1>4, <1>5, TermDenotes
<1>7. InWidth(DenoteAt(e, u, b), b)
  BY <1>2, <1>3, <1>4, DenotedInWidth
<1>8. s.seen[i] = DenoteAt(e, u, b)
  BY <1>1, <1>2 DEF Denotes, Parts
<1> QED
  BY <1>1, <1>4, <1>6, <1>7, <1>8

----------------------------------------------------------------------------
(* The bytes stored mirror the memory.                                      *)

\* A set of numbers up to n has a greatest one.
LEMMA Greatest ==
    ASSUME NEW n \in Nat, NEW S \in SUBSET (1..n), S # {}
    PROVE  \E m \in S : \A k \in S : k <= m
<1> DEFINE T == {n - k : k \in S}
<1>1. T \in SUBSET Nat /\ T # {}
  <2>1. \A k \in S : n - k \in Nat
    OBVIOUS
  <2>2. \E k : k \in S
    OBVIOUS
  <2> QED
    BY <2>1, <2>2
<1>2. \A k \in S : n - k \in T
  OBVIOUS
<1>3. PICK d \in T : \A t \in T : d <= t
  <2> HIDE DEF T
  <2> QED
    BY <1>1, Least
<1>4. PICK m \in S : d = n - m
  OBVIOUS
<1>5. ASSUME NEW k \in S PROVE k <= m
  <2>1. n - m <= n - k
    BY <1>2, <1>3, <1>4, <1>5
  <2>2. k \in 1..n /\ m \in 1..n
    OBVIOUS
  <2> QED
    BY <2>1, <2>2
<1> QED
  BY <1>5

\* The stores of an encoder hold what the memory mem does: the last byte
\* stored at an address is the byte that is there.
IsLast(stores, k) == \A j \in 1..Len(stores) : stores[j].address = stores[k].address => j <= k
\* The bytes stored are what the memory has: the last one stored at an
\* address is there.
Mirrors(stores, mem) ==
    /\ IsSequence(stores)
    /\ \A k \in 1..Len(stores) :
         /\ stores[k].address \in 0..(2 ^ Widest - 1)
         /\ IsLast(stores, k) => stores[k].byte = mem[stores[k].address]
\* It has lost track, or they do.
Holding(m, mem) == m.havoced \/ Mirrors(m.stores, mem)

\* So a byte is read as what it is, where the symbol it may be is that.
LEMMA ByteFound ==
    ASSUME NEW m, NEW mem, Holding(m, mem), NEW address, NEW free, free = mem[address]
    PROVE  ByteAt(m, address, free) = mem[address]
<1>1. PICK stores : stores = IF m.havoced THEN <<>> ELSE m.stores
  OBVIOUS
<1>2. PICK at : at = {k \in DOMAIN stores : stores[k].address = address}
  OBVIOUS
<1>3. ByteAt(m, address, free)
        = IF at = {} THEN free ELSE stores[CHOOSE k \in at : \A j \in at : j <= k].byte
  BY <1>1, <1>2 DEF ByteAt
<1>4. CASE at = {}
  BY <1>3, <1>4
<1>5. CASE at # {}
  <2>1. Mirrors(stores, mem)
    <3>1. CASE m.havoced
      <4>1. stores = <<>> /\ DOMAIN stores = {}
        BY <1>1, <3>1
      <4> QED
        BY <1>2, <1>5, <4>1
    <3>2. CASE ~m.havoced
      BY <1>1, <3>2 DEF Holding
    <3> QED
      BY <3>1, <3>2
  <2>2. PICK n \in Nat : n = Len(stores) /\ DOMAIN stores = 1..n
    BY <2>1, Lengths DEF Mirrors
  <2>3. at \in SUBSET (1..n)
    BY <1>2, <2>2
  <2>4. \E k \in at : \A j \in at : j <= k
    BY <1>5, <2>3, Greatest
  <2>5. PICK k : k = CHOOSE i \in at : \A j \in at : j <= i
    OBVIOUS
  <2>6. k \in at /\ \A j \in at : j <= k
    BY <2>4, <2>5
  <2>7. k \in 1..n /\ stores[k].address = address
    BY <1>2, <2>2, <2>6
  <2>8. \A j \in 1..n : stores[j].address = address => j <= k
    BY <1>2, <2>2, <2>6
  <2>9. IsLast(stores, k)
    BY <2>2, <2>7, <2>8 DEF IsLast
  <2>10. stores[k].byte = mem[address]
    BY <2>1, <2>2, <2>7, <2>9 DEF Mirrors
  <2> QED
    BY <1>3, <1>5, <2>5, <2>10
<1> QED
  BY <1>4, <1>5

----------------------------------------------------------------------------
(* What a store adds.                                                       *)

\* Bytes that are less than the memory apart are at different addresses.
LEMMA NearMultiple ==
    ASSUME NEW m \in Nat \ {0}, NEW p \in Int, NEW d \in Int, d = m * p, -m < d, d < m
    PROVE  d = 0
<1>1. CASE p >= 1
  <2>1. m * p >= m
    BY <1>1
  <2> QED
    BY <2>1
<1>2. CASE p <= -1
  <2>1. m * p <= -m
    BY <1>2
  <2> QED
    BY <2>1
<1>3. CASE p = 0
  BY <1>3
<1> QED
  BY <1>1, <1>2, <1>3

\* Two numbers with one remainder, and less than the modulus apart, are the
\* same.
LEMMA SameRemainder ==
    ASSUME NEW m \in Nat \ {0}, NEW x \in Int, NEW y \in Int, x % m = y % m, -m < x - y, x - y < m
    PROVE  x = y
<1>1. PICK p \in Int : p = x \div m
  BY Remainder
<1>2. PICK q \in Int : q = y \div m
  BY Remainder
<1>3. PICK r \in 0..(m - 1) : r = x % m
  BY Remainder
<1>4. x = m * p + r
  BY <1>1, <1>3, Remainder
<1>5. y = m * q + r
  BY <1>2, <1>3, Remainder
<1>6. PICK d \in Int : d = x - y
  OBVIOUS
<1>7. d = m * (p - q)
  BY <1>4, <1>5, <1>6
<1>8. PICK t \in Int : t = p - q
  OBVIOUS
<1>9. d = 0
  BY <1>6, <1>7, <1>8, NearMultiple
<1> QED
  BY <1>6, <1>9

\* Offsets of one address are apart, up to the size of the address space.
LEMMA OffsetsApart ==
    ASSUME NEW address \in Int, NEW n \in Nat, n <= 2 ^ Widest, NEW i \in 1..n, NEW j \in 1..n,
           OffsetBy(address, i) = OffsetBy(address, j)
    PROVE  i = j
<1>1. PICK m \in Nat \ {0} : m = 2 ^ Widest
  BY WidthsAssumption, PowerIsCount
<1>2. PICK x \in Int : x = address + i - 1
  OBVIOUS
<1>3. PICK y \in Int : y = address + j - 1
  OBVIOUS
<1>4. x % m = y % m
  BY <1>1, <1>2, <1>3 DEF OffsetBy
<1>5. -m < x - y /\ x - y < m
  BY <1>1, <1>2, <1>3
<1>6. x = y
  BY <1>4, <1>5, SameRemainder
<1> QED
  BY <1>2, <1>3, <1>6

\* The memory after a write.
LEMMA WrittenIs ==
    ASSUME NEW mem, Bytewise(mem), NEW address \in Int, NEW x, NEW b \in Nat,
           NEW n \in Nat, n = Bytes(b), n <= 2 ^ Widest
    PROVE  /\ \A i \in 1..n : Written(mem, address, x, b)[OffsetBy(address, i)] = ByteOf(x, i)
           /\ \A p \in 0..(2 ^ Widest - 1) :
                (\A i \in 1..n : OffsetBy(address, i) # p)
                   => Written(mem, address, x, b)[p] = mem[p]
<1>1. DOMAIN mem = 0..(2 ^ Widest - 1)
  BY DEF Bytewise
<1>2. Written(mem, address, x, b)
        = [p \in DOMAIN mem |->
             IF \E i \in 1..n : OffsetBy(address, i) = p
             THEN ByteOf(x, CHOOSE i \in 1..n : OffsetBy(address, i) = p) ELSE mem[p]]
  BY DEF Written
<1>3. ASSUME NEW i \in 1..n PROVE Written(mem, address, x, b)[OffsetBy(address, i)] = ByteOf(x, i)
  <2>1. PICK p : p = OffsetBy(address, i)
    OBVIOUS
  <2>2. p \in DOMAIN mem
    BY <1>1, <2>1, OffsetIsAddress
  <2>3. PICK j : j = CHOOSE k \in 1..n : OffsetBy(address, k) = p
    OBVIOUS
  <2>4. j \in 1..n /\ OffsetBy(address, j) = p
    BY <2>1, <2>3
  <2>5. j = i
    BY <2>1, <2>4, OffsetsApart
  <2>6. Written(mem, address, x, b)[p] = ByteOf(x, j)
    BY <1>2, <2>1, <2>2, <2>3
  <2> QED
    BY <2>1, <2>5, <2>6
<1>4. \A p \in 0..(2 ^ Widest - 1) :
        (\A i \in 1..n : OffsetBy(address, i) # p) => Written(mem, address, x, b)[p] = mem[p]
  BY <1>1, <1>2
<1> QED
  BY <1>3, <1>4

\* What a store adds to the bytes stored.
StoredBytes(address, x, b) ==
    [i \in 1..Bytes(b) |-> [address |-> OffsetBy(address, i), byte |-> ByteOf(x, i)]]

\* The bytes stored still mirror the memory after a store.
LEMMA StoreMirrors ==
    ASSUME NEW mem, Bytewise(mem), NEW address \in Int, NEW x, NEW b \in Nat,
           Bytes(b) <= 2 ^ Widest, NEW stores, Mirrors(stores, mem)
    PROVE  Mirrors(stores \o StoredBytes(address, x, b), Written(mem, address, x, b))
<1>1. PICK n \in Nat : n = Bytes(b)
  BY BytesNatural
<1>2. PICK more : more = StoredBytes(address, x, b)
  OBVIOUS
<1>3. more = [i \in 1..n |-> [address |-> OffsetBy(address, i), byte |-> ByteOf(x, i)]]
  BY <1>1, <1>2 DEF StoredBytes
<1>4. more = [i \in 1..n |-> more[i]]
  BY <1>3
<1>5. IsSequence(more) /\ Len(more) = n
  BY <1>4, Mapped
<1>6. \A i \in 1..n : more[i].address = OffsetBy(address, i) /\ more[i].byte = ByteOf(x, i)
  BY <1>3
<1>7. IsSequence(stores)
  BY DEF Mirrors
<1>8. PICK l \in Nat : l = Len(stores)
  BY <1>7, Lengths
<1>9. PICK t : t = stores \o more
  OBVIOUS
<1>10. /\ IsSequence(t) /\ Len(t) = l + n
       /\ \A k \in 1..l : t[k] = stores[k]
       /\ \A k \in (l + 1)..(l + n) : t[k] = more[k - l]
  BY <1>5, <1>7, <1>8, <1>9, Concatenated
<1>11. PICK w : w = Written(mem, address, x, b)
  OBVIOUS
<1>12. /\ \A i \in 1..n : w[OffsetBy(address, i)] = ByteOf(x, i)
       /\ \A p \in 0..(2 ^ Widest - 1) :
            (\A i \in 1..n : OffsetBy(address, i) # p) => w[p] = mem[p]
  BY <1>1, <1>11, WrittenIs
<1>13. ASSUME NEW k \in 1..(l + n)
       PROVE  /\ t[k].address \in 0..(2 ^ Widest - 1)
              /\ IsLast(t, k) => t[k].byte = w[t[k].address]
  <2>1. CASE k > l
    <3>1. PICK i \in 1..n : i = k - l
      BY <2>1
    <3>2. t[k] = more[i] /\ t[k].address = OffsetBy(address, i) /\ t[k].byte = ByteOf(x, i)
      BY <1>6, <1>10, <2>1, <3>1
    <3>3. OffsetBy(address, i) \in 0..(2 ^ Widest - 1)
      <4>1. i \in Int
        OBVIOUS
      <4> QED
        BY <4>1, OffsetIsAddress
    <3> QED
      BY <1>12, <3>2, <3>3
  <2>2. CASE k <= l
    <3>1. k \in 1..l /\ t[k] = stores[k]
      BY <1>10, <2>2
    <3>2. PICK p : p = t[k].address
      OBVIOUS
    <3>3. /\ p \in 0..(2 ^ Widest - 1)
          /\ IsLast(stores, k) => stores[k].byte = mem[p]
      BY <1>8, <3>1, <3>2 DEF Mirrors
    <3>4. ASSUME IsLast(t, k) PROVE t[k].byte = w[p]
      <4>1. ASSUME NEW i \in 1..n PROVE OffsetBy(address, i) # p
        <5>1. PICK j : j = l + i
          OBVIOUS
        <5>2. j \in 1..(l + n) /\ j \in (l + 1)..(l + n) /\ j - l = i /\ ~(j <= k)
          BY <2>2, <5>1
        <5>3. t[j].address = OffsetBy(address, i)
          BY <1>6, <1>10, <5>2
        <5> QED
          BY <1>10, <3>2, <3>4, <5>2, <5>3 DEF IsLast
      <4>2. w[p] = mem[p]
        BY <1>12, <3>3, <4>1
      <4>3. IsLast(stores, k)
        <5>1. ASSUME NEW j \in 1..l, stores[j].address = stores[k].address PROVE j <= k
          <6>1. t[j] = stores[j] /\ j \in 1..(l + n)
            BY <1>10
          <6> QED
            BY <1>10, <3>1, <3>4, <5>1, <6>1 DEF IsLast
        <5> QED
          BY <1>8, <5>1 DEF IsLast
      <4> QED
        BY <3>1, <3>3, <4>2, <4>3
    <3> QED
      BY <3>2, <3>3, <3>4
  <2> QED
    BY <1>8, <2>1, <2>2
<1>14. Mirrors(t, w)
  BY <1>10, <1>13 DEF Mirrors
<1> QED
  BY <1>2, <1>9, <1>11, <1>14

----------------------------------------------------------------------------
(* A word is its bytes.                                                     *)

\* A number of bytes g, the lowest first.
Places(s, g, n) ==
    s = [i \in 0..n |-> IF i = 0 THEN 0 ELSE s[i - 1] + 2 ^ (ByteBits * (i - 1)) * g[i]]

\* Every sequence of bytes has its partial sums.
LEMMA PlacesAre ==
    ASSUME NEW n \in Nat, NEW g
    PROVE  \E s : Places(s, g, n)
<1> DEFINE Rec(f, m) == f[0] = 0 /\ \A i \in 1..m : f[i]
             = f[i - 1] + 2 ^ (ByteBits * (i - 1)) * g[i]
           S == {m \in Nat : \E f : Rec(f, m)}
<1>1. 0 \in S
  <2> DEFINE h == [i \in 0..0 |-> 0]
  <2>1. Rec(h, 0)
    OBVIOUS
  <2> HIDE DEF h
  <2> QED
    BY <2>1
<1>2. ASSUME NEW m \in Nat, m \in S PROVE m + 1 \in S
  <2>1. PICK f : Rec(f, m)
    BY <1>2
  <2>2. PICK x : x = f[m] + 2 ^ (ByteBits * m) * g[m + 1]
    OBVIOUS
  <2> DEFINE h == [i \in 0..(m + 1) |-> IF i <= m THEN f[i] ELSE x]
  <2>3. h[m + 1] = x /\ \A i \in 0..m : h[i] = f[i]
    OBVIOUS
  <2> HIDE DEF h
  <2>4. ASSUME NEW i \in 1..(m + 1) PROVE h[i] = h[i - 1] + 2 ^ (ByteBits * (i - 1)) * g[i]
    <3>1. CASE i = m + 1
      <4>1. m \in 0..m /\ i - 1 = m
        BY <3>1
      <4> QED
        BY <2>2, <2>3, <3>1, <4>1
    <3>2. CASE i # m + 1
      <4>1. i \in 1..m /\ i \in 0..m /\ i - 1 \in 0..m
        BY <3>2
      <4> QED
        BY <2>1, <2>3, <4>1
    <3> QED
      BY <3>1, <3>2
  <2>5. Rec(h, m + 1)
    BY <2>1, <2>3, <2>4
  <2> QED
    BY <2>5
<1> HIDE DEF S
<1>3. n \in S
  BY <1>1, <1>2, Induction
<1>4. PICK f : Rec(f, n)
  BY <1>3 DEF S
<1> DEFINE s == [i \in 0..n |-> f[i]]
<1>5. \A i \in 0..n : s[i] = f[i]
  OBVIOUS
<1>6. \A i \in 0..n : s[i] = IF i = 0 THEN 0 ELSE s[i - 1] + 2 ^ (ByteBits * (i - 1)) * g[i]
  <2> SUFFICES ASSUME NEW i \in 0..n
               PROVE  s[i] = IF i = 0 THEN 0 ELSE s[i - 1] + 2 ^ (ByteBits * (i - 1)) * g[i]
    OBVIOUS
  <2> HIDE DEF s
  <2>1. CASE i = 0
    BY <1>4, <1>5, <2>1
  <2>2. CASE i # 0
    <3>1. i \in 1..n /\ i - 1 \in 0..n
      BY <2>2
    <3> QED
      BY <1>4, <1>5, <2>2, <3>1
  <2> QED
    BY <2>1, <2>2
<1>7. s = [i \in 0..n |-> IF i = 0 THEN 0 ELSE s[i - 1] + 2 ^ (ByteBits * (i - 1)) * g[i]]
  <2>1. s = [i \in 0..n |-> s[i]]
    OBVIOUS
  <2> HIDE DEF s
  <2> QED
    BY <1>6, <2>1
<1> QED
  BY <1>7 DEF Places

\* One more byte of the sum.
LEMMA PlacesStep ==
    ASSUME NEW n \in Nat, NEW g, NEW s, Places(s, g, n)
    PROVE  /\ s[0] = 0
           /\ \A k \in 0..(n - 1) : s[k + 1] = s[k] + 2 ^ (ByteBits * k) * g[k + 1]
<1>1. s[0] = 0
  <2>1. 0 \in 0..n
    OBVIOUS
  <2> QED
    BY <2>1 DEF Places
<1>2. ASSUME NEW k \in 0..(n - 1) PROVE s[k + 1] = s[k] + 2 ^ (ByteBits * k) * g[k + 1]
  <2>1. k + 1 \in 0..n /\ k + 1 # 0 /\ k + 1 - 1 = k
    OBVIOUS
  <2>2. PICK j : j = k + 1
    OBVIOUS
  <2>3. s[j] = s[j - 1] + 2 ^ (ByteBits * (j - 1)) * g[j]
    BY <2>1, <2>2 DEF Places
  <2> QED
    BY <2>1, <2>2, <2>3
<1> QED
  BY <1>1, <1>2

\* The same bytes have the same sum.
LEMMA PlacesSame ==
    ASSUME NEW n \in Nat, NEW g, NEW s, Places(s, g, n), NEW h, NEW t, Places(t, h, n),
           \A i \in 1..n : g[i] = h[i]
    PROVE  s[n] = t[n]
<1>1. /\ s[0] = 0 /\ t[0] = 0
      /\ \A k \in 0..(n - 1) : s[k + 1] = s[k] + 2 ^ (ByteBits * k) * g[k + 1]
      /\ \A k \in 0..(n - 1) : t[k + 1] = t[k] + 2 ^ (ByteBits * k) * h[k + 1]
  BY PlacesStep
<1> DEFINE T == {i \in Nat : i <= n => s[i] = t[i]}
<1>2. 0 \in T
  BY <1>1
<1>3. ASSUME NEW i \in Nat, i \in T PROVE i + 1 \in T
  <2> SUFFICES ASSUME i + 1 <= n PROVE s[i + 1] = t[i + 1]
    BY <1>3
  <2>1. i \in 0..(n - 1) /\ i <= n /\ i + 1 \in 1..n
    OBVIOUS
  <2> QED
    BY <1>1, <1>3, <2>1
<1>4. n \in T
  <2> HIDE DEF T
  <2> QED
    BY <1>2, <1>3, Induction
<1> QED
  BY <1>4

----------------------------------------------------------------------------
(* The digits of a sum.                                                     *)

\* What is added above a byte leaves it alone.
LEMMA HigherPlaces ==
    ASSUME NEW q \in Nat \ {0}, NEW m \in Nat \ {0}, NEW x \in Nat, NEW y \in Nat
    PROVE  ((x + q * (m * y)) \div q) % m = (x \div q) % m
<1>1. PICK p \in Int : p = x \div q
  BY Remainder
<1>2. PICK r \in 0..(q - 1) : r = x % q
  BY Remainder
<1>3. x = q * p + r
  BY <1>1, <1>2, Remainder
<1>4. PICK z \in Int : z = p + m * y
  OBVIOUS
<1>5. x + q * (m * y) = q * z + r
  BY <1>3, <1>4
<1>6. (q * z + r) \div q = z
  BY RemainderIs
<1>7. PICK a \in Int : a = p \div m
  BY Remainder
<1>8. PICK c \in 0..(m - 1) : c = p % m
  BY Remainder
<1>9. p = m * a + c
  BY <1>7, <1>8, Remainder
<1>10. PICK e \in Int : e = a + y
  OBVIOUS
<1>11. z = m * e + c
  BY <1>4, <1>9, <1>10
<1>12. (m * e + c) % m = c
  BY RemainderIs
<1> QED
  BY <1>1, <1>5, <1>6, <1>8, <1>11, <1>12

\* The byte on top.
LEMMA TopPlace ==
    ASSUME NEW q \in Nat \ {0}, NEW m \in Nat \ {0}, NEW x \in 0..(q - 1), NEW d \in 0..(m - 1)
    PROVE  ((x + q * d) \div q) % m = d /\ (x + q * d) \in 0..(q * m - 1)
<1>1. PICK z \in Int : z = q * d + x
  OBVIOUS
<1>2. z \div q = d
  BY <1>1, RemainderIs
<1>3. d % m = d
  BY SmallRemainder
<1>4. (d * q + x) \in 0..(m * q - 1)
  BY JoinedValues
<1>5. x + q * d = z /\ d * q + x = z /\ m * q = q * m
  BY <1>1
<1> QED
  BY <1>2, <1>3, <1>4, <1>5

\* Powers of two for whole bytes.
LEMMA BytesPower ==
    ASSUME NEW i \in Nat, NEW j \in Nat
    PROVE  /\ ByteBits * i \in Nat /\ ByteBits * (i + j) \in Nat /\ ByteBits * j \in Nat
           /\ 2 ^ (ByteBits * (i + j)) = 2 ^ (ByteBits * i) * 2 ^ (ByteBits * j)
           /\ 2 ^ (ByteBits * i) \in Nat \ {0}
<1>1. PICK b \in Nat : b = ByteBits
  BY WidthsAssumption
<1>2. PICK x \in Nat : x = b * i
  BY ProductNatural
<1>3. PICK y \in Nat : y = b * j
  BY ProductNatural
<1>4. b * (i + j) = x + y
  BY <1>2, <1>3
<1>5. 2 ^ (x + y) = 2 ^ x * 2 ^ y
  BY PowersMultiply
<1>6. 2 ^ x \in Nat \ {0}
  BY PowerIsCount
<1> QED
  BY <1>1, <1>2, <1>3, <1>4, <1>5, <1>6

\* Bytes add up to a value of their number, and are its digits.
LEMMA PlacesDigits ==
    ASSUME NEW n \in Nat, NEW g, \A i \in 1..n : g[i] \in 0..(2 ^ ByteBits - 1),
           NEW s, Places(s, g, n)
    PROVE  InWidth(s[n], ByteBits * n) /\ \A i \in 1..n : ByteOf(s[n], i) = g[i]
<1>1. /\ s[0] = 0
      /\ \A k \in 0..(n - 1) : s[k + 1] = s[k] + 2 ^ (ByteBits * k) * g[k + 1]
  BY PlacesStep
<1>2. PICK m \in Nat \ {0} : m = 2 ^ ByteBits
  BY WidthsAssumption, PowerIsCount
<1> DEFINE T == {k \in Nat : k <= n => /\ InWidth(s[k], ByteBits * k)
                                       /\ \A i \in 1..k : ByteOf(s[k], i) = g[i]}
<1>3. 0 \in T
  <2>1. ByteBits * 0 = 0
    BY WidthsAssumption
  <2>2. InWidth(0, 0)
    BY AllOnesInWidth
  <2> QED
    BY <1>1, <2>1, <2>2
<1>4. ASSUME NEW k \in Nat, k \in T PROVE k + 1 \in T
  <2> SUFFICES ASSUME k + 1 <= n
               PROVE  /\ InWidth(s[k + 1], ByteBits * (k + 1))
                      /\ \A i \in 1..(k + 1) : ByteOf(s[k + 1], i) = g[i]
    BY <1>4
  <2>1. k \in 0..(n - 1) /\ k <= n /\ k + 1 \in 1..n
    OBVIOUS
  <2>2. PICK q \in Nat \ {0} : q = 2 ^ (ByteBits * k)
    BY BytesPower
  <2>3. PICK x : x = s[k]
    OBVIOUS
  <2>4. x \in 0..(q - 1) /\ \A i \in 1..k : ByteOf(x, i) = g[i]
    BY <1>4, <2>1, <2>2, <2>3 DEF InWidth
  <2>5. PICK d \in 0..(m - 1) : d = g[k + 1]
    BY <1>2, <2>1
  <2>6. s[k + 1] = x + q * d
    BY <1>1, <2>1, <2>2, <2>3, <2>5
  <2>7. PICK y : y = x + q * d
    OBVIOUS
  <2>8. (y \div q) % m = d /\ y \in 0..(q * m - 1)
    BY <2>4, <2>7, TopPlace
  <2>9. 2 ^ (ByteBits * (k + 1)) = q * m
    <3>1. ByteBits * 1 = ByteBits
      BY WidthsAssumption
    <3> QED
      BY <1>2, <2>2, <3>1, BytesPower
  <2>10. InWidth(y, ByteBits * (k + 1))
    BY <2>8, <2>9 DEF InWidth
  <2>11. ASSUME NEW i \in 1..(k + 1) PROVE ByteOf(y, i) = g[i]
    <3>1. CASE i = k + 1
      <4>1. i - 1 = k
        BY <3>1
      <4>2. ByteOf(y, i) = (y \div q) % m
        BY <1>2, <2>2, <4>1 DEF ByteOf
      <4> QED
        BY <2>5, <2>8, <3>1, <4>2
    <3>2. CASE i # k + 1
      <4>1. i \in 1..k /\ i - 1 \in Nat
        BY <3>2
      <4>2. PICK h, j \in Nat : h = i - 1 /\ j = k - i /\ h + (1 + j) = k
        BY <4>1
      <4>3. PICK p \in Nat \ {0} : p = 2 ^ (ByteBits * h)
        BY BytesPower
      <4>4. PICK r \in Nat \ {0} : r = 2 ^ (ByteBits * j)
        BY BytesPower
      <4>5. 2 ^ (ByteBits * (1 + j)) = m * r
        <5>1. ByteBits * 1 = ByteBits
          BY WidthsAssumption
        <5>2. 1 \in Nat
          OBVIOUS
        <5>3. 2 ^ (ByteBits * (1 + j)) = 2 ^ (ByteBits * 1) * 2 ^ (ByteBits * j)
          BY <5>2, BytesPower
        <5> QED
          BY <1>2, <4>4, <5>1, <5>3
      <4>6. q = p * (m * r)
        <5>1. 1 + j \in Nat
          OBVIOUS
        <5>2. 2 ^ (ByteBits * (h + (1 + j))) = 2 ^ (ByteBits * h) * 2 ^ (ByteBits * (1 + j))
          BY <5>1, BytesPower
        <5> QED
          BY <2>2, <4>2, <4>3, <4>5, <5>2
      <4>7. PICK z \in Nat : z = r * d
        BY ProductNatural
      <4>8. q * d = p * (m * z)
        BY <4>6, <4>7
      <4>9. ((x + p * (m * z)) \div p) % m = (x \div p) % m
        <5>1. x \in Nat
          BY <2>4
        <5> QED
          BY <5>1, HigherPlaces, ZenonT(60)
      <4>10. ByteOf(y, i) = (y \div p) % m /\ ByteOf(x, i) = (x \div p) % m
        BY <1>2, <4>2, <4>3 DEF ByteOf
      <4> QED
        BY <2>4, <2>7, <4>1, <4>8, <4>9, <4>10
    <3> QED
      BY <3>1, <3>2
  <2> QED
    BY <2>6, <2>7, <2>10, <2>11
<1>5. n \in T
  <2> HIDE DEF T
  <2> QED
    BY <1>3, <1>4, Induction
<1> QED
  BY <1>5

\* A word is the bytes that it is read from, and no wider than it is read.
LEMMA WordPlaces ==
    ASSUME NEW mem, Bytewise(mem), NEW address \in Int, NEW b \in Nat, NEW n \in Nat, n = Bytes(b)
    PROVE  \E s, g : /\ Places(s, g, n) /\ Word(mem, address, b) = s[n]
                     /\ \A i \in 1..n : /\ g[i] = mem[OffsetBy(address, i)]
                                        /\ g[i] \in 0..(2 ^ ByteBits - 1)
<1> DEFINE g == [i \in 1..n |-> mem[OffsetBy(address, i)]]
<1>1. \A i \in 1..n : g[i] = mem[OffsetBy(address, i)]
  OBVIOUS
<1> HIDE DEF g
<1>2. \A s : Places(s, g, n) <=>
              s = [i \in 0..n |-> IF i = 0 THEN 0
                                  ELSE s[i - 1] + 2 ^ (ByteBits * (i - 1))
                                     * mem[OffsetBy(address, i)]]
  <2> SUFFICES ASSUME NEW s
               PROVE [i \in 0..n |-> IF i = 0 THEN 0
                                     ELSE s[i - 1] + 2 ^ (ByteBits * (i - 1))
                                        * mem[OffsetBy(address, i)]]
                     = [i \in 0..n |-> IF i = 0 THEN 0
                        ELSE s[i - 1] + 2 ^ (ByteBits * (i - 1)) * g[i]]
    BY DEF Places
  <2>1. ASSUME NEW i \in 0..n, i # 0 PROVE g[i] = mem[OffsetBy(address, i)]
    BY <1>1, <2>1
  <2> QED
    BY <2>1
<1>3. Word(mem, address, b)
        = (CHOOSE s : s = [i \in 0..n |-> IF i = 0 THEN 0
                             ELSE s[i - 1] + 2 ^ (ByteBits * (i - 1))
                                * mem[OffsetBy(address, i)]])[n]
  BY DEF Word
<1>4. PICK s : s = CHOOSE other : other = [i \in 0..n |-> IF i = 0 THEN 0
                       ELSE other[i - 1] + 2 ^ (ByteBits * (i - 1)) * mem[OffsetBy(address, i)]]
  OBVIOUS
<1>5. Places(s, g, n)
  BY <1>2, <1>4, PlacesAre
<1>6. ASSUME NEW i \in 1..n PROVE g[i] \in 0..(2 ^ ByteBits - 1)
  <2>1. i \in Int
    OBVIOUS
  <2>2. OffsetBy(address, i) \in 0..(2 ^ Widest - 1)
    BY <2>1, OffsetIsAddress
  <2> QED
    BY <1>1, <2>2 DEF Bytewise
<1> QED
  BY <1>1, <1>3, <1>4, <1>5, <1>6

\* The whole bytes of a width are no wider than it.
LEMMA BytesFit ==
    ASSUME NEW b \in Nat
    PROVE  Bytes(b) \in Nat /\ ByteBits * Bytes(b) \in Nat /\ ByteBits * Bytes(b) <= b
<1>1. PICK m \in Nat \ {0} : m = ByteBits
  BY WidthsAssumption
<1>2. PICK n \in Nat : n = Bytes(b)
  BY BytesNatural
<1>3. n = b \div m
  BY <1>1, <1>2 DEF Bytes
<1>4. PICK r \in 0..(m - 1) : r = b % m
  BY Remainder
<1>5. b = m * n + r
  BY <1>3, <1>4, Remainder
<1>6. m * n \in Nat
  BY ProductNatural
<1> QED
  BY <1>1, <1>2, <1>5, <1>6

\* A word is of its width, and its digits are the bytes in memory.
LEMMA WordDigits ==
    ASSUME NEW mem, Bytewise(mem), NEW address \in Int, NEW b \in Nat
    PROVE  /\ InWidth(Word(mem, address, b), b)
           /\ \A i \in 1..Bytes(b) : ByteOf(Word(mem, address, b), i) = mem[OffsetBy(address, i)]
<1>1. PICK n \in Nat : n = Bytes(b)
  BY BytesNatural
<1>2. PICK s, g : /\ Places(s, g, n) /\ Word(mem, address, b) = s[n]
                  /\ \A i \in 1..n : /\ g[i] = mem[OffsetBy(address, i)]
                                     /\ g[i] \in 0..(2 ^ ByteBits - 1)
  BY <1>1, WordPlaces
<1>3. InWidth(s[n], ByteBits * n) /\ \A i \in 1..n : ByteOf(s[n], i) = g[i]
  BY <1>2, PlacesDigits
<1>4. PICK k \in Nat : k = ByteBits * n /\ k <= b
  BY <1>1, BytesFit
<1>5. PICK w : w = s[n]
  OBVIOUS
<1>6. InWidth(w, k)
  BY <1>3, <1>4, <1>5
<1>7. InWidth(w, b)
  BY <1>4, <1>6, WiderStill
<1> QED
  BY <1>1, <1>2, <1>3, <1>5, <1>7

----------------------------------------------------------------------------
(* What a load reads.                                                       *)

\* What an encoder makes of a load it does not remember.
Loaded(m, s, address, v) ==
    LET sum[i \in 0..Bytes(s.bits)] ==
            IF i = 0 THEN 0
            ELSE sum[i - 1] + 2 ^ (ByteBits * (i - 1)) * ByteAt(m, OffsetBy(address, i),
              ByteOf(v[s.dst], i))
    IN  sum[Bytes(s.bits)]

\* What a load reads is the sum of the bytes at its address, those of its own
\* value where nothing was stored.
LEMMA LoadedPlaces ==
    ASSUME NEW m, NEW s, NEW address, NEW v, NEW n \in Nat, n = Bytes(s.bits)
    PROVE  \E t, h : /\ Places(t, h, n) /\ Loaded(m, s, address, v) = t[n]
                     /\ \A i \in 1..n : h[i] = ByteAt(m, OffsetBy(address, i), ByteOf(v[s.dst], i))
<1> DEFINE At(i) == ByteAt(m, OffsetBy(address, i), ByteOf(v[s.dst], i))
           h == [i \in 1..n |-> At(i)]
<1>1. Loaded(m, s, address, v)
        = (CHOOSE t : t = [i \in 0..n |-> IF i = 0 THEN 0
                             ELSE t[i - 1] + 2 ^ (ByteBits * (i - 1)) * At(i)])[n]
  BY DEF Loaded
<1> HIDE DEF At
<1>2. \A i \in 1..n : h[i] = At(i)
  OBVIOUS
<1> HIDE DEF h
<1>3. \A t : Places(t, h, n) <=>
              t = [i \in 0..n |-> IF i = 0 THEN 0 ELSE t[i - 1] + 2 ^ (ByteBits * (i - 1)) * At(i)]
  <2> SUFFICES ASSUME NEW t
               PROVE [i \in 0..n |-> IF i = 0 THEN 0
                        ELSE t[i - 1] + 2 ^ (ByteBits * (i - 1)) * At(i)]
                     = [i \in 0..n |-> IF i = 0 THEN 0
                        ELSE t[i - 1] + 2 ^ (ByteBits * (i - 1)) * h[i]]
    BY DEF Places
  <2>1. ASSUME NEW i \in 0..n, i # 0 PROVE h[i] = At(i)
    BY <1>2, <2>1
  <2> QED
    BY <2>1
<1>4. PICK t : t = CHOOSE other : other = [i \in 0..n |-> IF i = 0 THEN 0
                       ELSE other[i - 1] + 2 ^ (ByteBits * (i - 1)) * At(i)]
  OBVIOUS
<1>5. Places(t, h, n)
  BY <1>3, <1>4, PlacesAre
<1> QED
  BY <1>1, <1>2, <1>4, <1>5 DEF At

\* It is the word that the machine loaded.
LEMMA LoadedIsWord ==
    ASSUME NEW mem, Bytewise(mem), NEW m, Holding(m, mem), NEW s, s.bits \in Nat,
           NEW address \in Int, NEW v, v[s.dst] = Word(mem, address, s.bits)
    PROVE  Loaded(m, s, address, v) = Word(mem, address, s.bits)
<1>1. PICK b \in Nat : b = s.bits
  OBVIOUS
<1>2. PICK n \in Nat : n = Bytes(b)
  BY BytesNatural
<1>3. PICK f, g : /\ Places(f, g, n) /\ Word(mem, address, b) = f[n]
                  /\ \A i \in 1..n : /\ g[i] = mem[OffsetBy(address, i)]
                                     /\ g[i] \in 0..(2 ^ ByteBits - 1)
  BY <1>2, WordPlaces
<1>4. PICK t, h : /\ Places(t, h, n) /\ Loaded(m, s, address, v) = t[n]
                  /\ \A i \in 1..n : h[i] = ByteAt(m, OffsetBy(address, i), ByteOf(v[s.dst], i))
  BY <1>1, <1>2, LoadedPlaces
<1>5. ASSUME NEW i \in 1..n PROVE h[i] = g[i]
  <2>1. PICK p, free : p = OffsetBy(address, i) /\ free = ByteOf(v[s.dst], i)
    OBVIOUS
  <2>2. free = mem[p]
    BY <1>1, <1>2, <2>1, WordDigits
  <2>3. ByteAt(m, p, free) = mem[p]
    BY <2>2, ByteFound
  <2> QED
    BY <1>3, <1>4, <2>1, <2>3
<1>6. f[n] = t[n]
  BY <1>3, <1>4, <1>5, PlacesSame
<1> QED
  BY <1>1, <1>3, <1>4, <1>6

----------------------------------------------------------------------------
(* Addresses that are displayed alike.                                      *)

\* Two addresses that are displayed alike are the same, where all is known:
\* a register is read at one width, and so its name tells the node.
LEMMA DisplayedAlike ==
    ASSUME NEW e, Yields(e, 1), Size(e) # 0, ~ContainsUnknown(e),
           NEW f, Yields(f, 1), Size(f) # 0, ~ContainsUnknown(f),
           Displayed(e) = Displayed(f), NEW u
    PROVE  Ground(e, u) = Ground(f, u)
<1>1. IsSequence(e) /\ IsSequence(f)
  BY DEF Yields
<1>2. PICK n \in Nat : n = Len(e) /\ DOMAIN e = 1..n
  BY <1>1, Lengths
<1>3. DOMAIN Displayed(e) = DOMAIN e /\ DOMAIN Displayed(f) = DOMAIN f
  BY DEF Displayed
<1>4. DOMAIN f = 1..n
  BY <1>2, <1>3
<1>5. Len(f) = n
  <2>1. PICK k \in Nat : k = Len(f) /\ DOMAIN f = 1..k
    BY <1>1, Lengths
  <2>2. 1..k = 1..n
    BY <1>4, <2>1
  <2> QED
    BY <2>1, <2>2
<1>6. ASSUME NEW g \in {e, f}, NEW i \in 1..n
      PROVE  /\ g[i].op # "unknown"
             /\ IsVar(g[i]) => g[i].bits = Width[g[i].name[1]]
                               /\ Displayed(g)[i] = [op |-> "var", name |-> g[i].name]
             /\ ~IsVar(g[i]) => Displayed(g)[i] = g[i]
  <2>1. g[i].op # "unknown"
    BY <1>2, <1>4 DEF ContainsUnknown
  <2>2. i \in DOMAIN g /\ Shown(g)[i] = g[i]
    BY <1>2, <1>4, <2>1 DEF Shown
  <2>3. Displayed(g)[i] = IF IsVar(g[i]) THEN [op |-> "var", name |-> g[i].name] ELSE g[i]
    BY <2>2 DEF Displayed
  <2>4. ASSUME IsVar(g[i]) PROVE g[i].bits = Width[g[i].name[1]]
    <3>1. PICK node : node = g[i]
      OBVIOUS
    <3>2. Arity(node) = 0 /\ node.op = "var"
      BY <2>4, <3>1 DEF Arity, Leaves, IsVar
    <3>3. NodeSize(node, <<>>) # 0
      BY <1>2, <1>5, <3>1, <3>2, SizedLeaves
    <3> QED
      BY <3>1, <3>2, <3>3, LeafSize
  <2> QED
    BY <2>1, <2>3, <2>4
<1>7. ASSUME NEW i \in 1..n PROVE Grounded(e[i], u) = Grounded(f[i], u)
  <2>1. PICK a, b : a = e[i] /\ b = f[i]
    OBVIOUS
  <2>2. Displayed(e)[i] = Displayed(f)[i]
    OBVIOUS
  <2>3. CASE IsVar(a) /\ IsVar(b)
    <3>1. [op |-> "var", name |-> a.name] = [op |-> "var", name |-> b.name]
      BY <1>6, <2>1, <2>2, <2>3
    <3>2. a.name = b.name
      BY <3>1
    <3>3. a.bits = b.bits
      <4>1. a.bits = Width[a.name[1]]
        BY <1>6, <2>1, <2>3
      <4>2. b.bits = Width[b.name[1]]
        BY <1>6, <2>1, <2>3
      <4> QED
        BY <3>2, <4>1, <4>2
    <3> QED
      BY <2>1, <2>3, <3>2, <3>3 DEF Grounded
  <2>4. CASE ~IsVar(a) /\ ~IsVar(b)
    <3>1. a = b
      BY <1>6, <2>1, <2>2, <2>4
    <3> QED
      BY <2>1, <3>1
  <2>5. CASE IsVar(a) /\ ~IsVar(b)
    <3>1. b = [op |-> "var", name |-> a.name]
      BY <1>6, <2>1, <2>2, <2>5
    <3> QED
      BY <2>5, <3>1 DEF IsVar
  <2>6. CASE ~IsVar(a) /\ IsVar(b)
    <3>1. a = [op |-> "var", name |-> b.name]
      BY <1>6, <2>1, <2>2, <2>6
    <3> QED
      BY <2>6, <3>1 DEF IsVar
  <2> QED
    BY <2>3, <2>4, <2>5, <2>6
<1>8. /\ IsSequence(Ground(e, u)) /\ Len(Ground(e, u)) = n
      /\ \A i \in 1..n : Ground(e, u)[i] = Grounded(e[i], u)
  BY <1>1, <1>2, GroundIs
<1>9. /\ IsSequence(Ground(f, u)) /\ Len(Ground(f, u)) = n
      /\ \A i \in 1..n : Ground(f, u)[i] = Grounded(f[i], u)
  BY <1>1, <1>5, GroundIs
<1>10. \A i \in 1..n : Ground(e, u)[i] = Ground(f, u)[i]
  BY <1>7, <1>8, <1>9
<1> QED
  BY <1>8, <1>9, <1>10, SameSequence

----------------------------------------------------------------------------
(* What the encoder asserts is so.                                          *)

\* The loads remembered are what the memory holds: of an address that is
\* known, as it is displayed, the word that is there.
Recalled(r, mem, names, u) ==
    \E e, b : /\ Yields(e, 1) /\ Size(e) # 0 /\ Closed(e, names) /\ ~ContainsUnknown(e)
              /\ r.key = <<Displayed(e), b>>
              /\ r.value = Word(mem, DenoteAt(e, u, Widest), b)
\* The encoder holds nothing that is not so.
Truthful(m, mem, names, u) ==
    /\ Encoder(m) /\ "false" \notin m.outcome
    /\ Holding(m, mem)
    /\ \A r \in m.memo : Recalled(r, mem, names, u)

\* Asserting what is true changes no outcome.
LEMMA Asserts ==
    ASSUME NEW m, Encoder(m), NEW x, NEW u, NEW t, u[x] % 2 ^ t.w = t.v, NEW q,
             q = Asserted(m, x, u, t)
    PROVE  /\ Encoder(q) /\ q.outcome = m.outcome
           /\ q.stores = m.stores /\ q.havoced = m.havoced /\ q.memo = m.memo
<1>1. q = [m EXCEPT !.outcome = @ \cup {}]
  BY DEF Asserted
<1> QED
  BY <1>1 DEF Encoder

\* What an assignment asserts is what the machine did.
LEMMA AssignTruthful ==
    ASSUME NEW m, NEW mem, NEW names, NEW u, Truthful(m, mem, names, u),
           NEW x, NEW b \in Nat, NEW y, InWidth(y, b), u[x] = y,
           NEW q, q = Asserted(m, x, u, Term(b, y))
    PROVE  Truthful(q, mem, names, u)
<1>1. PICK t : t = Term(b, y)
  OBVIOUS
<1>2. t.w = b /\ t.v = y
  BY <1>1 DEF Term
<1>3. y % 2 ^ b = y
  BY WithinItsWidth
<1>4. u[x] % 2 ^ t.w = t.v
  BY <1>2, <1>3
<1>5. Encoder(m) /\ q = Asserted(m, x, u, t)
  BY <1>1 DEF Truthful
<1>6. /\ Encoder(q) /\ q.outcome = m.outcome
      /\ q.stores = m.stores /\ q.havoced = m.havoced /\ q.memo = m.memo
  BY <1>4, <1>5, Asserts
<1> QED
  BY <1>6 DEF Truthful, Holding

\* A load remembered is the word that is loaded again.
LEMMA RecalledIsWord ==
    ASSUME NEW mem, NEW names, NEW u, NEW r, Recalled(r, mem, names, u),
           NEW e, Yields(e, 1), Size(e) # 0, ~ContainsUnknown(e), NEW b, r.key = <<Displayed(e), b>>
    PROVE  r.value = Word(mem, DenoteAt(e, u, Widest), b)
<1>1. PICK f, c : /\ Yields(f, 1) /\ Size(f) # 0 /\ ~ContainsUnknown(f)
                  /\ r.key = <<Displayed(f), c>>
                  /\ r.value = Word(mem, DenoteAt(f, u, Widest), c)
  BY DEF Recalled
<1>2. PICK x, y : x = Displayed(e) /\ y = Displayed(f)
  OBVIOUS
<1>3. <<x, b>> = <<y, c>>
  BY <1>1, <1>2
<1>4. x = y /\ b = c
  BY <1>3
<1>5. Displayed(f) = Displayed(e)
  BY <1>2, <1>4
<1>6. Ground(f, u) = Ground(e, u)
  BY <1>1, <1>5, DisplayedAlike
<1>7. DenoteAt(f, u, Widest) = DenoteAt(e, u, Widest)
  BY <1>6 DEF DenoteAt, Denote
<1> QED
  BY <1>1, <1>4, <1>7

\* Encoding a load remembers its value, or takes what is remembered under the
\* same key.
LEMMA EncodeLoadIs ==
    ASSUME NEW m, NEW s, NEW address, NEW v
    PROVE  LET key == <<Displayed(s.parts[1]), s.bits>>
               known == {r \in m.memo : r.key = key}
               value == IF known = {} THEN Loaded(m, s, address, v)
                  ELSE (CHOOSE r \in known : TRUE).value
           IN  EncodeLoad(m, s, address, v)
                 = Asserted([m EXCEPT !.memo = @ \cup {[key |-> key, value |-> value]}],
                            s.dst, v, Term(s.bits, value))
BY DEF EncodeLoad, Loaded

\* A load asserts what the machine loaded, and remembers it.
LEMMA LoadTruthful ==
    ASSUME NEW mem, Bytewise(mem), NEW names, NEW u, NEW m, Truthful(m, mem, names, u),
           NEW s, NEW e, s.parts[1] = e, Yields(e, 1), Size(e) # 0, Closed(e, names),
             ~ContainsUnknown(e),
           s.bits \in Nat, NEW address \in Nat, address = DenoteAt(e, u, Widest),
           u[s.dst] = Word(mem, address, s.bits),
           NEW q, q = EncodeLoad(m, s, address, u)
    PROVE  Truthful(q, mem, names, u)
<1>1. PICK key : key = <<Displayed(s.parts[1]), s.bits>>
  OBVIOUS
<1>2. PICK known : known = {r \in m.memo : r.key = key}
  OBVIOUS
<1>3. PICK value : value = IF known = {} THEN Loaded(m, s, address, u)
             ELSE (CHOOSE r \in known : TRUE).value
  OBVIOUS
<1>4. PICK w : w = [m EXCEPT !.memo = @ \cup {[key |-> key, value |-> value]}]
  OBVIOUS
<1>5. PICK b \in Nat : b = s.bits
  OBVIOUS
<1>6. q = Asserted(w, s.dst, u, Term(b, value))
  <2>1. EncodeLoad(m, s, address, u) = Asserted(w, s.dst, u, Term(s.bits, value))
    BY <1>1, <1>2, <1>3, <1>4, EncodeLoadIs
  <2> QED
    BY <1>5, <2>1
<1>7. key = <<Displayed(e), b>>
  BY <1>1, <1>5
<1>8. value = Word(mem, address, b)
  <2>1. CASE known = {}
    <3>1. Holding(m, mem)
      BY DEF Truthful
    <3>2. address \in Int
      OBVIOUS
    <3>3. Loaded(m, s, address, u) = Word(mem, address, s.bits)
      BY <3>1, <3>2, LoadedIsWord
    <3> QED
      BY <1>3, <1>5, <2>1, <3>3
  <2>2. CASE known # {}
    <3>1. PICK r : r = CHOOSE x \in known : TRUE
      OBVIOUS
    <3>2. r \in known
      BY <2>2, <3>1
    <3>3. r \in m.memo /\ r.key = <<Displayed(e), b>>
      BY <1>2, <1>7, <3>2
    <3>4. Recalled(r, mem, names, u)
      BY <3>3 DEF Truthful
    <3>5. r.value = Word(mem, DenoteAt(e, u, Widest), b)
      BY <3>3, <3>4, RecalledIsWord
    <3> QED
      BY <1>3, <2>2, <3>1, <3>5
  <2> QED
    BY <2>1, <2>2
<1>9. /\ Encoder(w) /\ w.outcome = m.outcome /\ w.stores = m.stores /\ w.havoced = m.havoced
      /\ w.memo = m.memo \cup {[key |-> key, value |-> value]}
  BY <1>4 DEF Truthful, Encoder
<1>10. Truthful(w, mem, names, u)
  <2>1. PICK r : r = [key |-> key, value |-> value]
    OBVIOUS
  <2>2. r.key = <<Displayed(e), b>> /\ r.value = Word(mem, DenoteAt(e, u, Widest), b)
    BY <1>7, <1>8, <2>1
  <2>3. Recalled(r, mem, names, u)
    BY <2>2 DEF Recalled
  <2>4. \A x \in w.memo : Recalled(x, mem, names, u)
    BY <1>9, <2>1, <2>3 DEF Truthful
  <2> QED
    BY <1>9, <2>4 DEF Truthful, Holding
<1>11. PICK y : y = value
  OBVIOUS
<1>12. InWidth(y, b) /\ u[s.dst] = y
  <2>1. address \in Int
    OBVIOUS
  <2>2. InWidth(Word(mem, address, b), b)
    BY <2>1, WordDigits
  <2> QED
    BY <1>5, <1>8, <1>11, <2>2
<1>13. PICK x : x = s.dst
  OBVIOUS
<1>14. q = Asserted(w, x, u, Term(b, y)) /\ u[x] = y
  BY <1>6, <1>11, <1>12, <1>13
<1> QED
  BY <1>10, <1>12, <1>14, AssignTruthful

\* A store changes what it stores, and nothing is remembered.
LEMMA StoreTruthful ==
    ASSUME NEW mem, Bytewise(mem), NEW names, NEW u, NEW m, Truthful(m, mem, names, u),
           NEW s, s.bits \in Nat, Bytes(s.bits) <= 2 ^ Widest, NEW address \in Nat, NEW x,
           NEW q, q = EncodeStore(m, s, address, x)
    PROVE  Truthful(q, Written(mem, address, x, s.bits), names, u)
<1>1. PICK b \in Nat : b = s.bits
  OBVIOUS
<1>2. PICK more : more = StoredBytes(address, x, b)
  OBVIOUS
<1>3. q = [m EXCEPT !.memo = {}, !.stores = @ \o more]
  BY <1>1, <1>2 DEF EncodeStore, StoredBytes
<1>4. /\ Encoder(q) /\ q.outcome = m.outcome /\ q.stores = m.stores \o more
      /\ q.havoced = m.havoced /\ q.memo = {}
  BY <1>3 DEF Truthful, Encoder
<1>5. ASSUME ~m.havoced PROVE Mirrors(q.stores, Written(mem, address, x, b))
  <2>1. PICK stores : stores = m.stores
    OBVIOUS
  <2>2. Mirrors(stores, mem)
    BY <1>5, <2>1 DEF Truthful, Holding
  <2>3. address \in Int /\ Bytes(b) <= 2 ^ Widest
    BY <1>1
  <2>4. Mirrors(stores \o StoredBytes(address, x, b), Written(mem, address, x, b))
    BY <2>2, <2>3, StoreMirrors
  <2> QED
    BY <1>2, <1>4, <2>1, <2>4
<1>6. Holding(q, Written(mem, address, x, b))
  BY <1>4, <1>5 DEF Holding
<1> QED
  BY <1>1, <1>4, <1>6 DEF Truthful

\* A store too many: nothing is held any more.
LEMMA OverflowTruthful ==
    ASSUME NEW m, NEW mem, NEW names, NEW u, Truthful(m, mem, names, u),
           NEW q, q = [m EXCEPT !.memo = {}, !.stores = <<>>, !.havoced = TRUE], NEW w
    PROVE  Truthful(q, w, names, u)
<1>1. Encoder(q) /\ q.outcome = m.outcome /\ q.havoced = TRUE /\ q.memo = {}
  BY DEF Truthful, Encoder
<1> QED
  BY <1>1 DEF Truthful, Holding

----------------------------------------------------------------------------
(* The loads of a slice have known addresses: the passes bring in no        *)
(* unknown.                                                                 *)

\* The names of registers: what an expression reads that is known throughout.
Spoken(names) == {n \in names : n[1] \in Registers}

\* An expression reads registers alone when it contains no unknown.
LEMMA SpokenIs ==
    ASSUME NEW e, Yields(e, 1), Size(e) # 0, NEW names, Closed(e, names)
    PROVE  Closed(e, Spoken(names)) <=> ~ContainsUnknown(e)
<1>1. IsSequence(e)
  BY YieldsSequence
<1>2. PICK m \in Nat : m = Len(e) /\ DOMAIN e = 1..m
  BY <1>1, Lengths
<1>3. ASSUME NEW i \in 1..m
      PROVE  KnownNode(e[i], Spoken(names)) <=> e[i].op # "unknown"
  <2>1. PICK n : n = e[i]
    OBVIOUS
  <2>2. KnownNode(n, names)
    BY <1>1, <1>2, <1>3, <2>1, ClosedNodes
  <2>3. CASE IsVar(n) \/ n.op = "unknown"
    <3>1. Arity(n) = 0
      BY <2>3 DEF IsVar, Arity, Leaves
    <3>2. i \in 1..Len(e) /\ Arity(e[i]) = 0
      BY <1>2, <1>3, <2>1, <3>1
    <3>3. NodeSize(e[i], <<>>) # 0
      BY <3>2, SizedLeaves
    <3>4. \/ n.op = "var" /\ n.name[1] \in Registers
          \/ n.op = "unknown" /\ n.stands[1] \in Hidden
      <4>1. NodeSize(n, <<>>) # 0
        BY <2>1, <3>3
      <4> QED
        BY <2>3, <3>1, <4>1, LeafSize DEF IsVar
    <3>5. n.stands[1] \in Hidden => n.stands[1] \notin Registers
      BY ConstantsAssumption
    <3> QED
      BY <2>1, <2>2, <3>4, <3>5 DEF KnownNode, Spoken, IsVar
  <2>4. CASE ~IsVar(n) /\ n.op # "unknown"
    BY <2>1, <2>4 DEF KnownNode
  <2> QED
    BY <2>3, <2>4
<1>4. Closed(e, Spoken(names)) <=> \A i \in 1..m : KnownNode(e[i], Spoken(names))
  BY <1>1, <1>2, ClosedNodes
<1>5. ContainsUnknown(e) <=> \E i \in 1..m : e[i].op = "unknown"
  BY <1>2 DEF ContainsUnknown
<1> QED
  BY <1>3, <1>4, <1>5

\* Nothing that is known becomes unknown.
LEMMA SimplifyKeepsKnown ==
    ASSUME NEW names, NEW u, \A k \in names : u[k] \in Nat,
           NEW e, Yields(e, 1), Size(e) # 0, Closed(e, names), ~ContainsUnknown(e)
    PROVE  ~ContainsUnknown(Simplify(e))
<1>1. PICK spoken : spoken = Spoken(names)
  OBVIOUS
<1>2. \A k \in spoken : u[k] \in Nat
  BY <1>1 DEF Spoken
<1>3. Closed(e, spoken)
  BY <1>1, SpokenIs
<1>4. PICK z, d : z = Size(e) /\ d = Denote(e, u)
  OBVIOUS
<1>5. Means(e, spoken, u, z, d) /\ Means(e, names, u, z, d) /\ z # 0
  BY <1>3, <1>4 DEF Means
<1>6. PICK g : g = Simplify(e)
  OBVIOUS
<1>7. Means(g, spoken, u, z, d)
  BY <1>2, <1>5, <1>6, SimplifyMeans
<1>8. Means(g, names, u, z, d)
  BY <1>5, <1>6, SimplifyMeans
<1>9. Yields(g, 1) /\ Size(g) # 0 /\ Closed(g, names) /\ Closed(g, Spoken(names))
  BY <1>1, <1>5, <1>7, <1>8 DEF Means
<1>10. ~ContainsUnknown(g)
  BY <1>9, SpokenIs
<1> QED
  BY <1>6, <1>10

\* Inlining what is known brings in no unknown.
LEMMA SubstituteKeepsKnown ==
    ASSUME NEW e, IsSequence(e), ~ContainsUnknown(e),
           NEW map, \A n \in DOMAIN map : map[n].op # "unknown"
    PROVE  ~ContainsUnknown(Substitute(e, map))
BY DEF Substitute, ContainsUnknown

\* Renaming brings in no unknown, and takes none away.
LEMMA RenameKeepsKnown ==
    ASSUME NEW e, IsSequence(e)
    PROVE  ContainsUnknown(Rename(e)) <=> ContainsUnknown(e)
<1>1. \A n : IsVar(n) => n.op # "unknown" /\ Variable(Named(n.name[1]), n.bits).op # "unknown"
  BY DEF IsVar, Variable
<1> QED
  BY <1>1 DEF Rename, ContainsUnknown

\* The addresses that are loaded from are known.
Addressed(s) == s.kind = "load" => ~ContainsUnknown(s.parts[1])

\* The loads of a simplified statement still have known addresses.
LEMMA SimplifiedAddressed ==
    ASSUME NEW names, NEW u, \A k \in names : u[k] \in Nat,
           NEW s, Fitting(s, names, u), Addressed(s)
    PROVE  Addressed(Simplified(s))
<1>1. PICK t : t = Simplified(s)
  OBVIOUS
<1>2. t = [s EXCEPT !.parts = [i \in Parts(s) |-> Simplify(s.parts[i])]]
  BY <1>1 DEF Simplified, Parts, Fitting, Shape
<1>3. PICK q : q = [i \in Parts(s) |-> Simplify(s.parts[i])] /\ t = [s EXCEPT !.parts = q]
  BY <1>2
<1>4. Shape(s) /\ \A i \in Parts(s) : Yields(q[i], 1)
  <2>1. ASSUME NEW i \in Parts(s) PROVE Yields(q[i], 1)
    <3>1. PICK e : e = s.parts[i]
      OBVIOUS
    <3>2. Means(e, names, u, Size(e), Denote(e, u)) /\ Size(e) # 0
      BY <2>1, <3>1, PartMeans
    <3>3. Means(Simplify(e), names, u, Size(e), Denote(e, u))
      BY <3>2, SimplifyMeans
    <3> QED
      BY <1>3, <2>1, <3>1, <3>3 DEF Means
  <2> QED
    BY <2>1 DEF Fitting
<1>5. Alike(s, t) /\ t.parts = q
  <2>1. q = [i \in Parts(s) |-> q[i]]
    BY <1>3
  <2> QED
    BY <1>3, <1>4, <2>1, Rewritten
<1>6. SUFFICES ASSUME s.kind = "load" PROVE ~ContainsUnknown(q[1])
  BY <1>1, <1>5 DEF Alike, Addressed
<1>7. 1 \in Parts(s)
  BY <1>4, <1>6 DEF Shape, Defines
<1>8. PICK e : e = s.parts[1]
  OBVIOUS
<1>9. Means(e, names, u, Size(e), Denote(e, u)) /\ Size(e) # 0
  BY <1>7, <1>8, PartMeans
<1>10. ~ContainsUnknown(e) /\ Yields(e, 1) /\ Closed(e, names)
  BY <1>6, <1>8, <1>9 DEF Addressed, Means
<1>11. ~ContainsUnknown(Simplify(e))
  BY <1>9, <1>10, SimplifyKeepsKnown
<1> QED
  BY <1>3, <1>7, <1>8, <1>11

\* So do those of a statement with values inlined.
LEMMA PropagatedAddressed ==
    ASSUME NEW names, NEW u, NEW map, \A n \in DOMAIN map : map[n].op # "unknown",
           NEW s, Shape(s), Addressed(s)
    PROVE  Addressed(Propagated(s, map))
<1>1. PICK t : t = Propagated(s, map)
  OBVIOUS
<1>2. t = [s EXCEPT !.parts = [i \in Parts(s) |-> Substitute(s.parts[i], map)]]
  BY <1>1 DEF Propagated, Parts, Shape
<1>3. t.kind = s.kind /\ t.parts = [i \in Parts(s) |-> Substitute(s.parts[i], map)]
  BY <1>2 DEF Shape
<1>4. SUFFICES ASSUME s.kind = "load" PROVE ~ContainsUnknown(t.parts[1])
  BY <1>1, <1>3 DEF Addressed
<1>5. 1 \in Parts(s) /\ Yields(s.parts[1], 1)
  BY <1>4 DEF Shape, Defines
<1>6. PICK e : e = s.parts[1]
  OBVIOUS
<1>7. IsSequence(e) /\ ~ContainsUnknown(e)
  BY <1>4, <1>5, <1>6, YieldsSequence DEF Addressed
<1>8. ~ContainsUnknown(Substitute(e, map))
  BY <1>7, SubstituteKeepsKnown
<1> QED
  BY <1>3, <1>5, <1>6, <1>8

\* So do those of the slice after a pass.
LEMMA PassAddressed ==
    ASSUME NEW names, \A k \in names : val[k] \in Nat, IsSequence(statements),
           \A k \in DOMAIN statements : Fitting(statements[k], names, val)
             /\ Addressed(statements[k]),
           Pass
    PROVE  \A k \in DOMAIN statements' : Addressed(statements'[k])
<1> DEFINE folded == [k \in DOMAIN statements |-> Simplified(statements[k])]
           map == Inlined(folded)
           propagated == [k \in DOMAIN folded |-> Propagated(folded[k], map)]
           reduced == Substitute(Simplify(condition), map)
           live == LiveNames(propagated, reduced)
<1>1. statements' = Selected(propagated, {k \in DOMAIN propagated : IsLive(propagated[k], live)})
  BY DEF Pass
<1>2. PICK n \in Nat : n = Len(statements) /\ DOMAIN statements = 1..n
  BY Lengths
<1>3. DOMAIN folded = 1..n /\ \A k \in 1..n : folded[k] = Simplified(statements[k])
  BY <1>2
<1> HIDE DEF folded
<1>4. \A k \in 1..n : Fitting(folded[k], names, val)
  BY <1>2, <1>3, SimplifiedFits
<1>5. \A k \in 1..n : Addressed(folded[k])
  BY <1>2, <1>3, SimplifiedAddressed
<1>6. \A m \in DOMAIN map : Replaces(map[m], m, names, val)
  BY <1>3, <1>4, InlinedReplaces
<1> HIDE DEF map
<1>7. \A m \in DOMAIN map : map[m].op # "unknown"
  BY <1>6 DEF Replaces
<1>8. DOMAIN propagated = 1..n /\ \A k \in 1..n : propagated[k] = Propagated(folded[k], map)
  BY <1>3
<1>9. propagated = [k \in 1..n |-> propagated[k]]
  BY <1>3
<1> HIDE DEF propagated
<1>10. IsSequence(propagated)
  BY <1>9, Mapped
<1>11. \A k \in 1..n : Addressed(propagated[k])
  <2>1. ASSUME NEW k \in 1..n PROVE Addressed(propagated[k])
    <3>1. PICK s : s = folded[k]
      OBVIOUS
    <3>2. Shape(s) /\ Addressed(s)
      BY <1>4, <1>5, <2>1, <3>1 DEF Fitting
    <3>3. Addressed(Propagated(s, map))
      BY <1>7, <3>2, PropagatedAddressed
    <3> QED
      BY <1>8, <2>1, <3>1, <3>3
  <2> QED
    BY <2>1
<1> HIDE DEF live
<1>12. ASSUME NEW k \in DOMAIN statements' PROVE Addressed(statements'[k])
  <2>1. PICK at : at = {i \in DOMAIN propagated : IsLive(propagated[i], live)}
    OBVIOUS
  <2>2. statements' = Selected(propagated, at)
    BY <1>1, <2>1
  <2>3. \A i \in DOMAIN Selected(propagated, at) :
            \E j \in DOMAIN propagated : Selected(propagated, at)[i] = propagated[j]
    BY <1>10, SelectedElements
  <2>4. \E j \in DOMAIN propagated : statements'[k] = propagated[j]
    BY <1>12, <2>2, <2>3
  <2> QED
    BY <1>8, <1>11, <2>4
<1> QED
  BY <1>12

----------------------------------------------------------------------------
(* Every formula is true of the machine, and so decides as the machine did. *)

\* Before a store, nothing stored disagrees with the memory.
LEMMA NothingMirrors == \A mem : Mirrors(<<>>, mem)
<1>1. IsSequence(<<>>) /\ Len(<<>>) = 0
  BY Empty
<1> QED
  BY <1>1 DEF Mirrors

\* What a statement adds to the encoder is what it made of the machine.
LEMMA StatementTruthful ==
    ASSUME NEW backend \in Backends, NEW names, NEW u, \A k \in names : u[k] \in Nat,
           NEW s, Fitting(s, names, u), Addressed(s),
           NEW mem, Bytewise(mem),
           s.kind = "load" => u[s.dst] = Word(mem, s.seen[1], s.bits),
           NEW m, Truthful(m, mem, names, u), Rightly(m.declared),
           backend = "text" => StatementReads(s) \subseteq DOMAIN m.declared,
           NEW q, q = EncodeStatement(backend, m, s, u)
    PROVE  Truthful(q, After(mem, s), names, u) /\ Bytewise(After(mem, s))
<1>1. Shape(s) /\ Widthwise(s)
  BY FittingIs
<1>2. ASSUME s.kind \in {"assign", "load", "store"}, NEW i \in Parts(s)
      PROVE  \A after, terms : Rendered(backend, m, s, u, after, terms) =>
                /\ terms[i] = Term(PartBits(s, i), s.seen[i])
                /\ s.seen[i] = DenoteAt(s.parts[i], u, PartBits(s, i))
                /\ PartBits(s, i) \in Nat /\ InWidth(s.seen[i], PartBits(s, i))
  BY <1>2, TermsSeen
<1>3. ASSUME s.kind = "store"
      PROVE  /\ Parts(s) = {1, 2} /\ s.seen[1] \in Nat /\ s.seen[2] \in Nat
             /\ s.bits \in Nat /\ Bytes(s.bits) <= 2 ^ Widest
             /\ Bytewise(After(mem, s))
  <2>1. Parts(s) = {1, 2} /\ s.bits \in Nat /\ Bytes(s.bits) <= 2 ^ Widest
    BY <1>1, <1>3 DEF Shape, Widthwise
  <2>2. ASSUME NEW i \in Parts(s) PROVE s.seen[i] \in Nat
    <3>1. PICK e, b : e = s.parts[i] /\ b = PartBits(s, i)
      OBVIOUS
    <3>2. Yields(e, 1) /\ Size(e) # 0 /\ Closed(e, names) /\ s.seen = Denotes(s, u)
      BY <1>1, <1>3, <3>1 DEF Fitting, Shape
    <3>3. b \in Nat
      BY <1>1, <3>1, PartBitsNatural
    <3>4. InWidth(DenoteAt(e, u, b), b)
      BY <3>2, <3>3, DenotedInWidth
    <3>5. s.seen[i] = DenoteAt(e, u, b)
      BY <3>1, <3>2 DEF Denotes, Parts
    <3> QED
      BY <3>3, <3>4, <3>5, InWidthIs
  <2>3. s.seen[1] \in Nat /\ s.seen[2] \in Nat
    BY <2>1, <2>2
  <2>4. PICK x \in Int : x = s.seen[2]
    BY <2>3
  <2>5. PICK b \in Nat : b = s.bits
    BY <2>1
  <2>6. Bytewise(Written(mem, s.seen[1], x, b))
    BY WrittenBytewise
  <2> QED
    BY <1>3, <2>1, <2>3, <2>4, <2>5, <2>6 DEF After
<1>4. CASE Overflows(m, s)
  <2>1. q = [m EXCEPT !.memo = {}, !.stores = <<>>, !.havoced = TRUE] /\ s.kind = "store"
    BY <1>4 DEF EncodeStatement, Overflows
  <2>2. PICK w : w = After(mem, s)
    OBVIOUS
  <2>3. Truthful(q, w, names, u)
    BY <2>1, OverflowTruthful
  <2> QED
    BY <1>3, <2>1, <2>2, <2>3
<1>5. CASE ~Overflows(m, s)
  <2>1. Encoder(m)
    BY DEF Truthful
  <2>2. PICK after, terms : Rendered(backend, m, s, u, after, terms)
               /\ Concluded(q, after, s, terms, u)
    BY <1>1, <1>5, <2>1, StatementEncodes
  <2>3. Truthful(after, mem, names, u)
    BY <2>2 DEF Rendered, Truthful, Holding
  <2>4. CASE s.kind = "assign"
    <3>1. 1 \in Parts(s) /\ u[s.dst] = s.seen[1]
      BY <1>1, <2>4 DEF Shape, Defines, Fitting
    <3>2. PICK x, y, b : x = s.dst /\ y = s.seen[1] /\ b = PartBits(s, 1)
      OBVIOUS
    <3>3. terms[1] = Term(b, y) /\ b \in Nat /\ InWidth(y, b)
      BY <1>2, <2>2, <2>4, <3>1, <3>2
    <3>4. q = Asserted(after, x, u, Term(b, y)) /\ u[x] = y
      BY <2>2, <2>4, <3>1, <3>2, <3>3 DEF Concluded
    <3>5. Truthful(q, mem, names, u)
      BY <2>3, <3>3, <3>4, AssignTruthful
    <3> QED
      BY <2>4, <3>5 DEF After
  <2>5. CASE s.kind = "load"
    <3>1. 1 \in Parts(s) /\ Defines(s)
      BY <1>1, <2>5 DEF Shape, Defines
    <3>2. PICK e, address : e = s.parts[1] /\ address = s.seen[1]
      OBVIOUS
    <3>3. PartBits(s, 1) = Widest
      BY <2>5 DEF PartBits
    <3>4. /\ terms[1] = Term(Widest, address) /\ address = DenoteAt(e, u, Widest)
          /\ Widest \in Nat /\ InWidth(address, Widest)
      BY <1>2, <2>2, <2>5, <3>1, <3>2, <3>3
    <3>5. address \in Nat
      BY <3>4, InWidthIs
    <3>6. Yields(e, 1) /\ Size(e) # 0 /\ Closed(e, names) /\ ~ContainsUnknown(e)
      BY <1>1, <2>5, <3>1, <3>2 DEF Fitting, Shape, Addressed
    <3>7. s.bits \in Nat
      BY <1>1, <3>1, WidthsAssumption DEF Widthwise
    <3>8. u[s.dst] = Word(mem, address, s.bits)
      BY <2>5, <3>2
    <3>9. terms[1].v = address
      BY <3>4 DEF Term
    <3>10. q = EncodeLoad(after, s, address, u)
      BY <2>2, <2>5, <3>9 DEF Concluded
    <3>11. Truthful(q, mem, names, u)
      BY <2>3, <3>2, <3>4, <3>5, <3>6, <3>7, <3>8, <3>10, LoadTruthful
    <3> QED
      BY <2>5, <3>11 DEF After
  <2>6. CASE s.kind = "store"
    <3>1. PICK address, x : address = s.seen[1] /\ x = s.seen[2]
      OBVIOUS
    <3>2. terms[1] = Term(PartBits(s, 1), address) /\ terms[2] = Term(PartBits(s, 2), x)
      BY <1>2, <1>3, <2>2, <2>6, <3>1
    <3>3. terms[1].v = address /\ terms[2].v = x
      BY <3>2 DEF Term
    <3>4. q = EncodeStore(after, s, address, x)
      BY <2>2, <2>6, <3>3 DEF Concluded
    <3>5. address \in Nat /\ s.bits \in Nat /\ Bytes(s.bits) <= 2 ^ Widest
      BY <1>3, <2>6, <3>1
    <3>6. Truthful(q, Written(mem, address, x, s.bits), names, u)
      BY <2>3, <3>4, <3>5, StoreTruthful
    <3> QED
      BY <1>3, <2>6, <3>1, <3>6 DEF After
  <2>7. CASE s.kind \notin {"assign", "load", "store"}
    <3>1. q = after
      BY <2>2, <2>7 DEF Concluded
    <3> QED
      BY <2>3, <2>7, <3>1 DEF After
  <2> QED
    BY <2>4, <2>5, <2>6, <2>7
<1> QED
  BY <1>4, <1>5

\* So it is of the formula, and its condition is what the branch tests.
LEMMA FormulaTruthful ==
    ASSUME NEW backend \in Backends, NEW u, \A k \in DOMAIN u : u[k] \in Nat,
           Ssa(statements), NamesSettled, InputsSettled,
           \A k \in DOMAIN statements : Fitting(statements[k], DOMAIN u, u)
             /\ Addressed(statements[k]),
           FittingCondition(condition, DOMAIN u),
           \E mem : Replayed(statements, u, mem)
    PROVE  /\ "false" \notin Formula(backend, u).outcome
           /\ Formula(backend, u).condition <=> Holds(condition, u)
<1>1. PICK n \in Nat : n = Len(statements) /\ DOMAIN statements = 1..n
  BY Lengths DEF Ssa
<1>2. PICK f : EncodeSteps(backend, u, f)
  BY <1>1, EncodedStepByStep
<1>3. /\ f[0] = Begun(backend)
      /\ Formula(backend, u) = Answer(backend, f[n], u)
      /\ \A i \in 1..n : f[i] = EncodeStatement(backend, f[i - 1], statements[i], u)
  BY <1>1, <1>2 DEF EncodeSteps
<1>4. PICK last, held : Memories(statements, u, last, held)
  BY DEF Replayed
<1>5. /\ held[1] = Memory
      /\ \A k \in 1..n : /\ held[k + 1] = After(held[k], statements[k])
                         /\ statements[k].kind = "load" =>
                              u[statements[k].dst] = Word(held[k], statements[k].seen[1],
                                 statements[k].bits)
  BY <1>1, <1>4 DEF Memories
<1>6. PICK names : names = DOMAIN u
  OBVIOUS
<1>7. \A k \in 1..n : Fitting(statements[k], names, u) /\ Addressed(statements[k])
        /\ Widthwise(statements[k])
  BY <1>1, <1>6, FittingIs
<1> DEFINE Right(i) == /\ Uncontested(backend, f[i], i + 1)
                       /\ Truthful(f[i], held[i + 1], names, u) /\ Bytewise(held[i + 1])
           T == {i \in Nat : i <= n => Right(i)}
<1>8. 0 \in T
  <2>1. Compared(0 + 1) \subseteq DOMAIN inputs
    <3>1. \A i \in DOMAIN statements : ~(i < 0 + 1)
      BY <1>1
    <3> QED
      BY <3>1 DEF Compared, Before
  <2>2. PICK b : b = Begun(backend)
    OBVIOUS
  <2>3. /\ Encoder(b) /\ b.declared = (IF backend = "text" THEN inputs ELSE [x \in {} |-> 0])
        /\ b.outcome = (IF backend = "text" /\ Untextual THEN {"refused"} ELSE {})
        /\ b.stores = <<>> /\ b.memo = {} /\ b.havoced = FALSE
    BY <2>2 DEF Begun, Encoder
  <2>4. Rightly(b.declared)
    BY <2>3 DEF Rightly, InputsSettled
  <2>5. Uncontested(backend, b, 0 + 1)
    BY <2>1, <2>3, <2>4 DEF Uncontested
  <2>6. Bytewise(Memory)
    BY WidthsAssumption DEF Bytewise
  <2>7. Truthful(b, Memory, names, u)
    BY <2>3, NothingMirrors DEF Truthful, Holding
  <2> QED
    BY <1>3, <1>5, <2>2, <2>5, <2>6, <2>7
<1>9. ASSUME NEW i \in Nat, i \in T PROVE i + 1 \in T
  <2>1. SUFFICES ASSUME i + 1 <= n PROVE Right(i + 1)
    BY <1>9
  <2>2. i + 1 \in 1..n /\ i + 1 - 1 = i /\ i <= n
    BY <2>1
  <2>3. PICK m, q, k, mem, s : m = f[i] /\ q = f[i + 1] /\ k = i + 1 /\ mem = held[k]
               /\ s = statements[k]
    OBVIOUS
  <2>4. /\ Uncontested(backend, m, k) /\ k \in DOMAIN statements /\ Widthwise(statements[k])
        /\ q = EncodeStatement(backend, m, statements[k], u)
        /\ Truthful(m, mem, names, u) /\ Bytewise(mem)
        /\ Fitting(s, names, u) /\ Addressed(s)
        /\ s.kind = "load" => u[s.dst] = Word(mem, s.seen[1], s.bits)
        /\ held[k + 1] = After(mem, s)
    BY <1>1, <1>3, <1>5, <1>7, <1>9, <2>2, <2>3
  <2>5. Uncontested(backend, q, k + 1)
    BY <2>4, StatementUncontested
  <2>6. StatementReads(s) \subseteq Compared(k)
    BY <2>3, <2>4, ComparedReads
  <2>7. /\ Rightly(m.declared) /\ (backend = "text"
             => StatementReads(s) \subseteq DOMAIN m.declared)
        /\ q = EncodeStatement(backend, m, s, u)
    BY <2>3, <2>4, <2>6 DEF Uncontested
  <2>8. \A x \in names : u[x] \in Nat
    BY <1>6
  <2>9. Truthful(q, After(mem, s), names, u) /\ Bytewise(After(mem, s))
    BY <2>4, <2>7, <2>8, StatementTruthful
  <2> QED
    BY <2>3, <2>4, <2>5, <2>9
<1>10. n \in T
  <2> HIDE DEF T
  <2> QED
    BY <1>8, <1>9, Induction
<1>11. PICK m, k : m = f[n] /\ k = n + 1
  OBVIOUS
<1>12. Uncontested(backend, m, k) /\ "false" \notin m.outcome
  BY <1>10, <1>11 DEF Truthful
<1>13. Dsts(statements) \subseteq Compared(k)
  <2>1. \A i \in DOMAIN statements : i < k
    BY <1>1, <1>11
  <2> QED
    BY <2>1 DEF Compared, Before, Dsts
<1>14. /\ Encoder(m) /\ Rightly(m.declared)
       /\ backend = "text" => Reads(condition) \subseteq DOMAIN m.declared
  BY <1>12, <1>13 DEF Uncontested, InputsSettled
<1>15. PICK e : e = condition
  OBVIOUS
<1>16. Yields(e, 1) /\ Size(e) # 0 /\ Closed(e, names)
  BY <1>6, <1>15 DEF FittingCondition
<1>17. PICK a : a = Answer(backend, m, u)
  OBVIOUS
<1>18. /\ a.outcome = m.outcome
       /\ \E d : Declares(d, e) /\ (a.condition <=> AsBool(Encode(backend, e, d, u)).v = 1)
  BY <1>14, <1>15, <1>16, <1>17, AnswerUncontested
<1>19. PICK d : Declares(d, e) /\ (a.condition <=> AsBool(Encode(backend, e, d, u)).v = 1)
  BY <1>18
<1>20. PICK t, z, c : t = Encode(backend, e, d, u) /\ z = Size(e) /\ c = Denote(e, u)
  OBVIOUS
<1>21. Tells(backend, t, z, c)
  <2>1. \A x \in names : u[x] \in Nat
    BY <1>6
  <2> QED
    BY <1>16, <1>19, <1>20, <2>1, SizedTells
<1>22. AsBool(t).v = Flag(c.v # 0)
  BY <1>21, TellsIs
<1>23. a.condition <=> c.v # 0
  BY <1>19, <1>20, <1>22 DEF Flag
<1> QED
  BY <1>3, <1>11, <1>12, <1>15, <1>17, <1>18, <1>20, <1>23 DEF Holds

\* The formulas are true of the machine, and why.
TruthInv ==
    /\ WidthInv
    /\ taken \in BOOLEAN
    /\ \A k \in DOMAIN statements : Addressed(statements[k])
    /\ FormulaHolds

\* The invariant holds before the first statement.
LEMMA InitTruthInv == RunInit => TruthInv
<1> SUFFICES ASSUME RunInit PROVE TruthInv
  OBVIOUS
<1>1. WidthInv /\ formulas = <<>> /\ statements = <<>> /\ taken = FALSE
  BY InitWidthInv DEF RunInit, Init
<1>2. DOMAIN statements = {} /\ DOMAIN formulas = {}
  BY <1>1
<1> QED
  BY <1>1, <1>2 DEF TruthInv, FormulaHolds

\* A statement that is converted keeps what is known of its address.
LEMMA ConvertAddressed ==
    ASSUME RunInv, \A k \in DOMAIN statements : Addressed(statements[k]),
           NEW s \in Statements, Convert(s)
    PROVE  \A k \in DOMAIN statements' : Addressed(statements'[k])
<1>1. Ssa(statements)
  BY DEF RunInv, SliceInv
<1>2. \E r : statements' = Append(statements, r) /\ Addressed(r)
  <2>1. CASE Defines(s)
    <3>1. \E v : Define(s, v)
      BY <2>1 DEF Convert, RenameAssign, RenameLoad, RenameStore, Keep, Defines
    <3> DEFINE r == [kind |-> s.kind, dst |-> Fresh(s.dst), bits |-> s.bits,
                     parts |-> Renamed(s), seen |-> Denotes(s, env)]
    <3>2. statements' = Append(statements, r)
      BY <3>1 DEF Define
    <3>3. r.kind = s.kind /\ r.parts = Renamed(s)
      OBVIOUS
    <3> HIDE DEF r
    <3>4. Addressed(r)
      <4>1. SUFFICES ASSUME s.kind = "load" PROVE ~ContainsUnknown(Renamed(s)[1])
        BY <3>3 DEF Addressed
      <4>2. s.parts = <<s.parts[1]>> /\ Proper(s.parts[1])
        BY <2>1, StatementForms
      <4>3. PICK e : e = s.parts[1]
        OBVIOUS
      <4>4. 1 \in DOMAIN s.parts /\ IsSequence(e)
        BY <4>2, <4>3, ProperYields, YieldsSequence
      <4>5. ~ContainsUnknown(e)
        BY <4>1, <4>3, AddressesAssumption
      <4>6. ~ContainsUnknown(Rename(e))
        BY <4>4, <4>5, RenameKeepsKnown
      <4> QED
        BY <4>3, <4>4, <4>6 DEF Renamed
    <3> QED
      BY <3>2, <3>4
  <2>2. CASE RenameStore(s)
    <3> DEFINE r == [kind |-> "store", bits |-> s.bits, parts |-> Renamed(s),
                  seen |-> Denotes(s, env)]
    <3>1. statements' = Append(statements, r)
      BY <2>2 DEF RenameStore
    <3>2. r.kind = "store"
      OBVIOUS
    <3> HIDE DEF r
    <3> QED
      BY <3>1, <3>2 DEF Addressed
  <2>3. CASE Keep(s)
    BY <2>3 DEF Keep, Addressed
  <2> QED
    BY <2>1, <2>2, <2>3 DEF Convert, RenameAssign, RenameLoad, Defines
<1>3. PICK r : statements' = Append(statements, r) /\ Addressed(r)
  BY <1>2
<1>4. \A k \in DOMAIN statements' : \/ k \in DOMAIN statements /\ statements'[k] = statements[k]
                                    \/ statements'[k] = r
  BY <1>1, <1>3, Appended DEF Ssa
<1> QED
  BY <1>3, <1>4

\* Every step keeps the invariant.
LEMMA NextTruthInv == TruthInv /\ [RunNext]_runVars => TruthInv'
<1> SUFFICES ASSUME TruthInv, [RunNext]_runVars PROVE TruthInv'
  OBVIOUS
<1>1. WidthInv /\ WidthInv' /\ RunInv
  BY NextWidthInv DEF TruthInv, WidthInv
<1>2. ASSUME stage' # "done", taken' \in BOOLEAN,
             \A k \in DOMAIN statements' : Addressed(statements'[k])
      PROVE  TruthInv'
  <2>1. formulas' = <<>>
    BY <1>1, <1>2 DEF WidthInv
  <2> QED
    BY <1>1, <1>2, <2>1 DEF TruthInv, FormulaHolds
<1>3. ASSUME NEW s \in Statements, Convert(s) PROVE TruthInv'
  <2>1. stage' # "done" /\ taken' = taken
    BY <1>3 DEF Convert, optimiser, RenameAssign, RenameLoad, RenameStore, Keep, Define, machine
  <2>2. \A k \in DOMAIN statements' : Addressed(statements'[k])
    BY <1>1, <1>3, ConvertAddressed DEF TruthInv
  <2> QED
    BY <1>2, <2>1, <2>2 DEF TruthInv
<1>4. ASSUME NEW c \in Conditions, Conclude(c) PROVE TruthInv'
  <2>1. stage' # "done" /\ taken' \in BOOLEAN /\ statements' = statements
    BY <1>4 DEF Conclude, RenameCondition, Holds
  <2> QED
    BY <1>2, <2>1 DEF TruthInv
<1>5. CASE Pass /\ UNCHANGED <<memory, formulas>>
  <2>1. stage = "optimising" /\ stage' # "done" /\ taken' = taken
    BY <1>5 DEF Pass, machine
  <2>2. PICK names : names = DOMAIN val
    OBVIOUS
  <2>3. /\ \A k \in names : val[k] \in Nat
        /\ IsSequence(statements)
        /\ \A k \in DOMAIN statements : Fitting(statements[k], names, val) /\
             Addressed(statements[k])
    BY <1>1, <2>2 DEF RunInv, SliceInv, Ssa, TruthInv
  <2>4. \A k \in DOMAIN statements' : Addressed(statements'[k])
    BY <1>5, <2>3, PassAddressed
  <2> QED
    BY <1>2, <2>1, <2>4 DEF TruthInv
<1>6. CASE Recompute /\ UNCHANGED <<memory, formulas>>
  <2>1. /\ stage # "done" /\ taken' = taken /\ statements' = statements /\ formulas' = formulas
    BY <1>6 DEF Recompute, machine
  <2>2. formulas' = <<>>
    BY <1>1, <2>1 DEF WidthInv
  <2> QED
    BY <1>1, <2>1, <2>2 DEF TruthInv, FormulaHolds
<1>7. CASE EncodeSlice
  <2>1. /\ stage = "done" /\ formulas' = [backend \in Backends |-> Formula(backend, val)]
        /\ statements' = statements /\ condition' = condition /\ taken' = taken
    BY <1>7 DEF EncodeSlice, vars, slice, machine, optimiser
  <2>2. /\ Ssa(statements) /\ NamesSettled /\ InputsSettled
        /\ \E m : Replayed(statements, val, m)
        /\ \A k \in DOMAIN val : val[k] \in Nat
        /\ \A k \in DOMAIN statements : Fitting(statements[k], DOMAIN val, val) /\
             Addressed(statements[k])
        /\ FittingCondition(condition, DOMAIN val) /\ (taken <=> Holds(condition, val))
    BY <1>1, <2>1 DEF RunInv, SliceInv, WidthInv, TruthInv
  <2>3. ASSUME NEW backend \in Backends
        PROVE  /\ "false" \notin Formula(backend, val).outcome
               /\ Formula(backend, val).condition = taken
    <3>1. /\ "false" \notin Formula(backend, val).outcome
          /\ Formula(backend, val).condition <=> Holds(condition, val)
      BY <2>2, FormulaTruthful
    <3>2. Formula(backend, val).condition \in BOOLEAN
      BY DEF Formula
    <3>3. taken \in BOOLEAN
      BY DEF TruthInv
    <3> QED
      BY <2>2, <3>1, <3>2, <3>3
  <2>4. \A backend \in Backends : "illsorted" \notin Formula(backend, val).outcome
    BY <1>1, <2>1 DEF WidthInv
  <2>5. FormulaHolds'
    BY <2>1, <2>3, <2>4 DEF FormulaHolds
  <2> QED
    BY <1>1, <2>1, <2>5 DEF TruthInv
<1>8. CASE UNCHANGED runVars
  <2>1. statements' = statements /\ taken' = taken /\ formulas' = formulas
    BY <1>8 DEF runVars, vars, slice, machine
  <2> QED
    BY <1>1, <2>1 DEF TruthInv, FormulaHolds
<1> QED
  BY <1>3, <1>4, <1>5, <1>6, <1>7, <1>8 DEF RunNext

\* No formula of either backend leaves out what the machine does: none of its
\* assertions contradicts the machine's run, its condition has the value that
\* the branch of the run tested, and no script of the text backend fails to
\* parse (encoder.rs, smtlib.rs, memory stores and remembered loads
\* included).
THEOREM FormulasHold == RunSpec => []FormulaHolds
BY InitTruthInv, NextTruthInv, PTL DEF RunSpec, TruthInv

=============================================================================
