-------------------------- MODULE ExpressionProofs --------------------------
(****************************************************************************)
(* What an expression means, for every expression, however large: that      *)
(* simplify (expr.rs) keeps the width and the value of whatever it is       *)
(* given, that inlining and renaming do, and that the terms of both solver  *)
(* backends have the width and the value of what they encode.               *)
(*                                                                          *)
(* An expression is the sequence of its nodes, operands first, and every    *)
(* function of expressions is a fold over it with a stack.  So the nodes of *)
(* a tree leave one value wherever they stand, an expression is a leaf or a *)
(* node over one, two or three trees, and a fold comes to what its operator *)
(* makes of what it came to below.  Induction over the length of the        *)
(* expression does the rest.                                                *)
(*                                                                          *)
(* Size is the width by the widths of the registers, 0 where the parts do   *)
(* not fit.  Of an expression with a width nothing is assumed but that, and *)
(* that its names have values.                                              *)
(****************************************************************************)
EXTENDS FormulaRun, FiniteSetTheorems, WellFoundedInduction, TLAPS

----------------------------------------------------------------------------
(* Induction over the numbers.                                               *)

\* A nonempty set of numbers has a least element.
LEMMA Least ==
    ASSUME NEW S \in SUBSET Nat, S # {}
    PROVE  \E m \in S : \A n \in S : m <= n
<1> DEFINE R == OpToRel(<, Nat)
<1>1. IsWellFoundedOn(R, Nat)
  BY NatLessThanWellFounded
<1>2. \A x, y \in Nat : y < x => <<y, x>> \in R
  <2> SUFFICES ASSUME NEW x \in Nat, NEW y \in Nat, y < x PROVE <<y, x>> \in R
    OBVIOUS
  <2>1. <<y, x>> \in Nat \X Nat /\ <<y, x>>[1] = y /\ <<y, x>>[2] = x
    OBVIOUS
  <2>2. <<y, x>>[1] < <<y, x>>[2]
    OBVIOUS
  <2> QED
    BY <2>1, <2>2, Zenon DEF OpToRel
<1> HIDE DEF R
<1>3. PICK x \in S : \A y \in S : ~(<<y, x>> \in R)
  BY <1>1, WFMin
<1>4. \A y \in S : ~(y < x)
  BY <1>2, <1>3
<1>5. QED
  BY <1>3, <1>4

\* Induction, over a set rather than a formula.
LEMMA Induction ==
    ASSUME NEW S, 0 \in S, \A n \in Nat : n \in S => n + 1 \in S
    PROVE  \A n \in Nat : n \in S
<1> SUFFICES ASSUME NEW k \in Nat, k \notin S PROVE FALSE
  OBVIOUS
<1> DEFINE T == {n \in Nat : n \notin S}
<1>1. PICK m \in T : \A n \in T : m <= n
  <2>1. T \in SUBSET Nat /\ T # {}
    OBVIOUS
  <2> HIDE DEF T
  <2> QED
    BY <2>1, Least
<1>2. m \in Nat /\ m # 0 /\ m - 1 \in Nat /\ ~(m <= m - 1)
  OBVIOUS
<1>3. m - 1 \in S
  BY <1>1, <1>2
<1>4. m - 1 + 1 \in S
  BY <1>2, <1>3
<1> QED
  BY <1>2, <1>4

----------------------------------------------------------------------------
(* Sequences. *)

\* A sequence, of whatever elements.
IsSequence(s) == \E S : s \in Seq(S)

\* The length and the domain of a sequence.
LEMMA Lengths ==
    ASSUME NEW s, IsSequence(s)
    PROVE  Len(s) \in Nat /\ DOMAIN s = 1..Len(s)
BY DEF IsSequence

\* A concatenation has the elements of one and then of the other.
LEMMA Concatenated ==
    ASSUME NEW s, NEW t, IsSequence(s), IsSequence(t)
    PROVE  /\ IsSequence(s \o t) /\ Len(s \o t) = Len(s) + Len(t)
           /\ \A i \in 1..Len(s) : (s \o t)[i] = s[i]
           /\ \A i \in (Len(s) + 1)..(Len(s) + Len(t)) : (s \o t)[i] = t[i - Len(s)]
<1>1. PICK S : s \in Seq(S)
  BY DEF IsSequence
<1>2. PICK T : t \in Seq(T)
  BY DEF IsSequence
<1> DEFINE U == S \cup T
<1>3. s \in Seq(U) /\ t \in Seq(U)
  BY <1>1, <1>2
<1> HIDE DEF U
<1>4. s \o t \in Seq(U) /\ Len(s \o t) = Len(s) + Len(t)
  BY <1>3
<1>5. IsSequence(s \o t)
  BY <1>4 DEF IsSequence
<1>6. \A i \in 1..Len(s) : (s \o t)[i] = s[i]
  BY <1>3
<1>7. \A i \in (Len(s) + 1)..(Len(s) + Len(t)) : (s \o t)[i] = t[i - Len(s)]
  BY <1>3
<1> QED
  BY <1>4, <1>5, <1>6, <1>7

\* An element appended is the last one.
LEMMA Appended ==
    ASSUME NEW s, IsSequence(s), NEW x
    PROVE  /\ IsSequence(Append(s, x)) /\ Len(Append(s, x)) = Len(s) + 1
           /\ \A i \in 1..Len(s) : Append(s, x)[i] = s[i]
           /\ Append(s, x)[Len(s) + 1] = x
           /\ \A i \in DOMAIN Append(s, x) :
                \/ i \in DOMAIN s /\ Append(s, x)[i] = s[i]
                \/ i = Len(s) + 1 /\ Append(s, x)[i] = x
<1>1. PICK S : s \in Seq(S)
  BY DEF IsSequence
<1> DEFINE U == S \cup {x}
<1>2. s \in Seq(U) /\ x \in U
  BY <1>1
<1> HIDE DEF U
<1>3. /\ Append(s, x) \in Seq(U) /\ Len(Append(s, x)) = Len(s) + 1
      /\ Append(s, x)[Len(s) + 1] = x /\ \A i \in 1..Len(s) : Append(s, x)[i] = s[i]
      /\ DOMAIN s = 1..Len(s) /\ DOMAIN Append(s, x) = 1..(Len(s) + 1) /\ Len(s) \in Nat
  BY <1>2
<1>4. IsSequence(Append(s, x))
  BY <1>3 DEF IsSequence
<1> QED
  BY <1>3, <1>4

\* A part of a sequence.
LEMMA Part ==
    ASSUME NEW s, IsSequence(s), NEW m \in Nat, NEW n \in Nat, m <= n, n <= Len(s)
    PROVE  /\ IsSequence(SubSeq(s, m + 1, n)) /\ Len(SubSeq(s, m + 1, n)) = n - m
           /\ \A i \in 1..(n - m) : SubSeq(s, m + 1, n)[i] = s[m + i]
<1>1. PICK S : s \in Seq(S)
  BY DEF IsSequence
<1>2. SubSeq(s, m + 1, n) \in Seq(S)
  BY <1>1
<1> QED
  BY <1>1, <1>2 DEF IsSequence

\* A sequence of one element.
LEMMA Singles == \A x : IsSequence(<<x>>) /\ Len(<<x>>) = 1 /\ <<x>>[1] = x
<1> TAKE x
<1>1. <<x>> \in Seq({x})
  OBVIOUS
<1> QED
  BY <1>1 DEF IsSequence

\* The empty sequence.
LEMMA Empty == IsSequence(<<>>) /\ Len(<<>>) = 0
<1>1. <<>> \in Seq({})
  OBVIOUS
<1> QED
  BY <1>1 DEF IsSequence

----------------------------------------------------------------------------
(* Expressions.  Depths says how many values a sequence of nodes has left    *)
(* after each of its nodes; a tree is one that leaves one.                   *)

\* How many values the nodes have left, one after another.
Depths(e, d) ==
    /\ d[0] = 0
    /\ \A i \in 0..Len(e) : d[i] \in Nat
    /\ \A i \in 1..Len(e) : Arity(e[i]) <= d[i - 1] /\ d[i] = d[i - 1] - Arity(e[i]) + 1
\* The nodes of e leave k values.
Yields(e, k) == IsSequence(e) /\ \E d : Depths(e, d) /\ d[Len(e)] = k

\* A node takes three operands at most.
LEMMA Arities == \A n : Arity(n) \in 0..3
BY DEF Arity

\* No nodes leave no value.
LEMMA NothingYields == Yields(<<>>, 0)
<1> DEFINE d == [i \in 0..0 |-> 0]
<1>1. Depths(<<>>, d) /\ d[0] = 0
  BY Empty DEF Depths
<1> HIDE DEF d
<1> QED
  BY <1>1, Empty DEF Yields

\* A node takes its operands and leaves a value.
LEMMA NodeYields ==
    ASSUME NEW e, NEW k, Yields(e, k), NEW n, Arity(n) <= k
    PROVE  Yields(Append(e, n), k - Arity(n) + 1)
<1>1. IsSequence(e)
  BY DEF Yields
<1>2. PICK d : Depths(e, d) /\ d[Len(e)] = k
  BY DEF Yields
<1>3. PICK m \in Nat : m = Len(e)
  BY <1>1, Lengths
<1> DEFINE f == Append(e, n)
           c == [i \in 0..(m + 1) |-> IF i <= m THEN d[i] ELSE k - Arity(n) + 1]
<1>4. /\ IsSequence(f) /\ Len(f) = m + 1 /\ f[m + 1] = n
      /\ \A i \in 1..m : f[i] = e[i]
  BY <1>1, <1>3, Appended
<1> HIDE DEF f
<1>5. /\ d[0] = 0 /\ \A i \in 0..m : d[i] \in Nat
      /\ \A i \in 1..m : Arity(e[i]) <= d[i - 1] /\ d[i] = d[i - 1] - Arity(e[i]) + 1
      /\ d[m] = k /\ k \in Nat
  BY <1>2, <1>3 DEF Depths
<1>6. Arity(n) \in 0..3
  BY Arities
<1>7. /\ \A i \in 0..m : c[i] = d[i]
      /\ c[m + 1] = k - Arity(n) + 1 /\ k - Arity(n) + 1 \in Nat
  BY <1>6, <1>5
<1> HIDE DEF c
<1>8. \A i \in 0..(m + 1) : c[i] \in Nat
  BY <1>5, <1>7
<1>9. ASSUME NEW i \in 1..(m + 1)
      PROVE  Arity(f[i]) <= c[i - 1] /\ c[i] = c[i - 1] - Arity(f[i]) + 1
  <2>1. CASE i = m + 1
    BY <1>4, <1>5, <1>7, <2>1
  <2>2. CASE i # m + 1
    <3>1. i \in 1..m /\ i - 1 \in 0..m /\ i \in 0..m
      BY <2>2
    <3> QED
      BY <1>4, <1>5, <1>7, <3>1
  <2> QED
    BY <2>1, <2>2
<1>10. Depths(f, c)
  BY <1>4, <1>5, <1>7, <1>8, <1>9 DEF Depths
<1> QED
  BY <1>4, <1>7, <1>10 DEF Yields, f

\* What stands beside something leaves its values on top.
LEMMA BesideYields ==
    ASSUME NEW a, NEW b, NEW j, NEW k, Yields(a, j), Yields(b, k)
    PROVE  Yields(a \o b, j + k)
<1>1. IsSequence(a) /\ IsSequence(b)
  BY DEF Yields
<1>2. PICK da : Depths(a, da) /\ da[Len(a)] = j
  BY DEF Yields
<1>3. PICK db : Depths(b, db) /\ db[Len(b)] = k
  BY DEF Yields
<1>4. PICK m \in Nat : m = Len(a)
  BY <1>1, Lengths
<1>5. PICK n \in Nat : n = Len(b)
  BY <1>1, Lengths
<1> DEFINE f == a \o b
           c == [i \in 0..(m + n) |-> IF i <= m THEN da[i] ELSE j + db[i - m]]
<1>6. /\ IsSequence(f) /\ Len(f) = m + n
      /\ \A i \in 1..m : f[i] = a[i]
      /\ \A i \in (m + 1)..(m + n) : f[i] = b[i - m]
  BY <1>1, <1>4, <1>5, Concatenated
<1> HIDE DEF f
<1>7. /\ da[0] = 0 /\ \A i \in 0..m : da[i] \in Nat
      /\ \A i \in 1..m : Arity(a[i]) <= da[i - 1] /\ da[i] = da[i - 1] - Arity(a[i]) + 1
      /\ da[m] = j /\ j \in Nat
  BY <1>2, <1>4 DEF Depths
<1>8. /\ db[0] = 0 /\ \A i \in 0..n : db[i] \in Nat
      /\ \A i \in 1..n : Arity(b[i]) <= db[i - 1] /\ db[i] = db[i - 1] - Arity(b[i]) + 1
      /\ db[n] = k /\ k \in Nat
  BY <1>3, <1>5 DEF Depths
<1>9. /\ \A i \in 0..m : c[i] = da[i]
      /\ \A i \in 0..n : c[m + i] = j + db[i]
  <2>1. \A i \in 0..m : c[i] = da[i]
    OBVIOUS
  <2>2. ASSUME NEW i \in 0..n PROVE c[m + i] = j + db[i]
    <3>1. CASE i = 0
      BY <1>7, <1>8, <2>1, <3>1
    <3>2. CASE i # 0
      <4>1. m + i \in 0..(m + n) /\ ~(m + i <= m) /\ m + i - m = i
        BY <3>2
      <4> QED
        BY <4>1
    <3> QED
      BY <3>1, <3>2
  <2> QED
    BY <2>1, <2>2
<1> HIDE DEF c
<1>10. ASSUME NEW i \in 0..(m + n) PROVE c[i] \in Nat
  <2>1. CASE i <= m
    BY <1>7, <1>9, <2>1
  <2>2. CASE ~(i <= m)
    <3>1. PICK p \in 0..n : i = m + p
      <4>1. i - m \in 0..n /\ i = m + (i - m)
        BY <2>2
      <4> QED
        BY <4>1
    <3> QED
      BY <1>7, <1>8, <1>9, <3>1
  <2> QED
    BY <2>1, <2>2
<1>11. ASSUME NEW i \in 1..(m + n)
       PROVE  Arity(f[i]) <= c[i - 1] /\ c[i] = c[i - 1] - Arity(f[i]) + 1
  <2>0. Arity(f[i]) \in 0..3
    BY Arities
  <2>1. CASE i <= m
    <3>1. i \in 1..m /\ i - 1 \in 0..m /\ i \in 0..m
      BY <2>1
    <3> QED
      BY <1>6, <1>7, <1>9, <3>1
  <2>2. CASE ~(i <= m)
    <3>1. PICK p \in 1..n : i = m + p
      <4>1. i - m \in 1..n /\ i = m + (i - m)
        BY <2>2
      <4> QED
        BY <4>1
    <3>2. f[i] = b[p]
      <4>1. i \in (m + 1)..(m + n) /\ i - m = p
        BY <3>1
      <4> QED
        BY <1>6, <4>1
    <3>3. c[i] = j + db[p] /\ c[i - 1] = j + db[p - 1]
      <4>1. p \in 0..n /\ p - 1 \in 0..n /\ i - 1 = m + (p - 1)
        BY <3>1
      <4> QED
        BY <1>9, <3>1, <4>1
    <3>4. db[p] \in Nat /\ db[p - 1] \in Nat
      BY <1>8
    <3> QED
      BY <1>7, <1>8, <2>0, <3>1, <3>2, <3>3, <3>4
  <2> QED
    BY <2>1, <2>2
<1>12. Depths(f, c)
  BY <1>6, <1>7, <1>9, <1>10, <1>11 DEF Depths
<1>13. c[m + n] = j + k
  BY <1>8, <1>9
<1> QED
  BY <1>6, <1>12, <1>13 DEF Yields, f

\* Without its last node, what a node of one operand stands on.
LEMMA OperandYields ==
    ASSUME NEW e, Yields(e, 1), Arity(e[Len(e)]) = 1
    PROVE  Yields(SubSeq(e, 1, Len(e) - 1), 1)
<1>1. IsSequence(e)
  BY DEF Yields
<1>2. PICK d : Depths(e, d) /\ d[Len(e)] = 1
  BY DEF Yields
<1>3. PICK m \in Nat : m = Len(e)
  BY <1>1, Lengths
<1>4. m # 0
  BY <1>2, <1>3 DEF Depths
<1> DEFINE f == SubSeq(e, 1, m - 1)
<1>5. /\ IsSequence(f) /\ Len(f) = m - 1
      /\ \A i \in 1..(m - 1) : f[i] = e[i]
  <2>1. 0 \in Nat /\ m - 1 \in Nat /\ 0 <= m - 1 /\ m - 1 <= Len(e) /\ 0 + 1 = 1
    BY <1>3, <1>4
  <2>2. /\ IsSequence(SubSeq(e, 0 + 1, m - 1)) /\ Len(SubSeq(e, 0 + 1, m - 1)) = (m - 1) - 0
        /\ \A i \in 1..((m - 1) - 0) : SubSeq(e, 0 + 1, m - 1)[i] = e[0 + i]
    BY <1>1, <2>1, Part
  <2> QED
    BY <2>1, <2>2
<1> HIDE DEF f
<1>6. /\ d[0] = 0 /\ \A i \in 0..m : d[i] \in Nat
      /\ \A i \in 1..m : Arity(e[i]) <= d[i - 1] /\ d[i] = d[i - 1] - Arity(e[i]) + 1
      /\ d[m] = 1
  BY <1>2, <1>3 DEF Depths
<1>7. Depths(f, d)
  BY <1>4, <1>5, <1>6 DEF Depths
<1>8. d[m - 1] = 1
  <2>1. m \in 1..m /\ m - 1 \in 0..m
    BY <1>4
  <2>2. d[m] = d[m - 1] - Arity(e[m]) + 1 /\ Arity(e[m]) = 1 /\ d[m - 1] \in Nat
    BY <1>3, <1>6, <2>1
  <2> QED
    BY <1>6, <2>2
<1> QED
  BY <1>3, <1>5, <1>7, <1>8 DEF Yields, f

----------------------------------------------------------------------------
(* Proper is what TLC evaluates of Yields.                                   *)

\* What TLC evaluates as proper is a tree.
LEMMA ProperYields ==
    ASSUME NEW e, Proper(e)
    PROVE  Yields(e, 1)
<1> DEFINE Rec(f, n) == f = [i \in 0..n |-> IF i = 0 THEN 0 ELSE f[i - 1] - Arity(e[i]) + 1]
           S == {n \in Nat : \E f : Rec(f, n)}
           depth == CHOOSE f : Rec(f, Len(e))
<1>1. e \in Seq({e[i] : i \in DOMAIN e})
  BY DEF Proper
<1>2. IsSequence(e) /\ Len(e) \in Nat /\ DOMAIN e = 1..Len(e)
  BY <1>1, Lengths DEF IsSequence
<1>3. /\ \A i \in DOMAIN e : Arity(e[i]) <= depth[i - 1]
      /\ depth[Len(e)] = 1
  BY DEF Proper
<1>4. 0 \in S
  <2> DEFINE g == [i \in 0..0 |-> 0]
  <2>1. Rec(g, 0)
    OBVIOUS
  <2> HIDE DEF g
  <2> QED
    BY <2>1
<1>5. ASSUME NEW n \in Nat, n \in S PROVE n + 1 \in S
  <2>1. PICK f : Rec(f, n)
    BY <1>5
  <2> DEFINE g == [i \in 0..(n + 1) |-> IF i <= n THEN f[i] ELSE f[n] - Arity(e[n + 1]) + 1]
  <2>2. Rec(g, n + 1)
    <3>1. ASSUME NEW i \in 0..(n + 1)
          PROVE  g[i] = IF i = 0 THEN 0 ELSE g[i - 1] - Arity(e[i]) + 1
      <4>1. CASE i = n + 1
        BY <4>1
      <4>2. CASE i # n + 1
        <5>1. i \in 0..n /\ (i # 0 => i - 1 \in 0..n)
          BY <4>2
        <5> QED
          BY <2>1, <5>1
      <4> QED
        BY <4>1, <4>2
    <3> QED
      BY <3>1
  <2> HIDE DEF g
  <2> QED
    BY <2>2
<1>6. Rec(depth, Len(e))
  <2> HIDE DEF Rec
  <2>1. Len(e) \in S
    <3> HIDE DEF S
    <3> QED
      BY <1>2, <1>4, <1>5, Induction
  <2> QED
    BY <2>1
<1> HIDE DEF depth
<1>7. /\ depth[0] = 0
      /\ \A i \in 1..Len(e) : depth[i] = depth[i - 1] - Arity(e[i]) + 1
  BY <1>2, <1>6
<1>8. \A i \in 1..Len(e) : Arity(e[i]) <= depth[i - 1]
  BY <1>2, <1>3
<1>9. \A n \in Nat : n <= Len(e) => depth[n] \in Nat
  <2> DEFINE T == {n \in Nat : n <= Len(e) => depth[n] \in Nat}
  <2>1. 0 \in T
    BY <1>7
  <2>2. ASSUME NEW n \in Nat, n \in T PROVE n + 1 \in T
    <3>1. SUFFICES ASSUME n + 1 <= Len(e) PROVE depth[n + 1] \in Nat
      OBVIOUS
    <3>2. depth[n] \in Nat /\ n + 1 \in 1..Len(e) /\ n + 1 - 1 = n
      BY <1>2, <2>2, <3>1
    <3>3. Arity(e[n + 1]) \in 0..3
      BY Arities
    <3> QED
      BY <1>7, <1>8, <3>2, <3>3
  <2> HIDE DEF T
  <2>3. \A n \in Nat : n \in T
    BY <2>1, <2>2, Induction
  <2> QED
    BY <2>3 DEF T
<1>10. Depths(e, depth)
  BY <1>2, <1>7, <1>8, <1>9 DEF Depths
<1> QED
  BY <1>2, <1>3, <1>10 DEF Yields

----------------------------------------------------------------------------
(* Simplify makes a tree of a tree, and reads nothing new.                   *)

\* A tree that reads nothing but names.
Tree(e, names) == Yields(e, 1) /\ Reads(e) \subseteq names

\* An expression reads the names of its nodes.
LEMMA ReadsOf ==
    ASSUME NEW e, NEW names, IsSequence(e),
           \A i \in 1..Len(e) : IsVar(e[i]) => e[i].name \in names
    PROVE  Reads(e) \subseteq names
BY Lengths DEF Reads

\* It reads each of them.
LEMMA NamesRead ==
    ASSUME NEW e, IsSequence(e), NEW i \in 1..Len(e), IsVar(e[i])
    PROVE  e[i].name \in Reads(e)
BY Lengths DEF Reads

\* A leaf is a tree.
LEMMA LeafTree ==
    ASSUME NEW n, NEW names, Arity(n) = 0, IsVar(n) => n.name \in names
    PROVE  Tree(<<n>>, names)
<1>1. Append(<<>>, n) = <<n>>
  OBVIOUS
<1>2. Yields(<<n>>, 1)
  <2>1. Arity(n) <= 0 /\ 0 - Arity(n) + 1 = 1
    OBVIOUS
  <2>2. Yields(Append(<<>>, n), 0 - Arity(n) + 1)
    BY <2>1, NothingYields, NodeYields
  <2> QED
    BY <1>1, <2>1, <2>2
<1>3. Reads(<<n>>) \subseteq names
  BY Singles, ReadsOf
<1> QED
  BY <1>2, <1>3 DEF Tree

\* A constant is a tree that reads nothing.
LEMMA ConstTree == \A v, b, names : Tree(Const(v, b), names)
<1> TAKE v, b, names
<1>1. Arity(Literal(v, b)) = 0 /\ ~IsVar(Literal(v, b))
  BY DEF Arity, Leaves, Literal, IsVar
<1> QED
  BY <1>1, LeafTree DEF Const

\* A node that is no name reads nothing more.
LEMMA AppendReads ==
    ASSUME NEW e, IsSequence(e), NEW n, ~IsVar(n)
    PROVE  Reads(Append(e, n)) \subseteq Reads(e)
<1> DEFINE f == Append(e, n)
<1>1. /\ IsSequence(f) /\ Len(f) = Len(e) + 1 /\ f[Len(e) + 1] = n
      /\ \A i \in 1..Len(e) : f[i] = e[i]
  BY Appended
<1> HIDE DEF f
<1>2. ASSUME NEW i \in 1..Len(f), IsVar(f[i]) PROVE f[i].name \in Reads(e)
  <2>1. Len(e) \in Nat
    BY Lengths
  <2>2. i \in 1..Len(e)
    BY <1>1, <1>2, <2>1
  <2> QED
    BY <1>1, <1>2, <2>2, NamesRead
<1>3. Reads(f) \subseteq Reads(e)
  BY <1>1, <1>2, ReadsOf
<1> QED
  BY <1>3 DEF f

\* What stands side by side reads what either reads.
LEMMA ConcatReads ==
    ASSUME NEW a, NEW b, IsSequence(a), IsSequence(b)
    PROVE  Reads(a \o b) \subseteq Reads(a) \cup Reads(b)
<1> DEFINE f == a \o b
<1>1. /\ IsSequence(f) /\ Len(f) = Len(a) + Len(b)
      /\ \A i \in 1..Len(a) : f[i] = a[i]
      /\ \A i \in (Len(a) + 1)..(Len(a) + Len(b)) : f[i] = b[i - Len(a)]
  BY Concatenated
<1> HIDE DEF f
<1>2. ASSUME NEW i \in 1..Len(f), IsVar(f[i]) PROVE f[i].name \in Reads(a) \cup Reads(b)
  <2>1. Len(a) \in Nat /\ Len(b) \in Nat
    BY Lengths
  <2>2. CASE i <= Len(a)
    <3>1. i \in 1..Len(a)
      BY <2>1, <2>2
    <3> QED
      BY <1>1, <1>2, <3>1, NamesRead
  <2>3. CASE ~(i <= Len(a))
    <3>1. i \in (Len(a) + 1)..(Len(a) + Len(b)) /\ i - Len(a) \in 1..Len(b)
      BY <1>1, <2>1, <2>3
    <3> QED
      BY <1>1, <1>2, <3>1, NamesRead
  <2> QED
    BY <2>2, <2>3
<1>3. Reads(f) \subseteq Reads(a) \cup Reads(b)
  BY <1>1, <1>2, ReadsOf
<1> QED
  BY <1>3 DEF f

\* A node with operands is no name.
LEMMA Inner ==
    ASSUME NEW n, Arity(n) # 0
    PROVE  ~IsVar(n)
BY DEF Arity, Leaves, IsVar

\* A node over a tree is a tree.
LEMMA UnaryTree ==
    ASSUME NEW a, NEW names, Tree(a, names), NEW n, Arity(n) = 1
    PROVE  Tree(Append(a, n), names)
<1>1. Yields(Append(a, n), 1 - 1 + 1)
  BY NodeYields DEF Tree
<1>2. Reads(Append(a, n)) \subseteq Reads(a)
  BY Inner, AppendReads DEF Tree, Yields
<1> QED
  BY <1>1, <1>2 DEF Tree

\* A node over two or three trees.
LEMMA LastOfMany ==
    ASSUME NEW e, NEW k, Yields(e, k), NEW names, Reads(e) \subseteq names,
           NEW n, Arity(n) = k, k # 0
    PROVE  Tree(e \o <<n>>, names)
<1>1. e \o <<n>> = Append(e, n)
  <2>1. PICK S : e \in Seq(S)
    BY DEF Yields, IsSequence
  <2> DEFINE T == S \cup {n}
  <2>2. e \in Seq(T) /\ n \in T
    BY <2>1
  <2> HIDE DEF T
  <2> QED
    BY <2>2
<1>2. k \in 0..3
  BY Arities
<1>3. Yields(Append(e, n), k - k + 1)
  BY <1>2, NodeYields
<1>4. k - k + 1 = 1
  BY <1>2
<1>5. Reads(Append(e, n)) \subseteq Reads(e)
  BY Inner, AppendReads DEF Yields
<1> QED
  BY <1>1, <1>3, <1>4, <1>5 DEF Tree

\* A node over two trees is a tree.
LEMMA BinaryTree ==
    ASSUME NEW a, NEW b, NEW names, Tree(a, names), Tree(b, names),
           NEW op, Arity([op |-> op]) = 2
    PROVE  Tree(Binary(op, a, b), names)
<1>1. Yields(a \o b, 1 + 1)
  BY BesideYields DEF Tree
<1>2. Reads(a \o b) \subseteq names
  BY ConcatReads DEF Tree, Yields
<1>3. 1 + 1 = 2
  OBVIOUS
<1>4. Yields(a \o b, 2)
  BY <1>1, <1>3
<1> QED
  BY <1>2, <1>4, LastOfMany DEF Binary

\* An ite over three trees is a tree.
LEMMA IteTree ==
    ASSUME NEW c, NEW a, NEW b, NEW names, Tree(c, names), Tree(a, names), Tree(b, names)
    PROVE  Tree(Ite(c, a, b), names)
<1>1. Yields(c \o a, 1 + 1) /\ Reads(c \o a) \subseteq names
  BY BesideYields, ConcatReads DEF Tree, Yields
<1>2. Yields((c \o a) \o b, (1 + 1) + 1)
  BY <1>1, BesideYields DEF Tree
<1>3. Reads((c \o a) \o b) \subseteq names
  BY <1>1, ConcatReads DEF Tree, Yields
<1>4. (1 + 1) + 1 = 3 /\ Arity([op |-> "ite"]) = 3
  BY DEF Arity, Leaves
<1>5. Tree(((c \o a) \o b) \o <<[op |-> "ite"]>>, names)
  BY <1>2, <1>3, <1>4, LastOfMany
<1> QED
  BY <1>5 DEF Ite

\* The operand of a root that takes one is a tree.
LEMMA OperandTree ==
    ASSUME NEW e, NEW names, Tree(e, names), Arity(e[Len(e)]) = 1
    PROVE  Tree(SubSeq(e, 1, Len(e) - 1), names)
<1>1. IsSequence(e) /\ Yields(SubSeq(e, 1, Len(e) - 1), 1)
  BY OperandYields DEF Tree, Yields
<1> DEFINE f == SubSeq(e, 1, Len(e) - 1)
<1>2. IsSequence(f)
  BY <1>1 DEF Yields
<1>3. Len(e) \in Nat /\ Len(e) # 0
  BY <1>1, Lengths DEF Tree, Yields, Depths
<1>4. Len(f) = Len(e) - 1 /\ \A i \in 1..(Len(e) - 1) : f[i] = e[0 + i]
  <2>1. 0 \in Nat /\ Len(e) - 1 \in Nat /\ 0 <= Len(e) - 1 /\ Len(e) - 1 <= Len(e)
        /\ 0 + 1 = 1 /\ (Len(e) - 1) - 0 = Len(e) - 1
    BY <1>3
  <2> QED
    BY <1>1, <2>1, Part
<1> HIDE DEF f
<1>5. ASSUME NEW i \in 1..Len(f), IsVar(f[i]) PROVE f[i].name \in Reads(e)
  <2>1. i \in 1..Len(e) /\ f[i] = e[i]
    BY <1>3, <1>4
  <2> QED
    BY <1>1, <1>5, <2>1, NamesRead
<1>6. Reads(f) \subseteq Reads(e)
  BY <1>2, <1>5, ReadsOf
<1> QED
  BY <1>1, <1>6 DEF Tree, f

\* simplify_binary makes a tree of trees.
LEMMA FoldedTree ==
    ASSUME NEW op, NEW a, NEW b, NEW names, Tree(a, names), Tree(b, names),
           Arity([op |-> op]) = 2
    PROVE  Tree(FoldBinary(op, a, b), names)
<1>1. Tree(Binary(op, a, b), names)
  BY BinaryTree
<1>2. Tree(FoldConstants(op, a, b), names)
  BY ConstTree DEF FoldConstants
<1>3. \A v, w : Tree(Const(v, w), names)
  BY ConstTree
<1>4. FoldBinary(op, a, b) \in {a, b, Binary(op, a, b), FoldConstants(op, a, b),
                                Const(0, ExprBits(a)), Const(Flag(op = "eq"), 1)}
  BY DEF FoldBinary
<1> QED
  BY <1>1, <1>2, <1>3, <1>4

\* A node rebuilt over trees is a tree.
LEMMA RebuiltTree ==
    ASSUME NEW n, NEW a, NEW names, IsVar(n) => n.name \in names,
           \A i \in 1..Arity(n) : Tree(a[i], names)
    PROVE  Tree(Rebuilt(n, a), names)
<1>1. CASE Arity(n) = 0
  <2>1. Rebuilt(n, a) = <<n>>
    BY <1>1 DEF Arity, Leaves, Rebuilt
  <2> QED
    BY <1>1, <2>1, LeafTree
<1>2. CASE n.op = "not"
  <2>1. Arity(n) = 1 /\ Rebuilt(n, a) = FoldNot(a[1])
    BY <1>2 DEF Arity, Leaves, Rebuilt
  <2>2. Tree(a[1], names)
    BY <2>1
  <2>3. Arity([op |-> "not"]) = 1
    BY DEF Arity, Leaves
  <2>4. Tree(Not(a[1]), names)
    BY <2>2, <2>3, UnaryTree DEF Not
  <2>5. ASSUME a[1][Len(a[1])].op = "not"
        PROVE  Tree(SubSeq(a[1], 1, Len(a[1]) - 1), names)
    <3>1. Arity(a[1][Len(a[1])]) = 1
      BY <2>5 DEF Arity, Leaves
    <3> QED
      BY <2>2, <3>1, OperandTree
  <2>6. Tree(Const(Flag(a[1][1].value = 0), 1), names)
    BY ConstTree
  <2>7. Tree(FoldNot(a[1]), names)
    BY <2>4, <2>5, <2>6 DEF FoldNot
  <2> QED
    BY <2>1, <2>7
<1>3. CASE n.op = "ite"
  <2>1. Arity(n) = 3 /\ Rebuilt(n, a) = FoldIte(a[1], a[2], a[3])
    BY <1>3 DEF Arity, Leaves, Rebuilt
  <2>2. Tree(a[1], names) /\ Tree(a[2], names) /\ Tree(a[3], names)
    BY <2>1
  <2>3. Tree(Ite(a[1], a[2], a[3]), names)
    BY <2>2, IteTree
  <2>4. Tree(FoldIte(a[1], a[2], a[3]), names)
    BY <2>2, <2>3 DEF FoldIte
  <2> QED
    BY <2>1, <2>4
<1>4. CASE n.op = "extract"
  <2>1. Arity(n) = 1 /\ Rebuilt(n, a) = FoldExtract(a[1], n.hi, n.lo)
    BY <1>4 DEF Arity, Leaves, Rebuilt
  <2>2. Tree(a[1], names)
    BY <2>1
  <2> DEFINE inner == SubSeq(a[1], 1, Len(a[1]) - 1)
  <2>3. ASSUME NEW e, Tree(e, names) PROVE Tree(Extract(e, n.hi, n.lo), names)
    <3>1. Arity([op |-> "extract", hi |-> n.hi, lo |-> n.lo]) = 1
      BY DEF Arity, Leaves
    <3> QED
      BY <2>3, <3>1, UnaryTree DEF Extract
  <2>4. ASSUME a[1][Len(a[1])].op = "zext" PROVE Tree(inner, names)
    <3>1. Arity(a[1][Len(a[1])]) = 1
      BY <2>4 DEF Arity, Leaves
    <3> QED
      BY <2>2, <3>1, OperandTree
  <2>5. \/ FoldExtract(a[1], n.hi, n.lo) = a[1]
        \/ /\ a[1][Len(a[1])].op = "zext"
           /\ FoldExtract(a[1], n.hi, n.lo) = Extract(inner, n.hi, n.lo)
        \/ FoldExtract(a[1], n.hi, n.lo) = Extract(a[1], n.hi, n.lo)
    BY DEF FoldExtract
  <2> HIDE DEF inner
  <2>6. Tree(FoldExtract(a[1], n.hi, n.lo), names)
    BY <2>2, <2>3, <2>4, <2>5
  <2> QED
    BY <2>1, <2>6
<1>5. CASE n.op \in {"zext", "sext"}
  <2>1. Arity(n) = 1 /\ Rebuilt(n, a) = FoldExtend(n, a[1])
    BY <1>5 DEF Arity, Leaves, Rebuilt
  <2>2. Tree(a[1], names)
    BY <2>1
  <2>3. Tree(Append(a[1], n), names)
    BY <2>1, <2>2, UnaryTree
  <2> QED
    BY <2>1, <2>2, <2>3 DEF FoldExtend
<1>6. CASE Arity(n) # 0 /\ n.op \notin {"not", "ite", "extract", "zext", "sext"}
  <2>1. Arity(n) = 2 /\ Rebuilt(n, a) = FoldBinary(n.op, a[1], a[2])
    BY <1>6 DEF Arity, Leaves, Rebuilt
  <2>2. Tree(a[1], names) /\ Tree(a[2], names)
    BY <2>1
  <2>3. Arity([op |-> n.op]) = 2
    BY <1>6, <2>1 DEF Arity, Leaves
  <2> QED
    BY <2>1, <2>2, <2>3, FoldedTree
<1> QED
  BY <1>1, <1>2, <1>3, <1>4, <1>5, <1>6

\* Simplify makes a tree, of the same names.
LEMMA SimplifyTree ==
    ASSUME NEW e, NEW names, Tree(e, names)
    PROVE  Tree(Simplify(e), names)
<1> DEFINE Push(below, n) ==
               Append(SubSeq(below, 1, Len(below) - Arity(n)),
                      Rebuilt(n, SubSeq(below, (Len(below) - Arity(n)) + 1, Len(below))))
           Rec(f, m) == f = [i \in 0..m |-> IF i = 0 THEN <<>> ELSE Push(f[i - 1], e[i])]
           S == {m \in Nat : \E f : Rec(f, m)}
           stack == CHOOSE f : Rec(f, Len(e))
<1>1. Simplify(e) = stack[Len(e)][1]
  BY DEF Simplify, Fold
<1>2. IsSequence(e) /\ Len(e) \in Nat
  BY Lengths DEF Tree, Yields
<1>3. 0 \in S
  <2> DEFINE g == [i \in 0..0 |-> <<>>]
  <2> HIDE DEF Push
  <2>1. Rec(g, 0)
    OBVIOUS
  <2> HIDE DEF g
  <2> QED
    BY <2>1
<1>4. ASSUME NEW m \in Nat, m \in S PROVE m + 1 \in S
  <2> HIDE DEF Push
  <2>1. PICK f : Rec(f, m)
    BY <1>4
  <2> DEFINE g == [i \in 0..(m + 1) |-> IF i <= m THEN f[i] ELSE Push(f[m], e[m + 1])]
  <2>2. Rec(g, m + 1)
    <3>1. ASSUME NEW i \in 0..(m + 1)
          PROVE  g[i] = IF i = 0 THEN <<>> ELSE Push(g[i - 1], e[i])
      <4>1. CASE i = m + 1
        BY <4>1
      <4>2. CASE i # m + 1
        <5>1. i \in 0..m /\ (i # 0 => i - 1 \in 0..m)
          BY <4>2
        <5> QED
          BY <2>1, <5>1
      <4> QED
        BY <4>1, <4>2
    <3> QED
      BY <3>1
  <2> HIDE DEF g
  <2> QED
    BY <2>2
<1>5. Rec(stack, Len(e))
  <2> HIDE DEF Rec
  <2>1. Len(e) \in S
    <3> HIDE DEF S
    <3> QED
      BY <1>2, <1>3, <1>4, Induction
  <2> QED
    BY <2>1
<1> HIDE DEF stack
<1>6. stack[0] = <<>> /\ \A i \in 1..Len(e) : stack[i] = Push(stack[i - 1], e[i])
  <2> HIDE DEF Push
  <2> QED
    BY <1>2, <1>5
<1>7. PICK d : Depths(e, d) /\ d[Len(e)] = 1
  BY DEF Tree, Yields
<1> DEFINE Stacked(q, k) == IsSequence(q) /\ Len(q) = k /\ \A i \in 1..k : Tree(q[i], names)
<1>8. ASSUME NEW q, NEW k \in Nat, NEW n, Stacked(q, k), Arity(n) <= k,
             IsVar(n) => n.name \in names
      PROVE  Stacked(Push(q, n), k - Arity(n) + 1)
  <2> DEFINE rest == k - Arity(n)
             args == SubSeq(q, rest + 1, k)
             kept == SubSeq(q, 1, rest)
  <2>1. rest \in Nat /\ rest <= k /\ k - rest = Arity(n) /\ rest - 0 = rest
        /\ 0 \in Nat /\ 0 <= rest /\ 0 + 1 = 1
    BY <1>8, Arities
  <2>2. /\ \A i \in 1..(k - rest) : args[i] = q[rest + i]
    BY <1>8, <2>1, Part
  <2>3. IsSequence(kept) /\ Len(kept) = rest /\ \A i \in 1..rest : kept[i] = q[0 + i]
    <3>1. /\ IsSequence(SubSeq(q, 0 + 1, rest)) /\ Len(SubSeq(q, 0 + 1, rest)) = rest - 0
          /\ \A i \in 1..(rest - 0) : SubSeq(q, 0 + 1, rest)[i] = q[0 + i]
      BY <1>8, <2>1, Part
    <3> QED
      BY <2>1, <3>1
  <2>4. Push(q, n) = Append(kept, Rebuilt(n, args))
    BY <1>8
  <2> HIDE DEF args, kept, Push
  <2>5. \A i \in 1..Arity(n) : Tree(args[i], names)
    <3> SUFFICES ASSUME NEW i \in 1..Arity(n) PROVE Tree(args[i], names)
      OBVIOUS
    <3>1. args[i] = q[rest + i] /\ rest + i \in 1..k
      BY <2>1, <2>2, Arities
    <3> QED
      BY <1>8, <3>1
  <2>6. Tree(Rebuilt(n, args), names)
    BY <1>8, <2>5, RebuiltTree
  <2>7. \A i \in 1..rest : Tree(kept[i], names)
    <3> SUFFICES ASSUME NEW i \in 1..rest PROVE Tree(kept[i], names)
      OBVIOUS
    <3>1. kept[i] = q[i] /\ i \in 1..k
      BY <2>1, <2>3
    <3> QED
      BY <1>8, <3>1
  <2> HIDE DEF rest
  <2> DEFINE r == Push(q, n)
  <2>8. /\ IsSequence(r) /\ Len(r) = rest + 1 /\ r[rest + 1] = Rebuilt(n, args)
        /\ \A i \in 1..rest : r[i] = kept[i]
    BY <2>3, <2>4, Appended
  <2> HIDE DEF r
  <2>9. \A i \in 1..(rest + 1) : Tree(r[i], names)
    <3> SUFFICES ASSUME NEW i \in 1..(rest + 1) PROVE Tree(r[i], names)
      OBVIOUS
    <3>1. CASE i = rest + 1
      BY <2>6, <2>8, <3>1
    <3>2. CASE i # rest + 1
      <4>1. i \in 1..rest
        BY <2>1, <3>2
      <4> QED
        BY <2>7, <2>8, <4>1
    <3> QED
      BY <3>1, <3>2
  <2> QED
    BY <2>8, <2>9 DEF r, rest
<1>9. \A m \in Nat : m <= Len(e) => Stacked(stack[m], d[m])
  <2> DEFINE T == {m \in Nat : m <= Len(e) => Stacked(stack[m], d[m])}
  <2>1. 0 \in T
    <3>1. d[0] = 0
      BY <1>7 DEF Depths
    <3> QED
      BY <1>6, <3>1, Empty
  <2>2. ASSUME NEW m \in Nat, m \in T PROVE m + 1 \in T
    <3> HIDE DEF Stacked, Push
    <3>1. SUFFICES ASSUME m + 1 <= Len(e) PROVE Stacked(stack[m + 1], d[m + 1])
      OBVIOUS
    <3>2. m \in 0..Len(e) /\ m + 1 \in 1..Len(e) /\ m + 1 - 1 = m /\ m <= Len(e)
      BY <1>2, <3>1
    <3>3. Stacked(stack[m], d[m]) /\ d[m] \in Nat /\ Arity(e[m + 1]) <= d[m]
          /\ d[m + 1] = d[m] - Arity(e[m + 1]) + 1
      BY <1>7, <2>2, <3>2 DEF Depths
    <3>4. IsVar(e[m + 1]) => e[m + 1].name \in names
      BY <1>2, <3>2, NamesRead DEF Tree
    <3>5. stack[m + 1] = Push(stack[m], e[m + 1])
      BY <1>6, <3>2
    <3> QED
      BY <1>8, <3>3, <3>4, <3>5
  <2> HIDE DEF T
  <2>3. \A m \in Nat : m \in T
    BY <2>1, <2>2, Induction
  <2> HIDE DEF Stacked
  <2> QED
    BY <2>3 DEF T
<1>10. Stacked(stack[Len(e)], 1)
  <2> HIDE DEF Stacked
  <2> QED
    BY <1>2, <1>7, <1>9
<1> QED
  BY <1>1, <1>10

\* A function on 1..n is a sequence.
LEMMA Mapped ==
    ASSUME NEW n \in Nat, NEW f, f = [i \in 1..n |-> f[i]]
    PROVE  IsSequence(f) /\ Len(f) = n /\ DOMAIN f = 1..n
<1> DEFINE S == {f[i] : i \in 1..n}
<1>1. f \in [1..n -> S]
  OBVIOUS
<1> HIDE DEF S
<1>2. f \in Seq(S)
  BY <1>1
<1>3. DOMAIN f = 1..n
  BY <1>1
<1>4. Len(f) = n
  <2>1. Len(f) \in Nat /\ DOMAIN f = 1..Len(f)
    BY <1>2
  <2> QED
    BY <1>3, <2>1
<1> QED
  BY <1>2, <1>3, <1>4 DEF IsSequence

\* What a tree is depends on the operands that its nodes take only.
LEMMA Relabelled ==
    ASSUME NEW e, NEW k, Yields(e, k), NEW f, IsSequence(f), Len(f) = Len(e),
           \A i \in 1..Len(e) : Arity(f[i]) = Arity(e[i])
    PROVE  Yields(f, k)
<1>1. PICK d : Depths(e, d) /\ d[Len(e)] = k
  BY DEF Yields
<1>2. Depths(f, d)
  BY <1>1 DEF Depths
<1> QED
  BY <1>1, <1>2 DEF Yields

----------------------------------------------------------------------------
(* Stacks.                                                                  *)

\* Sequences of one length with the same elements are the same.
LEMMA SameSequence ==
    ASSUME NEW s, NEW t, IsSequence(s), IsSequence(t), Len(s) = Len(t),
           \A i \in 1..Len(s) : s[i] = t[i]
    PROVE  s = t
<1>1. PICK S : s \in Seq(S)
  BY DEF IsSequence
<1>2. PICK T : t \in Seq(T)
  BY DEF IsSequence
<1> DEFINE U == S \cup T
<1>3. s \in Seq(U) /\ t \in Seq(U)
  BY <1>1, <1>2
<1> HIDE DEF U
<1> QED
  BY <1>3

\* One stack, or sequence of nodes, upon another.
Upon(q, s) == q \o s
\* The operands on top of a stack, and the stack with a value in their place.
Top(q, r) == SubSeq(q, Len(q) - r + 1, Len(q))
\* The stack when a node has taken its operands and left its value.
Push(q, r, x) == Append(SubSeq(q, 1, Len(q) - r), x)

\* The operands of a node are what is on top of the stack.
LEMMA TopIs ==
    ASSUME NEW q, IsSequence(q), NEW r \in Nat, r <= Len(q)
    PROVE  /\ IsSequence(Top(q, r)) /\ Len(Top(q, r)) = r
           /\ \A i \in 1..r : Top(q, r)[i] = q[Len(q) - r + i]
<1>1. Len(q) \in Nat
  BY Lengths
<1> DEFINE m == Len(q) - r
<1>2. m \in Nat /\ m <= Len(q) /\ Len(q) - m = r
  BY <1>1
<1>3. Top(q, r) = SubSeq(q, m + 1, Len(q))
  BY DEF Top
<1> HIDE DEF m
<1>4. /\ IsSequence(SubSeq(q, m + 1, Len(q))) /\ Len(SubSeq(q, m + 1, Len(q))) = Len(q) - m
      /\ \A i \in 1..(Len(q) - m) : SubSeq(q, m + 1, Len(q))[i] = q[m + i]
  BY <1>1, <1>2, Part
<1> QED
  BY <1>2, <1>3, <1>4 DEF m

\* A stack loses the operands of a node, and has its value on top.
LEMMA PushIs ==
    ASSUME NEW q, IsSequence(q), NEW r \in Nat, r <= Len(q), NEW x
    PROVE  /\ IsSequence(Push(q, r, x)) /\ Len(Push(q, r, x)) = Len(q) - r + 1
           /\ \A i \in 1..(Len(q) - r) : Push(q, r, x)[i] = q[i]
           /\ Push(q, r, x)[Len(q) - r + 1] = x
<1>1. Len(q) \in Nat
  BY Lengths
<1> DEFINE m == Len(q) - r
           p == SubSeq(q, 1, m)
<1>2. m \in Nat /\ m <= Len(q) /\ 0 \in Nat /\ 0 <= m /\ 0 + 1 = 1 /\ m - 0 = m
  BY <1>1
<1> HIDE DEF m
<1>3. IsSequence(p) /\ Len(p) = m /\ \A i \in 1..m : p[i] = q[i]
  <2>1. /\ IsSequence(SubSeq(q, 0 + 1, m)) /\ Len(SubSeq(q, 0 + 1, m)) = m - 0
        /\ \A i \in 1..(m - 0) : SubSeq(q, 0 + 1, m)[i] = q[0 + i]
    BY <1>1, <1>2, Part
  <2> QED
    BY <1>2, <2>1
<1>4. Push(q, r, x) = Append(p, x)
  BY DEF Push, m
<1> HIDE DEF p
<1> QED
  BY <1>3, <1>4, Appended DEF m

\* What is below does not matter.
LEMMA PushBeside ==
    ASSUME NEW q, IsSequence(q), NEW s, IsSequence(s), NEW r \in Nat, r <= Len(s)
    PROVE  /\ Top(Upon(q, s), r) = Top(s, r)
           /\ \A x : Push(Upon(q, s), r, x) = Upon(q, Push(s, r, x))
<1>1. PICK m \in Nat : m = Len(q)
  BY Lengths
<1>2. PICK n \in Nat : n = Len(s)
  BY Lengths
<1> DEFINE c == q \o s
<1>3. /\ IsSequence(c) /\ Len(c) = m + n
      /\ \A i \in 1..m : c[i] = q[i]
      /\ \A i \in (m + 1)..(m + n) : c[i] = s[i - m]
  BY <1>1, <1>2, Concatenated
<1> HIDE DEF c
<1>4. r <= n /\ r <= m + n
  BY <1>1, <1>2
<1>5. Top(c, r) = Top(s, r)
  <2>1. /\ IsSequence(Top(c, r)) /\ Len(Top(c, r)) = r
        /\ \A i \in 1..r : Top(c, r)[i] = c[m + n - r + i]
    <3>1. r <= Len(c)
      BY <1>3, <1>4
    <3>2. \A i \in 1..r : Top(c, r)[i] = c[Len(c) - r + i]
      BY <1>3, <3>1, TopIs
    <3> QED
      BY <1>3, <3>1, <3>2, TopIs
  <2>2. /\ IsSequence(Top(s, r)) /\ Len(Top(s, r)) = r
        /\ \A i \in 1..r : Top(s, r)[i] = s[n - r + i]
    BY <1>2, <1>4, TopIs
  <2>3. ASSUME NEW i \in 1..r PROVE c[m + n - r + i] = s[n - r + i]
    <3>1. /\ m + n - r + i \in (m + 1)..(m + n)
          /\ (m + n - r + i) - m = n - r + i
      BY <1>4
    <3> QED
      BY <1>3, <3>1
  <2> QED
    BY <2>1, <2>2, <2>3, SameSequence
<1>6. ASSUME NEW x PROVE Push(c, r, x) = q \o Push(s, r, x)
  <2>1. /\ IsSequence(Push(c, r, x)) /\ Len(Push(c, r, x)) = m + n - r + 1
        /\ \A i \in 1..(m + n - r) : Push(c, r, x)[i] = c[i]
        /\ Push(c, r, x)[m + n - r + 1] = x
    <3>1. IsSequence(c) /\ r <= Len(c)
      BY <1>3, <1>4
    <3>2. /\ IsSequence(Push(c, r, x)) /\ Len(Push(c, r, x)) = Len(c) - r + 1
          /\ \A i \in 1..(Len(c) - r) : Push(c, r, x)[i] = c[i]
          /\ Push(c, r, x)[Len(c) - r + 1] = x
      BY <3>1, PushIs
    <3> QED
      BY <1>3, <3>2
  <2>2. /\ IsSequence(Push(s, r, x)) /\ Len(Push(s, r, x)) = n - r + 1
        /\ \A i \in 1..(n - r) : Push(s, r, x)[i] = s[i]
        /\ Push(s, r, x)[n - r + 1] = x
    BY <1>2, <1>4, PushIs
  <2> DEFINE u == Push(s, r, x)
             v == q \o u
  <2>3. /\ IsSequence(v) /\ Len(v) = m + (n - r + 1)
        /\ \A i \in 1..m : v[i] = q[i]
        /\ \A i \in (m + 1)..(m + (n - r + 1)) : v[i] = u[i - m]
    BY <1>1, <2>2, Concatenated
  <2> HIDE DEF u, v
  <2>4. ASSUME NEW i \in 1..(m + n - r + 1) PROVE Push(c, r, x)[i] = v[i]
    <3>1. CASE i <= m
      <4>1. i \in 1..m /\ i \in 1..(m + n - r)
        BY <1>4, <3>1
      <4> QED
        BY <1>3, <2>1, <2>3, <4>1
    <3>2. CASE i = m + n - r + 1
      <4>1. i \in (m + 1)..(m + (n - r + 1)) /\ i - m = n - r + 1
        BY <1>4, <3>2
      <4>2. v[i] = u[n - r + 1]
        BY <2>3, <4>1
      <4> QED
        BY <2>1, <2>2, <3>2, <4>2 DEF u
    <3>3. CASE ~(i <= m) /\ i # m + n - r + 1
      <4>1. /\ i \in (m + 1)..(m + (n - r + 1)) /\ i \in 1..(m + n - r)
            /\ i \in (m + 1)..(m + n) /\ i - m \in 1..(n - r)
        BY <1>4, <3>3
      <4>2. v[i] = u[i - m] /\ c[i] = s[i - m]
        BY <1>3, <2>3, <4>1
      <4> QED
        BY <2>1, <2>2, <4>1, <4>2 DEF u
    <3> QED
      BY <3>1, <3>2, <3>3
  <2>5. m + n - r + 1 = m + (n - r + 1)
    BY <1>4
  <2>6. Push(c, r, x) = v
    BY <2>1, <2>3, <2>4, <2>5, SameSequence
  <2> QED
    BY <2>6 DEF u, v
<1> QED
  BY <1>5, <1>6 DEF c, Upon

\* A stack upon another one.
LEMMA UponIs ==
    ASSUME NEW s, NEW t, IsSequence(s), IsSequence(t)
    PROVE  /\ IsSequence(Upon(s, t)) /\ Len(Upon(s, t)) = Len(s) + Len(t)
           /\ \A i \in 1..Len(s) : Upon(s, t)[i] = s[i]
           /\ \A i \in 1..Len(t) : Upon(s, t)[Len(s) + i] = t[i]
<1> DEFINE c == s \o t
<1>1. /\ IsSequence(c) /\ Len(c) = Len(s) + Len(t)
      /\ \A i \in 1..Len(s) : c[i] = s[i]
      /\ \A i \in (Len(s) + 1)..(Len(s) + Len(t)) : c[i] = t[i - Len(s)]
  BY Concatenated
<1>2. c = Upon(s, t)
  BY DEF Upon
<1> HIDE DEF c
<1>3. Len(s) \in Nat /\ Len(t) \in Nat
  BY Lengths
<1>4. ASSUME NEW i \in 1..Len(t) PROVE c[Len(s) + i] = t[i]
  <2>1. Len(s) + i \in (Len(s) + 1)..(Len(s) + Len(t)) /\ (Len(s) + i) - Len(s) = i
    BY <1>3
  <2> QED
    BY <1>1, <2>1
<1> QED
  BY <1>1, <1>2, <1>4

\* An empty stack adds nothing.
LEMMA UponNothing ==
    ASSUME NEW q, IsSequence(q)
    PROVE  Upon(q, <<>>) = q /\ Upon(<<>>, q) = q
<1>1. PICK S : q \in Seq(S)
  BY DEF IsSequence
<1> QED
  BY <1>1 DEF Upon

----------------------------------------------------------------------------
(* Nodes leave the same on every stack: what a fold makes of a tree does    *)
(* not depend on what stands below it.                                      *)

\* What Fold builds over the nodes, with the value of every node that it met
\* over operands.
Runs(e, A, st) ==
    /\ st[0] = <<>>
    /\ \A i \in 1..Len(e) :
         /\ <<e[i], Top(st[i - 1], Arity(e[i]))>> \in DOMAIN A
         /\ st[i] = Push(st[i - 1], Arity(e[i]), A[<<e[i], Top(st[i - 1], Arity(e[i]))>>])
\* Two records of values agree wherever both say something.
Agreeing(A, B) == \A p \in DOMAIN A \cap DOMAIN B : A[p] = B[p]

\* The nodes of f are those of e above the first j.
Within(f, e, j) ==
    j \in Nat /\ \A i \in 1..Len(f) : j + i \in 1..Len(e) /\ e[j + i] = f[i]
\* The stack that the nodes of e leave.
Left(e, st) == st[Len(e)]
\* The stack under the nodes that start above the first j.
Under(st, j) == st[j]
\* The stack when the nodes of f were met above the first j.
Reached(st, j, f) == st[j + Len(f)]
\* A stack of k values.
Stacked(q, k) == IsSequence(q) /\ Len(q) = k
\* A node over its operands.
Over(c, n) == Append(c, n)
\* The value of a tree.
Result(e, st) == Left(e, st)[1]
\* The node n was met over the values q.
Met(A, n, q) == <<n, q>> \in DOMAIN A
\* What the node n was worth over the values q.
Made(A, n, q) == A[<<n, q>>]

\* A part of the nodes leaves on the stack what it leaves by itself.
LEMMA RunsAbove ==
    ASSUME NEW e, NEW f, NEW k, Yields(f, k), NEW j, Within(f, e, j),
           NEW A, NEW st, Runs(e, A, st), NEW B, NEW su, Runs(f, B, su),
           Agreeing(A, B), IsSequence(Under(st, j))
    PROVE  /\ IsSequence(Left(f, su)) /\ Len(Left(f, su)) = k
           /\ Reached(st, j, f) = Upon(Under(st, j), Left(f, su))
<1>1. j \in Nat /\ \A i \in 1..Len(f) : j + i \in 1..Len(e) /\ e[j + i] = f[i]
  BY DEF Within
<1>2. IsSequence(st[j])
  BY DEF Under
<1>3. PICK n \in Nat : n = Len(f)
  BY Lengths DEF Yields
<1>4. PICK d : Depths(f, d) /\ d[n] = k
  BY <1>3 DEF Yields
<1>5. /\ d[0] = 0 /\ \A i \in 0..n : d[i] \in Nat
      /\ \A i \in 1..n : Arity(f[i]) <= d[i - 1] /\ d[i] = d[i - 1] - Arity(f[i]) + 1
  BY <1>3, <1>4 DEF Depths
<1> DEFINE Good(i) == IsSequence(su[i]) /\ Len(su[i]) = d[i] /\ st[j + i] = Upon(st[j], su[i])
           T == {i \in Nat : i <= n => Good(i)}
<1>6. 0 \in T
  <2>1. su[0] = <<>> /\ j + 0 = j
    BY <1>1 DEF Runs
  <2> QED
    BY <1>5, <1>2, <2>1, Empty, UponNothing
<1>7. ASSUME NEW i \in Nat, i \in T PROVE i + 1 \in T
  <2> HIDE DEF Good
  <2>1. SUFFICES ASSUME i + 1 <= n PROVE Good(i + 1)
    OBVIOUS
  <2>2. i + 1 \in 1..n /\ i + 1 - 1 = i /\ i \in 0..n /\ i <= n
    BY <2>1
  <2>3. IsSequence(su[i]) /\ Len(su[i]) = d[i] /\ st[j + i] = Upon(st[j], su[i])
    BY <1>7, <2>2 DEF Good
  <2> HIDE DEF T
  <2>4. PICK x : x = f[i + 1]
    OBVIOUS
  <2>5. PICK r \in Nat : r = Arity(x)
    BY Arities
  <2>6. r <= d[i] /\ d[i + 1] = d[i] - r + 1 /\ d[i] \in Nat
    BY <1>5, <2>2, <2>4, <2>5
  <2>7. PICK p : p = <<x, Top(su[i], r)>>
    OBVIOUS
  <2>8. p \in DOMAIN B /\ su[i + 1] = Push(su[i], r, B[p])
    BY <1>3, <2>2, <2>4, <2>5, <2>7 DEF Runs
  <2>9. j \in Nat
    BY <1>1
  <2>10. /\ e[j + (i + 1)] = x /\ j + (i + 1) \in 1..Len(e)
        /\ j + (i + 1) - 1 = j + i
    BY <1>1, <1>3, <2>2, <2>4
  <2>11. r <= Len(su[i])
    BY <2>3, <2>6
  <2>12. IsSequence(st[j]) /\ IsSequence(su[i])
    BY <1>2, <2>3
  <2>13. Top(st[j + i], r) = Top(su[i], r)
    <3>1. Top(Upon(st[j], su[i]), r) = Top(su[i], r)
      BY <2>12, <2>11, PushBeside
    <3> QED
      BY <2>3, <3>1
  <2>14. <<x, Top(st[j + i], r)>> \in DOMAIN A
        /\ st[j + (i + 1)] = Push(st[j + i], r, A[<<x, Top(st[j + i], r)>>])
    BY <2>9, <2>10, <2>5 DEF Runs
  <2>15. A[p] = B[p] /\ st[j + (i + 1)] = Push(st[j + i], r, B[p])
    BY <2>8, <2>13, <2>14, <2>7 DEF Agreeing
  <2>16. Push(Upon(st[j], su[i]), r, B[p]) = Upon(st[j], Push(su[i], r, B[p]))
    <3>1. PICK q : q = st[j]
      OBVIOUS
    <3>2. PICK s : s = su[i]
      OBVIOUS
    <3>3. IsSequence(q) /\ IsSequence(s) /\ r <= Len(s)
      BY <2>12, <2>11, <3>1, <3>2
    <3>4. \A y : Push(Upon(q, s), r, y) = Upon(q, Push(s, r, y))
      BY <3>3, PushBeside
    <3> QED
      BY <3>1, <3>2, <3>4
  <2>17. IsSequence(su[i + 1]) /\ Len(su[i + 1]) = d[i] - r + 1
    BY <2>3, <2>11, <2>8, PushIs
  <2>18. st[j + (i + 1)] = Upon(st[j], su[i + 1])
    BY <2>3, <2>8, <2>15, <2>16
  <2> QED
    BY <2>6, <2>17, <2>18 DEF Good
<1>8. n \in T
  <2> HIDE DEF T
  <2> QED
    BY <1>6, <1>7, Induction
<1>9. Good(n)
  <2> HIDE DEF Good
  <2> QED
    BY <1>8
<1> QED
  BY <1>3, <1>4, <1>9 DEF Left, Under, Reached

\* By itself, or below something.
LEMMA RunsSame ==
    ASSUME NEW a, NEW k, Yields(a, k), NEW A, NEW sa, Runs(a, A, sa),
           NEW C, NEW sc, Runs(a, C, sc), Agreeing(C, A)
    PROVE  Stacked(Left(a, sc), k) /\ Left(a, sc) = Left(a, sa)
<1>1. PICK m \in Nat : m = Len(a)
  BY Lengths DEF Yields
<1>2. PICK j : j = 0
  OBVIOUS
<1>3. Within(a, a, j) /\ j + Len(a) = Len(a)
  BY <1>1, <1>2 DEF Within
<1>4. Under(sc, j) = <<>> /\ IsSequence(Under(sc, j))
  BY <1>2, Empty DEF Runs, Under
<1>5. /\ IsSequence(Left(a, sa)) /\ Len(Left(a, sa)) = k
      /\ Reached(sc, j, a) = Upon(Under(sc, j), Left(a, sa))
  BY <1>3, <1>4, RunsAbove
<1>6. sc[Len(a)] = Left(a, sa)
  BY <1>3, <1>4, <1>5, UponNothing DEF Reached
<1> QED
  BY <1>5, <1>6 DEF Left, Stacked

\* What yields k values leaves a stack of k.
LEMMA RunsLeave ==
    ASSUME NEW a, NEW k, Yields(a, k), NEW A, NEW sa, Runs(a, A, sa)
    PROVE  Stacked(Left(a, sa), k)
<1>1. Agreeing(A, A)
  BY DEF Agreeing
<1> QED
  BY <1>1, RunsSame

\* Nodes beside others leave what they leave alone, one stack upon the other.
LEMMA RunsBeside ==
    ASSUME NEW a, NEW j, Yields(a, j), NEW b, NEW k, Yields(b, k), NEW c, c = Upon(a, b),
           NEW B, NEW sb, Runs(b, B, sb), NEW C, NEW sc, Runs(c, C, sc), Agreeing(C, B)
    PROVE  Runs(a, C, sc) /\ Left(c, sc) = Upon(Left(a, sc), Left(b, sb))
<1>1. IsSequence(a) /\ IsSequence(b)
  BY DEF Yields
<1>2. PICK m \in Nat : m = Len(a)
  BY <1>1, Lengths
<1>3. PICK n \in Nat : n = Len(b)
  BY <1>1, Lengths
<1>4. /\ Len(c) = m + n /\ \A i \in 1..m : c[i] = a[i]
      /\ \A i \in 1..n : m + i \in 1..(m + n) /\ c[m + i] = b[i]
  BY <1>1, <1>2, <1>3, UponIs
<1>5. Runs(a, C, sc)
  <2>1. \A i \in 1..m : i \in 1..Len(c)
    BY <1>4
  <2> QED
    BY <1>2, <1>4, <2>1 DEF Runs
<1>6. Under(sc, m) = Left(a, sc) /\ IsSequence(Under(sc, m))
  BY <1>2, <1>5, RunsLeave DEF Left, Under, Stacked
<1>7. Within(b, c, m)
  BY <1>3, <1>4 DEF Within
<1>8. Reached(sc, m, b) = Upon(Under(sc, m), Left(b, sb))
  BY <1>6, <1>7, RunsAbove
<1> QED
  BY <1>3, <1>4, <1>5, <1>6, <1>8 DEF Left, Reached

\* The node on top takes all there is.
LEMMA RunsNode ==
    ASSUME NEW c, NEW k, Yields(c, k), NEW n, Arity(n) = k, NEW e, e = Over(c, n),
           NEW C, NEW sc, Runs(e, C, sc)
    PROVE  /\ Runs(c, C, sc)
           /\ Met(C, n, Left(c, sc))
           /\ Result(e, sc) = Made(C, n, Left(c, sc))
<1>1. IsSequence(c)
  BY DEF Yields
<1>2. PICK m \in Nat : m = Len(c)
  BY <1>1, Lengths
<1>3. Len(e) = m + 1 /\ e[m + 1] = n /\ \A i \in 1..m : e[i] = c[i]
  BY <1>1, <1>2, Appended DEF Over
<1>4. Runs(c, C, sc)
  <2>1. \A i \in 1..m : i \in 1..Len(e)
    BY <1>3
  <2> QED
    BY <1>2, <1>3, <2>1 DEF Runs
<1>5. PICK q : q = Left(c, sc) /\ q = sc[m]
  BY <1>2 DEF Left
<1>6. IsSequence(q) /\ Len(q) = k
  BY <1>4, <1>5, RunsLeave DEF Stacked
<1>7. k \in Nat /\ k <= Len(q) /\ Len(q) - k + 1 = 1
  BY <1>6, Arities
<1>8. m + 1 \in 1..Len(e) /\ m + 1 - 1 = m
  BY <1>3
<1>9. <<n, Top(q, k)>> \in DOMAIN C /\ sc[m + 1] = Push(q, k, C[<<n, Top(q, k)>>])
  BY <1>3, <1>5, <1>8 DEF Runs
<1>10. Top(q, k) = q
  <2>1. /\ IsSequence(Top(q, k)) /\ Len(Top(q, k)) = k
        /\ \A i \in 1..k : Top(q, k)[i] = q[Len(q) - k + i]
    BY <1>6, <1>7, TopIs
  <2>2. \A i \in 1..k : Len(q) - k + i = i
    BY <1>6, <1>7
  <2> QED
    BY <1>6, <2>1, <2>2, SameSequence
<1>11. \A x : Push(q, k, x)[1] = x
  BY <1>6, <1>7, PushIs
<1> QED
  BY <1>3, <1>4, <1>5, <1>9, <1>10, <1>11 DEF Left, Result, Met, Made

\* The stacks of one value, and what two and three of them make.
LEMMA SmallStacks ==
    ASSUME NEW q, Stacked(q, 1), NEW s, Stacked(s, 1), NEW t, Stacked(t, 1)
    PROVE  /\ q = <<q[1]>>
           /\ Upon(q, s) = <<q[1], s[1]>>
           /\ Upon(Upon(q, s), t) = <<q[1], s[1], t[1]>>
<1>1. ASSUME NEW u, IsSequence(u), Len(u) = 1 PROVE u = <<u[1]>>
  <2>1. IsSequence(<<u[1]>>) /\ Len(<<u[1]>>) = 1 /\ <<u[1]>>[1] = u[1]
    BY Singles
  <2>2. \A i \in 1..Len(u) : i = 1
    BY <1>1
  <2> QED
    BY <1>1, <2>1, <2>2, SameSequence
<1>2. \A x, y : <<x>> \o <<y>> = <<x, y>>
  <2> TAKE x, y
  <2>1. PICK p : p = <<x>>
    OBVIOUS
  <2>2. PICK r : r = <<y>>
    OBVIOUS
  <2>3. PICK c : c = Upon(p, r)
    OBVIOUS
  <2>4. IsSequence(p) /\ Len(p) = 1 /\ p[1] = x /\ IsSequence(r) /\ Len(r) = 1 /\ r[1] = y
    BY <2>1, <2>2, Singles
  <2>5. IsSequence(c) /\ Len(c) = 1 + 1 /\ c[1] = x /\ c[1 + 1] = y
    <3>1. /\ IsSequence(c) /\ Len(c) = Len(p) + Len(r)
          /\ \A i \in 1..Len(p) : c[i] = p[i]
          /\ \A i \in 1..Len(r) : c[Len(p) + i] = r[i]
      <4>1. IsSequence(p) /\ IsSequence(r)
        BY <2>4
      <4> QED
        BY <2>3, <4>1, UponIs
    <3> QED
      BY <2>4, <3>1
  <2>6. PICK d : d = <<x, y>>
    OBVIOUS
  <2>7. IsSequence(d) /\ Len(d) = 2 /\ d[1] = x /\ d[2] = y
    <3>1. <<x, y>> \in Seq({x, y})
      OBVIOUS
    <3> QED
      BY <2>6, <3>1 DEF IsSequence
  <2>8. Len(c) = Len(d) /\ \A i \in 1..Len(c) : c[i] = d[i]
    BY <2>5, <2>7
  <2>9. c = d
    BY <2>5, <2>7, <2>8, SameSequence
  <2> QED
    BY <2>1, <2>2, <2>3, <2>6, <2>9 DEF Upon
<1>3. \A x, y, z : <<x, y>> \o <<z>> = <<x, y, z>>
  <2> TAKE x, y, z
  <2>1. PICK p : p = <<x, y>>
    OBVIOUS
  <2>2. PICK r : r = <<z>>
    OBVIOUS
  <2>3. PICK c : c = Upon(p, r)
    OBVIOUS
  <2>4. IsSequence(r) /\ Len(r) = 1 /\ r[1] = z
    BY <2>2, Singles
  <2>5. IsSequence(p) /\ Len(p) = 2 /\ p[1] = x /\ p[2] = y
    <3>1. <<x, y>> \in Seq({x, y})
      OBVIOUS
    <3> QED
      BY <2>1, <3>1 DEF IsSequence
  <2>6. IsSequence(c) /\ Len(c) = 3 /\ c[1] = x /\ c[2] = y /\ c[3] = z
    <3>1. /\ IsSequence(c) /\ Len(c) = Len(p) + Len(r)
          /\ \A i \in 1..Len(p) : c[i] = p[i]
          /\ \A i \in 1..Len(r) : c[Len(p) + i] = r[i]
      <4>1. IsSequence(p) /\ IsSequence(r)
        BY <2>4, <2>5
      <4> QED
        BY <2>3, <4>1, UponIs
    <3>2. c[2 + 1] = z
      BY <2>4, <2>5, <3>1
    <3> QED
      BY <2>4, <2>5, <3>1, <3>2
  <2>7. PICK d : d = <<x, y, z>>
    OBVIOUS
  <2>8. IsSequence(d) /\ Len(d) = 3 /\ d[1] = x /\ d[2] = y /\ d[3] = z
    <3>1. <<x, y, z>> \in Seq({x, y, z})
      OBVIOUS
    <3> QED
      BY <2>7, <3>1 DEF IsSequence
  <2>9. Len(c) = Len(d) /\ \A i \in 1..Len(c) : c[i] = d[i]
    BY <2>6, <2>8
  <2>10. c = d
    BY <2>6, <2>8, <2>9, SameSequence
  <2> QED
    BY <2>1, <2>2, <2>3, <2>7, <2>10 DEF Upon
<1>4. PICK x : x = q[1]
  OBVIOUS
<1>5. PICK y : y = s[1]
  OBVIOUS
<1>6. PICK z : z = t[1]
  OBVIOUS
<1>7. q = <<x>> /\ s = <<y>> /\ t = <<z>>
  BY <1>1, <1>4, <1>5, <1>6 DEF Stacked
<1>8. Upon(q, s) = <<x, y>>
  BY <1>2, <1>7 DEF Upon
<1>9. Upon(Upon(q, s), t) = <<x, y, z>>
  BY <1>3, <1>7, <1>8 DEF Upon
<1> QED
  BY <1>4, <1>5, <1>6, <1>7, <1>8, <1>9

\* A leaf is worth what it was met as.
LEMMA LeafResult ==
    ASSUME NEW n, Arity(n) = 0, NEW C, NEW sc, Runs(<<n>>, C, sc)
    PROVE  Met(C, n, <<>>) /\ Result(<<n>>, sc) = Made(C, n, <<>>)
<1>1. PICK c : c = <<>>
  OBVIOUS
<1>2. PICK e : e = <<n>> /\ e = Over(c, n)
  BY <1>1 DEF Over
<1>3. Yields(c, 0) /\ Left(c, sc) = <<>>
  BY <1>1, NothingYields, Empty DEF Left, Runs
<1>4. Runs(e, C, sc)
  BY <1>2
<1>5. Met(C, n, Left(c, sc)) /\ Result(e, sc) = Made(C, n, Left(c, sc))
  BY <1>2, <1>3, <1>4, RunsNode
<1> QED
  BY <1>2, <1>3, <1>5 DEF Result

\* A node over a tree is worth what it makes of the tree's value.
LEMMA UnaryResult ==
    ASSUME NEW a, Yields(a, 1), NEW n, Arity(n) = 1,
           NEW A, NEW sa, Runs(a, A, sa),
           NEW C, NEW sc, Runs(Over(a, n), C, sc), Agreeing(C, A)
    PROVE  /\ Met(C, n, <<Result(a, sa)>>)
           /\ Result(Over(a, n), sc) = Made(C, n, <<Result(a, sa)>>)
<1>1. PICK e : e = Over(a, n) /\ e = Over(a, n)
  BY DEF Over
<1>2. Runs(e, C, sc)
  BY <1>1
<1>3. /\ Runs(a, C, sc) /\ Met(C, n, Left(a, sc))
      /\ Result(e, sc) = Made(C, n, Left(a, sc))
  BY <1>1, <1>2, RunsNode
<1>4. Stacked(Left(a, sc), 1) /\ Left(a, sc) = Left(a, sa)
  BY <1>3, RunsSame
<1>5. Left(a, sc) = <<Result(a, sa)>>
  BY <1>4, SmallStacks DEF Result
<1> QED
  BY <1>1, <1>3, <1>5 DEF Result

\* A node over two trees is worth what it makes of their values.
LEMMA BinaryResult ==
    ASSUME NEW a, Yields(a, 1), NEW b, Yields(b, 1), NEW n, Arity(n) = 2,
           NEW A, NEW sa, Runs(a, A, sa), NEW B, NEW sb, Runs(b, B, sb),
           NEW C, NEW sc, Runs(Over(Upon(a, b), n), C, sc), Agreeing(C, A), Agreeing(C, B)
    PROVE  /\ Met(C, n, <<Result(a, sa), Result(b, sb)>>)
           /\ Result(Over(Upon(a, b), n), sc) = Made(C, n, <<Result(a, sa), Result(b, sb)>>)
<1>1. PICK c : c = Upon(a, b)
  OBVIOUS
<1>2. PICK e : e = Over(Upon(a, b), n) /\ e = Over(c, n)
  BY <1>1 DEF Over
<1>3. Yields(c, 2)
  <2>1. Yields(c, 1 + 1)
    BY <1>1, BesideYields DEF Upon
  <2> QED
    BY <2>1
<1>4. Runs(e, C, sc)
  BY <1>2
<1>5. /\ Runs(c, C, sc) /\ Met(C, n, Left(c, sc))
      /\ Result(e, sc) = Made(C, n, Left(c, sc))
  BY <1>2, <1>3, <1>4, RunsNode
<1>6. Runs(a, C, sc) /\ Left(c, sc) = Upon(Left(a, sc), Left(b, sb))
  BY <1>1, <1>5, RunsBeside
<1>7. Stacked(Left(a, sc), 1) /\ Left(a, sc) = Left(a, sa)
  BY <1>6, RunsSame
<1>8. Stacked(Left(b, sb), 1)
  BY RunsLeave
<1>9. Left(c, sc) = <<Result(a, sa), Result(b, sb)>>
  BY <1>6, <1>7, <1>8, SmallStacks DEF Result
<1> QED
  BY <1>2, <1>5, <1>9 DEF Result

\* A node over three trees is worth what it makes of their values.
LEMMA IteResult ==
    ASSUME NEW a, Yields(a, 1), NEW b, Yields(b, 1), NEW d, Yields(d, 1), NEW n, Arity(n) = 3,
           NEW A, NEW sa, Runs(a, A, sa), NEW B, NEW sb, Runs(b, B, sb), NEW D, NEW sd,
             Runs(d, D, sd),
           NEW C, NEW sc, Runs(Over(Upon(Upon(a, b), d), n), C, sc),
           Agreeing(C, A), Agreeing(C, B), Agreeing(C, D)
    PROVE  /\ Met(C, n, <<Result(a, sa), Result(b, sb), Result(d, sd)>>)
           /\ Result(Over(Upon(Upon(a, b), d), n), sc)
                = Made(C, n, <<Result(a, sa), Result(b, sb), Result(d, sd)>>)
<1>1. PICK g : g = Upon(a, b)
  OBVIOUS
<1>2. PICK c : c = Upon(g, d)
  OBVIOUS
<1>3. PICK e : e = Over(Upon(Upon(a, b), d), n) /\ e = Over(c, n)
  BY <1>1, <1>2 DEF Over
<1>4. Yields(g, 2) /\ Yields(c, 3)
  <2>1. Yields(g, 1 + 1)
    BY <1>1, BesideYields DEF Upon
  <2>2. Yields(c, (1 + 1) + 1)
    BY <1>2, <2>1, BesideYields DEF Upon
  <2> QED
    BY <2>1, <2>2
<1>5. Runs(e, C, sc)
  BY <1>3
<1>6. /\ Runs(c, C, sc) /\ Met(C, n, Left(c, sc))
      /\ Result(e, sc) = Made(C, n, Left(c, sc))
  BY <1>3, <1>4, <1>5, RunsNode
<1>7. Runs(g, C, sc) /\ Left(c, sc) = Upon(Left(g, sc), Left(d, sd))
  BY <1>2, <1>4, <1>6, RunsBeside
<1>8. Runs(a, C, sc) /\ Left(g, sc) = Upon(Left(a, sc), Left(b, sb))
  BY <1>1, <1>7, RunsBeside
<1>9. Stacked(Left(a, sc), 1) /\ Left(a, sc) = Left(a, sa)
  BY <1>8, RunsSame
<1>10. Stacked(Left(b, sb), 1)
  BY RunsLeave
<1>11. Stacked(Left(d, sd), 1)
  BY RunsLeave
<1>12. Left(c, sc) = <<Result(a, sa), Result(b, sb), Result(d, sd)>>
  BY <1>7, <1>8, <1>9, <1>10, <1>11, SmallStacks DEF Result
<1> QED
  BY <1>3, <1>6, <1>12 DEF Result

----------------------------------------------------------------------------
(* A tree is a leaf, or a node over trees; induction over trees.            *)

\* The top value of several has nodes of its own.
LEMMA SplitTree ==
    ASSUME NEW e, NEW k \in Nat, Yields(e, k + 1)
    PROVE  \E a, b : e = Upon(a, b) /\ Yields(a, k) /\ Yields(b, 1)
<1>1. IsSequence(e)
  BY DEF Yields
<1>2. PICK m \in Nat : m = Len(e)
  BY <1>1, Lengths
<1>3. PICK d : Depths(e, d) /\ d[m] = k + 1
  BY <1>2 DEF Yields
<1>4. /\ d[0] = 0 /\ \A i \in 0..m : d[i] \in Nat
      /\ \A i \in 1..m : Arity(e[i]) <= d[i - 1] /\ d[i] = d[i - 1] - Arity(e[i]) + 1
  BY <1>2, <1>3 DEF Depths
<1> DEFINE P == {p \in Nat : p <= m /\ \A i \in (p + 1)..m : k < d[i]}
<1>5. PICK p \in P : \A q \in P : p <= q
  <2>1. m \in P
    OBVIOUS
  <2>2. P \in SUBSET Nat /\ P # {}
    BY <2>1
  <2> HIDE DEF P
  <2> QED
    BY <2>2, Least
<1>6. p \in Nat /\ p <= m /\ \A i \in (p + 1)..m : k < d[i]
  BY <1>5
<1>7. d[p] <= k
  <2>1. CASE p = 0
    BY <1>4, <2>1
  <2>2. CASE p # 0
    <3>1. SUFFICES ASSUME ~(d[p] <= k) PROVE p - 1 \in P /\ ~(p <= p - 1)
      BY <1>5
    <3>2. p \in 0..m /\ d[p] \in Nat
      BY <1>4, <1>6
    <3>3. k < d[p]
      BY <3>1, <3>2
    <3>4. \A i \in ((p - 1) + 1)..m : k < d[i]
      <4> SUFFICES ASSUME NEW i \in ((p - 1) + 1)..m PROVE k < d[i]
        OBVIOUS
      <4>1. i = p \/ i \in (p + 1)..m
        BY <1>6
      <4> QED
        BY <1>6, <3>3, <4>1
    <3> QED
      BY <1>6, <2>2, <3>4
  <2> QED
    BY <2>1, <2>2
<1> HIDE DEF P
<1>8. p < m
  BY <1>3, <1>6, <1>7
<1>9. d[p] = k
  <2>1. p + 1 \in 1..m /\ p + 1 \in (p + 1)..m /\ p + 1 - 1 = p /\ p \in 0..m
    BY <1>6, <1>8
  <2>2. d[p + 1] = d[p] - Arity(e[p + 1]) + 1 /\ k < d[p + 1] /\ d[p] \in Nat
    BY <1>4, <1>6, <2>1
  <2>3. Arity(e[p + 1]) \in 0..3
    BY Arities
  <2> QED
    BY <1>7, <2>2, <2>3
<1> DEFINE a == SubSeq(e, 0 + 1, p)
           b == SubSeq(e, p + 1, m)
           db == [i \in 0..(m - p) |-> d[p + i] - k]
<1>10. IsSequence(a) /\ Len(a) = p /\ \A i \in 1..p : a[i] = e[i]
  <2>1. 0 \in Nat /\ 0 <= p /\ p <= Len(e) /\ p - 0 = p
    BY <1>2, <1>6
  <2>2. IsSequence(a) /\ Len(a) = p - 0 /\ \A i \in 1..(p - 0) : a[i] = e[0 + i]
    BY <1>1, <1>6, <2>1, Part
  <2> HIDE DEF a
  <2> QED
    BY <2>1, <2>2
<1>11. IsSequence(b) /\ Len(b) = m - p /\ \A i \in 1..(m - p) : b[i] = e[p + i]
  BY <1>1, <1>2, <1>6, Part
<1> HIDE DEF a, b
<1>12. e = Upon(a, b)
  <2>1. PICK c : c = Upon(a, b)
    OBVIOUS
  <2>2. /\ IsSequence(c) /\ Len(c) = Len(a) + Len(b)
        /\ \A i \in 1..Len(a) : c[i] = a[i]
        /\ \A i \in 1..Len(b) : c[Len(a) + i] = b[i]
    <3>1. IsSequence(a) /\ IsSequence(b)
      BY <1>10, <1>11
    <3> QED
      BY <2>1, <3>1, UponIs
  <2>3. ASSUME NEW i \in 1..m PROVE c[i] = e[i]
    <3>1. CASE i <= p
      BY <1>10, <2>2, <3>1
    <3>2. CASE ~(i <= p)
      <4>1. i - p \in 1..(m - p) /\ p + (i - p) = i
        BY <1>6, <3>2
      <4>2. c[p + (i - p)] = b[i - p] /\ b[i - p] = e[p + (i - p)]
        BY <1>10, <1>11, <2>2, <4>1
      <4> QED
        BY <4>1, <4>2
    <3> QED
      BY <3>1, <3>2
  <2>4. Len(c) = m
    BY <1>6, <1>10, <1>11, <2>2
  <2> QED
    BY <1>1, <1>2, <2>1, <2>2, <2>3, <2>4, SameSequence
<1>13. Yields(a, k)
  <2>1. Depths(a, d)
    <3>1. d[0] = 0 /\ Len(a) = p /\ \A i \in 0..p : i \in 0..m
      BY <1>4, <1>6, <1>10
    <3>2. \A i \in 0..p : d[i] \in Nat
      BY <1>4, <3>1
    <3>3. ASSUME NEW i \in 1..p
          PROVE  Arity(a[i]) <= d[i - 1] /\ d[i] = d[i - 1] - Arity(a[i]) + 1
      <4>1. i \in 1..m /\ a[i] = e[i]
        BY <1>6, <1>10
      <4> QED
        BY <1>4, <4>1
    <3> QED
      BY <3>1, <3>2, <3>3 DEF Depths
  <2> QED
    BY <1>9, <1>10, <2>1 DEF Yields
<1>14. Yields(b, 1)
  <2>1. \A i \in 0..(m - p) : db[i] = d[p + i] - k
    OBVIOUS
  <2> HIDE DEF db
  <2>2. ASSUME NEW i \in 1..(m - p)
        PROVE  /\ db[i] \in Nat /\ Arity(b[i]) <= db[i - 1]
               /\ db[i] = db[i - 1] - Arity(b[i]) + 1
    <3>1. /\ p + i \in 1..m /\ p + i \in 0..m /\ p + i \in (p + 1)..m
          /\ p + i - 1 = p + (i - 1) /\ p + (i - 1) \in 0..m
          /\ i \in 0..(m - p) /\ i - 1 \in 0..(m - p)
      BY <1>6
    <3>2. /\ b[i] = e[p + i] /\ db[i] = d[p + i] - k /\ db[i - 1] = d[p + (i - 1)] - k
      BY <1>11, <2>1, <3>1
    <3>3. /\ d[p + i] \in Nat /\ d[p + (i - 1)] \in Nat /\ k < d[p + i]
          /\ d[p + i] = d[p + (i - 1)] - Arity(b[i]) + 1
      BY <1>4, <1>6, <3>1, <3>2
    <3>4. Arity(b[i]) \in 0..3
      BY Arities
    <3> QED
      BY <3>2, <3>3, <3>4
  <2>3. db[0] = 0 /\ db[m - p] = 1
    <3>1. 0 \in 0..(m - p) /\ m - p \in 0..(m - p) /\ p + 0 = p /\ p + (m - p) = m
      BY <1>6
    <3>2. db[0] = d[p] - k /\ db[m - p] = d[m] - k
      BY <2>1, <3>1
    <3> QED
      BY <1>3, <1>9, <3>2
  <2>4. \A i \in 0..(m - p) : db[i] \in Nat
    <3> SUFFICES ASSUME NEW i \in 0..(m - p), i # 0 PROVE db[i] \in Nat
      BY <2>3
    <3>1. i \in 1..(m - p)
      OBVIOUS
    <3> QED
      BY <2>2, <3>1
  <2>5. Depths(b, db)
    BY <1>11, <2>2, <2>3, <2>4 DEF Depths
  <2> QED
    BY <1>11, <2>3, <2>5 DEF Yields
<1> QED
  BY <1>12, <1>13, <1>14

\* A tree is a node over its operands.
LEMMA TreeForms ==
    ASSUME NEW e, Yields(e, 1)
    PROVE  \E c, n : e = Over(c, n) /\ Yields(c, Arity(n))
<1>1. IsSequence(e)
  BY DEF Yields
<1>2. PICK m \in Nat : m = Len(e)
  BY <1>1, Lengths
<1>3. PICK d : Depths(e, d) /\ d[m] = 1
  BY <1>2 DEF Yields
<1>4. /\ d[0] = 0 /\ \A i \in 0..m : d[i] \in Nat
      /\ \A i \in 1..m : Arity(e[i]) <= d[i - 1] /\ d[i] = d[i - 1] - Arity(e[i]) + 1
  BY <1>2, <1>3 DEF Depths
<1>5. m # 0
  BY <1>3, <1>4
<1> DEFINE c == SubSeq(e, 0 + 1, m - 1)
           n == e[m]
<1>6. IsSequence(c) /\ Len(c) = m - 1 /\ \A i \in 1..(m - 1) : c[i] = e[i]
  <2>1. 0 \in Nat /\ m - 1 \in Nat /\ 0 <= m - 1 /\ m - 1 <= Len(e) /\ m - 1 - 0 = m - 1
    BY <1>2, <1>5
  <2>2. IsSequence(c) /\ Len(c) = m - 1 - 0 /\ \A i \in 1..(m - 1 - 0) : c[i] = e[0 + i]
    BY <1>1, <2>1, Part
  <2> HIDE DEF c
  <2> QED
    BY <2>1, <2>2
<1> HIDE DEF c
<1>7. e = Over(c, n)
  <2>1. PICK f : f = Over(c, n)
    OBVIOUS
  <2>2. /\ IsSequence(f) /\ Len(f) = m - 1 + 1 /\ f[m - 1 + 1] = n
        /\ \A i \in 1..(m - 1) : f[i] = c[i]
    BY <1>6, <2>1, Appended DEF Over
  <2>3. Len(f) = m /\ \A i \in 1..m : f[i] = e[i]
    BY <1>5, <1>6, <2>2
  <2> QED
    BY <1>1, <1>2, <2>1, <2>2, <2>3, SameSequence
<1>8. Yields(c, Arity(n))
  <2>1. m \in 1..m /\ m - 1 \in 0..m
    BY <1>5
  <2>2. d[m] = d[m - 1] - Arity(n) + 1 /\ d[m - 1] \in Nat
    BY <1>4, <2>1
  <2>3. d[m - 1] = Arity(n)
    <3>1. Arity(n) \in 0..3
      BY Arities
    <3> QED
      BY <1>3, <2>2, <3>1
  <2>4. Depths(c, d)
    BY <1>4, <1>5, <1>6 DEF Depths
  <2> QED
    BY <1>6, <2>3, <2>4 DEF Yields
<1> QED
  BY <1>7, <1>8

\* Only nothing leaves nothing.
LEMMA YieldsNothing ==
    ASSUME NEW e, Yields(e, 0)
    PROVE  e = <<>>
<1>1. IsSequence(e)
  BY DEF Yields
<1>2. PICK m \in Nat : m = Len(e)
  BY <1>1, Lengths
<1>3. PICK d : Depths(e, d) /\ d[m] = 0
  BY <1>2 DEF Yields
<1>4. m = 0
  <2> SUFFICES ASSUME m # 0 PROVE FALSE
    OBVIOUS
  <2>1. m \in 1..m /\ m - 1 \in 0..m
    OBVIOUS
  <2>2. Arity(e[m]) <= d[m - 1] /\ d[m] = d[m - 1] - Arity(e[m]) + 1 /\ d[m - 1] \in Nat
    BY <1>2, <1>3, <2>1 DEF Depths
  <2>3. Arity(e[m]) \in 0..3
    BY Arities
  <2> QED
    BY <1>3, <2>2, <2>3
<1>5. Len(<<>>) = 0 /\ IsSequence(<<>>)
  BY Empty
<1>6. \A i \in 1..Len(e) : e[i] = <<>>[i]
  BY <1>2, <1>4
<1> QED
  BY <1>1, <1>2, <1>4, <1>5, <1>6, SameSequence

\* The trees whose nodes are in T.
Trees(T) == {f \in Seq(T) : Yields(f, 1)}
\* A sequence of nodes of T.
Nodes(f, T) == IsSequence(f) /\ \A i \in 1..Len(f) : f[i] \in T

\* Trees are what yields one value, of nodes of T.
LEMMA TreesAre == \A T, f : f \in Trees(T) <=> Yields(f, 1) /\ Nodes(f, T)
<1> TAKE T, f
<1>1. ASSUME f \in Trees(T) PROVE Yields(f, 1) /\ Nodes(f, T)
  BY <1>1 DEF Trees, Nodes, Yields
<1>2. ASSUME Yields(f, 1), Nodes(f, T) PROVE f \in Trees(T)
  <2>1. PICK S : f \in Seq(S)
    BY <1>2 DEF Nodes, IsSequence
  <2>2. \A i \in 1..Len(f) : f[i] \in T
    BY <1>2 DEF Nodes
  <2>3. f \in Seq(T)
    BY <2>1, <2>2
  <2> QED
    BY <1>2, <2>3 DEF Trees
<1> QED
  BY <1>1, <1>2

\* The operands that a node stands on are of its nodes, and shorter.
LEMMA OverNodes ==
    ASSUME NEW c, IsSequence(c), NEW n, NEW T, Nodes(Over(c, n), T)
    PROVE  /\ Nodes(c, T) /\ n \in T
           /\ Len(c) \in Nat /\ Len(Over(c, n)) = Len(c) + 1
<1>1. PICK e : e = Over(c, n)
  OBVIOUS
<1>2. PICK m \in Nat : m = Len(c)
  BY Lengths
<1>3. /\ IsSequence(e) /\ Len(e) = m + 1 /\ e[m + 1] = n
      /\ \A i \in 1..m : e[i] = c[i]
  BY <1>1, <1>2, Appended DEF Over
<1>4. \A i \in 1..(m + 1) : e[i] \in T
  BY <1>1, <1>3 DEF Nodes
<1>5. n \in T
  <2>1. m + 1 \in 1..(m + 1)
    OBVIOUS
  <2> QED
    BY <1>3, <1>4, <2>1
<1>6. \A i \in 1..m : c[i] \in T
  <2> SUFFICES ASSUME NEW i \in 1..m PROVE c[i] \in T
    OBVIOUS
  <2>1. i \in 1..(m + 1)
    OBVIOUS
  <2> QED
    BY <1>3, <1>4, <2>1
<1> QED
  BY <1>1, <1>2, <1>3, <1>5, <1>6 DEF Nodes

\* What stands beside something has nodes of the same set.
LEMMA UponNodes ==
    ASSUME NEW a, IsSequence(a), NEW b, IsSequence(b), NEW T, Nodes(Upon(a, b), T)
    PROVE  /\ Nodes(a, T) /\ Nodes(b, T)
           /\ Len(a) \in Nat /\ Len(b) \in Nat /\ Len(Upon(a, b)) = Len(a) + Len(b)
<1>1. PICK e : e = Upon(a, b)
  OBVIOUS
<1>2. PICK m \in Nat : m = Len(a)
  BY Lengths
<1>3. PICK k \in Nat : k = Len(b)
  BY Lengths
<1>4. /\ IsSequence(e) /\ Len(e) = m + k
      /\ \A i \in 1..m : e[i] = a[i]
      /\ \A i \in 1..k : e[m + i] = b[i]
  BY <1>1, <1>2, <1>3, UponIs
<1>5. \A i \in 1..(m + k) : e[i] \in T
  BY <1>1, <1>4 DEF Nodes
<1>6. \A i \in 1..m : a[i] \in T
  <2> SUFFICES ASSUME NEW i \in 1..m PROVE a[i] \in T
    OBVIOUS
  <2>1. i \in 1..(m + k)
    OBVIOUS
  <2> QED
    BY <1>4, <1>5, <2>1
<1>7. \A i \in 1..k : b[i] \in T
  <2> SUFFICES ASSUME NEW i \in 1..k PROVE b[i] \in T
    OBVIOUS
  <2>1. m + i \in 1..(m + k)
    OBVIOUS
  <2> QED
    BY <1>4, <1>5, <2>1
<1> QED
  BY <1>1, <1>2, <1>3, <1>4, <1>6, <1>7 DEF Nodes

\* Two trees, or three, are what a node of as many operands stands on.
LEMMA TwoTrees ==
    ASSUME NEW c, Yields(c, 2), NEW T, Nodes(c, T)
    PROVE  \E a, b \in Trees(T) : c = Upon(a, b) /\ Len(a) <= Len(c) /\ Len(b) <= Len(c)
<1>1. Yields(c, 1 + 1)
  OBVIOUS
<1>2. PICK a, b : c = Upon(a, b) /\ Yields(a, 1) /\ Yields(b, 1)
  BY <1>1, SplitTree
<1>3. IsSequence(a) /\ IsSequence(b)
  BY <1>2 DEF Yields
<1>4. /\ Nodes(a, T) /\ Nodes(b, T)
      /\ Len(a) \in Nat /\ Len(b) \in Nat /\ Len(c) = Len(a) + Len(b)
  BY <1>2, <1>3, UponNodes
<1>5. a \in Trees(T) /\ b \in Trees(T)
  BY <1>2, <1>4, TreesAre
<1> QED
  BY <1>2, <1>4, <1>5

\* What yields three values is three trees.
LEMMA ThreeTrees ==
    ASSUME NEW c, Yields(c, 3), NEW T, Nodes(c, T)
    PROVE  \E a, b, d \in Trees(T) :
               c = Upon(Upon(a, b), d) /\ Len(a) <= Len(c) /\ Len(b) <= Len(c) /\ Len(d) <= Len(c)
<1>1. Yields(c, 2 + 1)
  OBVIOUS
<1>2. PICK g, d : c = Upon(g, d) /\ Yields(g, 2) /\ Yields(d, 1)
  BY <1>1, SplitTree
<1>3. IsSequence(g) /\ IsSequence(d)
  BY <1>2 DEF Yields
<1>4. /\ Nodes(g, T) /\ Nodes(d, T)
      /\ Len(g) \in Nat /\ Len(d) \in Nat /\ Len(c) = Len(g) + Len(d)
  BY <1>2, <1>3, UponNodes
<1>5. PICK a, b \in Trees(T) : g = Upon(a, b) /\ Len(a) <= Len(g) /\ Len(b) <= Len(g)
  BY <1>2, <1>4, TwoTrees
<1>6. d \in Trees(T)
  BY <1>2, <1>4, TreesAre
<1>7. Len(a) \in Nat /\ Len(b) \in Nat
  BY TreesAre, Lengths DEF Nodes
<1>8. c = Upon(Upon(a, b), d) /\ Len(a) <= Len(c) /\ Len(b) <= Len(c) /\ Len(d) <= Len(c)
  BY <1>2, <1>4, <1>5, <1>7
<1> QED
  BY <1>6, <1>8

\* Induction over the trees of some nodes.
LEMMA TreeInduction ==
    ASSUME NEW T, NEW S,
           \A n \in T : Arity(n) = 0 /\ <<n>> \in Trees(T) => <<n>> \in S,
           \A n \in T : Arity(n) = 1 =>
               \A a \in S \cap Trees(T) : Over(a, n) \in Trees(T) => Over(a, n) \in S,
           \A n \in T : Arity(n) = 2 =>
               \A a, b \in S \cap Trees(T) :
                   Over(Upon(a, b), n) \in Trees(T) => Over(Upon(a, b), n) \in S,
           \A n \in T : Arity(n) = 3 =>
               \A a, b, c \in S \cap Trees(T) :
                   Over(Upon(Upon(a, b), c), n) \in Trees(T) => Over(Upon(Upon(a, b), c), n) \in S
    PROVE  \A e \in Trees(T) : e \in S
<1> DEFINE L == {m \in Nat : \A f \in Trees(T) : Len(f) <= m => f \in S}
<1>1. 0 \in L
  <2> SUFFICES ASSUME NEW f \in Trees(T), Len(f) <= 0 PROVE FALSE
    OBVIOUS
  <2>1. Yields(f, 1)
    BY TreesAre
  <2>2. PICK c, n : f = Over(c, n) /\ Yields(c, Arity(n))
    BY <2>1, TreeForms
  <2>3. IsSequence(c)
    BY <2>2 DEF Yields
  <2>4. Len(f) = Len(c) + 1 /\ Len(c) \in Nat
    BY <2>2, <2>3, Appended, Lengths DEF Over
  <2> QED
    BY <2>4
<1>2. ASSUME NEW m \in Nat, m \in L PROVE m + 1 \in L
  <2>1. \A f \in Trees(T) : Len(f) <= m => f \in S \cap Trees(T)
    BY <1>2
  <2> SUFFICES ASSUME NEW f \in Trees(T), Len(f) <= m + 1 PROVE f \in S
    OBVIOUS
  <2> HIDE DEF L
  <2>2. Yields(f, 1) /\ Nodes(f, T)
    BY TreesAre
  <2>3. PICK c, n : f = Over(c, n) /\ Yields(c, Arity(n))
    BY <2>2, TreeForms
  <2>4. IsSequence(c)
    BY <2>3 DEF Yields
  <2>5. Nodes(c, T) /\ n \in T /\ Len(c) \in Nat /\ Len(f) = Len(c) + 1
    BY <2>2, <2>3, <2>4, OverNodes
  <2>6. Len(c) <= m
    BY <2>5
  <2>7. \A a \in Trees(T) : Len(a) <= Len(c) => a \in S \cap Trees(T)
    <3> SUFFICES ASSUME NEW a \in Trees(T), Len(a) <= Len(c) PROVE Len(a) <= m
      BY <2>1
    <3>1. Len(a) \in Nat
      BY TreesAre, Lengths DEF Nodes
    <3> QED
      BY <2>5, <2>6, <3>1
  <2>8. CASE Arity(n) = 0
    <3>1. c = <<>>
      BY <2>3, <2>8, YieldsNothing
    <3>2. f = <<n>>
      BY <2>3, <3>1 DEF Over
    <3> QED
      BY <2>5, <2>8, <3>2
  <2>9. CASE Arity(n) = 1
    <3>1. c \in Trees(T)
      BY <2>3, <2>5, <2>9, TreesAre
    <3>2. c \in S \cap Trees(T)
      BY <2>5, <2>7, <3>1
    <3> QED
      BY <2>3, <2>5, <2>9, <3>2
  <2>10. CASE Arity(n) = 2
    <3>1. PICK a, b \in Trees(T) : c = Upon(a, b) /\ Len(a) <= Len(c) /\ Len(b) <= Len(c)
      BY <2>3, <2>5, <2>10, TwoTrees
    <3>2. a \in S \cap Trees(T) /\ b \in S \cap Trees(T)
      BY <2>7, <3>1
    <3> QED
      BY <2>3, <2>5, <2>10, <3>1, <3>2
  <2>11. CASE Arity(n) = 3
    <3>1. PICK a, b, d \in Trees(T) :
              c = Upon(Upon(a, b), d) /\ Len(a) <= Len(c) /\ Len(b) <= Len(c) /\ Len(d) <= Len(c)
      BY <2>3, <2>5, <2>11, ThreeTrees
    <3>2. a \in S \cap Trees(T) /\ b \in S \cap Trees(T) /\ d \in S \cap Trees(T)
      BY <2>7, <3>1
    <3> QED
      BY <2>3, <2>5, <2>11, <3>1, <3>2
  <2>12. Arity(n) \in 0..3
    BY Arities
  <2> QED
    BY <2>8, <2>9, <2>10, <2>11, <2>12
<1> HIDE DEF L
<1>3. \A m \in Nat : m \in L
  BY <1>1, <1>2, Induction
<1> SUFFICES ASSUME NEW e \in Trees(T) PROVE e \in S
  OBVIOUS
<1>4. Len(e) \in Nat
  BY TreesAre, Lengths DEF Nodes
<1> QED
  BY <1>3, <1>4 DEF L

----------------------------------------------------------------------------
(* What a fold comes to, node by node.                                      *)

\* A node over the values of its leaves.
Grounded(n, u) ==
    IF IsVar(n) THEN Literal(u[n.name] % 2 ^ n.bits, n.bits)
    ELSE IF n.op = "unknown" THEN Literal(u[n.stands], Widest)
    ELSE n

\* What the fold k makes of a node over its operands.
Makes(k, n, a) ==
    CASE k.fold = "value" -> Computed(n, a)
      [] k.fold = "size" -> NodeSize(n, a)
      [] k.fold = "bits" -> NodeBits(n, a)
      [] k.fold = "simplify" -> Rebuilt(n, a)
      [] k.fold = "denote" -> Computed(Grounded(n, k.values), a)
      [] OTHER -> EncodedNode(k.backend, n, a, k.declared, k.values)
\* The stack after the node n, in the fold k.
StepOf(k, n, q) == Push(q, Arity(n), Makes(k, n, Top(q, Arity(n))))
\* The stacks of the fold k over the nodes of e.
Follows(k, e, st) ==
    st[0] = <<>> /\ \A i \in 1..Len(e) : st[i] = StepOf(k, e[i], st[i - 1])
\* What the fold k comes to.
Comes(k, e) == Result(e, CHOOSE st : Follows(k, e, st))

\* Every fold has its stacks.
LEMMA FoldsFollow ==
    ASSUME NEW k, NEW e, IsSequence(e)
    PROVE  \E st : Follows(k, e, st)
<1> DEFINE Rec(f, m) == f[0] = <<>> /\ \A i \in 1..m : f[i] = StepOf(k, e[i], f[i - 1])
           S == {m \in Nat : \E f : Rec(f, m)}
<1>1. 0 \in S
  <2> DEFINE g == [i \in 0..0 |-> <<>>]
  <2>1. Rec(g, 0)
    OBVIOUS
  <2> HIDE DEF g
  <2> QED
    BY <2>1
<1>2. ASSUME NEW m \in Nat, m \in S PROVE m + 1 \in S
  <2>1. PICK f : Rec(f, m)
    BY <1>2
  <2> DEFINE g == [i \in 0..(m + 1) |-> IF i <= m THEN f[i] ELSE StepOf(k, e[m + 1], f[m])]
  <2>2. g[m + 1] = StepOf(k, e[m + 1], f[m]) /\ \A i \in 0..m : g[i] = f[i]
    OBVIOUS
  <2> HIDE DEF g
  <2>3. ASSUME NEW i \in 1..(m + 1) PROVE g[i] = StepOf(k, e[i], g[i - 1])
    <3>1. CASE i = m + 1
      <4>1. m \in 0..m /\ i - 1 = m
        BY <3>1
      <4> QED
        BY <2>2, <3>1, <4>1
    <3>2. CASE i # m + 1
      <4>1. i \in 1..m /\ i \in 0..m /\ i - 1 \in 0..m
        BY <3>2
      <4> QED
        BY <2>1, <2>2, <4>1
    <3> QED
      BY <3>1, <3>2
  <2>4. Rec(g, m + 1)
    BY <2>1, <2>2, <2>3
  <2> QED
    BY <2>4
<1>3. Len(e) \in Nat
  BY Lengths
<1> HIDE DEF S
<1>4. Len(e) \in S
  BY <1>1, <1>2, <1>3, Induction
<1> QED
  BY <1>4 DEF S, Follows

\* Following a fold is running over the nodes with what the fold makes of
\* them.
LEMMA FollowedRuns ==
    ASSUME NEW k, NEW e, NEW st, Follows(k, e, st)
    PROVE  \E A : Runs(e, A, st) /\ \A p \in DOMAIN A : A[p] = Makes(k, p[1], p[2])
<1> DEFINE pair(i) == <<e[i], Top(st[i - 1], Arity(e[i]))>>
           A == [p \in {pair(i) : i \in 1..Len(e)} |-> Makes(k, p[1], p[2])]
<1>1. ASSUME NEW i \in 1..Len(e)
      PROVE  /\ <<e[i], Top(st[i - 1], Arity(e[i]))>> \in DOMAIN A
             /\ A[<<e[i], Top(st[i - 1], Arity(e[i]))>>]
                  = Makes(k, e[i], Top(st[i - 1], Arity(e[i])))
  BY Zenon
<1>2. \A p \in DOMAIN A : A[p] = Makes(k, p[1], p[2])
  OBVIOUS
<1> HIDE DEF A
<1>3. Runs(e, A, st)
  BY <1>1 DEF Runs, Follows, StepOf
<1> QED
  BY <1>2, <1>3

\* What one fold makes of nodes never disagrees.
LEMMA Agree ==
    ASSUME NEW k, NEW A, \A p \in DOMAIN A : A[p] = Makes(k, p[1], p[2]),
           NEW B, \A p \in DOMAIN B : B[p] = Makes(k, p[1], p[2])
    PROVE  Agreeing(A, B)
BY DEF Agreeing

\* Whatever stack follows the nodes ends in the same.
LEMMA ComesTo ==
    ASSUME NEW k, NEW e, Yields(e, 1), NEW st, Follows(k, e, st)
    PROVE  Comes(k, e) = Result(e, st)
<1>1. PICK su : su = CHOOSE other : Follows(k, e, other)
  OBVIOUS
<1>2. Follows(k, e, su)
  BY <1>1
<1>3. PICK A : Runs(e, A, st) /\ \A p \in DOMAIN A : A[p] = Makes(k, p[1], p[2])
  BY FollowedRuns
<1>4. PICK B : Runs(e, B, su) /\ \A p \in DOMAIN B : B[p] = Makes(k, p[1], p[2])
  BY <1>2, FollowedRuns
<1>5. Agreeing(B, A)
  BY <1>3, <1>4, Agree
<1>6. Left(e, su) = Left(e, st)
  BY <1>3, <1>4, <1>5, RunsSame
<1> QED
  BY <1>1, <1>6 DEF Comes, Result

\* What a fold of a tree comes to is what a run of it leaves.
LEMMA Coming ==
    ASSUME NEW k, NEW e, Yields(e, 1)
    PROVE  \E A, st : /\ Runs(e, A, st) /\ Comes(k, e) = Result(e, st)
                      /\ \A p \in DOMAIN A : A[p] = Makes(k, p[1], p[2])
<1>1. PICK st : Follows(k, e, st)
  BY FoldsFollow DEF Yields
<1> QED
  BY <1>1, FollowedRuns, ComesTo

\* What a fold comes to, from what it comes to for the operands.
LEMMA LeafComes ==
    ASSUME NEW k, NEW n, Arity(n) = 0, Yields(<<n>>, 1)
    PROVE  Comes(k, <<n>>) = Makes(k, n, <<>>)
<1>1. PICK A, st : /\ Runs(<<n>>, A, st) /\ Comes(k, <<n>>) = Result(<<n>>, st)
                   /\ \A p \in DOMAIN A : A[p] = Makes(k, p[1], p[2])
  BY Coming
<1>2. Met(A, n, <<>>) /\ Result(<<n>>, st) = Made(A, n, <<>>)
  BY <1>1, LeafResult
<1> QED
  BY <1>1, <1>2 DEF Met, Made

\* A fold, at a node over a tree.
LEMMA UnaryComes ==
    ASSUME NEW k, NEW a, Yields(a, 1), NEW n, Arity(n) = 1, Yields(Over(a, n), 1)
    PROVE  Comes(k, Over(a, n)) = Makes(k, n, <<Comes(k, a)>>)
<1>1. PICK A, sa : /\ Runs(a, A, sa) /\ Comes(k, a) = Result(a, sa)
                   /\ \A p \in DOMAIN A : A[p] = Makes(k, p[1], p[2])
  BY Coming
<1>2. PICK C, sc : /\ Runs(Over(a, n), C, sc) /\ Comes(k, Over(a, n)) = Result(Over(a, n), sc)
                   /\ \A p \in DOMAIN C : C[p] = Makes(k, p[1], p[2])
  BY Coming
<1>3. Agreeing(C, A)
  BY <1>1, <1>2, Agree
<1>4. Met(C, n, <<Result(a, sa)>>) /\ Result(Over(a, n), sc) = Made(C, n, <<Result(a, sa)>>)
  BY <1>1, <1>2, <1>3, UnaryResult
<1> QED
  BY <1>1, <1>2, <1>4 DEF Met, Made

\* A fold, at a node over two trees.
LEMMA BinaryComes ==
    ASSUME NEW k, NEW a, Yields(a, 1), NEW b, Yields(b, 1), NEW n, Arity(n) = 2,
           Yields(Over(Upon(a, b), n), 1)
    PROVE  Comes(k, Over(Upon(a, b), n)) = Makes(k, n, <<Comes(k, a), Comes(k, b)>>)
<1>1. PICK A, sa : /\ Runs(a, A, sa) /\ Comes(k, a) = Result(a, sa)
                   /\ \A p \in DOMAIN A : A[p] = Makes(k, p[1], p[2])
  BY Coming
<1>2. PICK B, sb : /\ Runs(b, B, sb) /\ Comes(k, b) = Result(b, sb)
                   /\ \A p \in DOMAIN B : B[p] = Makes(k, p[1], p[2])
  BY Coming
<1>3. PICK e : e = Over(Upon(a, b), n)
  OBVIOUS
<1>4. PICK C, sc : /\ Runs(e, C, sc) /\ Comes(k, e) = Result(e, sc)
                   /\ \A p \in DOMAIN C : C[p] = Makes(k, p[1], p[2])
  BY <1>3, Coming
<1>5. Agreeing(C, A) /\ Agreeing(C, B)
  BY <1>1, <1>2, <1>4, Agree
<1>6. /\ Met(C, n, <<Result(a, sa), Result(b, sb)>>)
      /\ Result(Over(Upon(a, b), n), sc) = Made(C, n, <<Result(a, sa), Result(b, sb)>>)
  BY <1>1, <1>2, <1>3, <1>4, <1>5, BinaryResult
<1> QED
  BY <1>1, <1>2, <1>3, <1>4, <1>6 DEF Met, Made

\* A fold, at a node over three trees.
LEMMA IteComes ==
    ASSUME NEW k, NEW a, Yields(a, 1), NEW b, Yields(b, 1), NEW d, Yields(d, 1),
           NEW n, Arity(n) = 3, Yields(Over(Upon(Upon(a, b), d), n), 1)
    PROVE  Comes(k, Over(Upon(Upon(a, b), d), n))
             = Makes(k, n, <<Comes(k, a), Comes(k, b), Comes(k, d)>>)
<1>1. PICK A, sa : /\ Runs(a, A, sa) /\ Comes(k, a) = Result(a, sa)
                   /\ \A p \in DOMAIN A : A[p] = Makes(k, p[1], p[2])
  BY Coming
<1>2. PICK B, sb : /\ Runs(b, B, sb) /\ Comes(k, b) = Result(b, sb)
                   /\ \A p \in DOMAIN B : B[p] = Makes(k, p[1], p[2])
  BY Coming
<1>3. PICK D, sd : /\ Runs(d, D, sd) /\ Comes(k, d) = Result(d, sd)
                   /\ \A p \in DOMAIN D : D[p] = Makes(k, p[1], p[2])
  BY Coming
<1>4. PICK e : e = Over(Upon(Upon(a, b), d), n)
  OBVIOUS
<1>5. PICK C, sc : /\ Runs(e, C, sc) /\ Comes(k, e) = Result(e, sc)
                   /\ \A p \in DOMAIN C : C[p] = Makes(k, p[1], p[2])
  BY <1>4, Coming
<1>6. Agreeing(C, A) /\ Agreeing(C, B) /\ Agreeing(C, D)
  BY <1>1, <1>2, <1>3, <1>5, Agree, ZenonT(60)
<1>7. /\ Met(C, n, <<Result(a, sa), Result(b, sb), Result(d, sd)>>)
      /\ Result(Over(Upon(Upon(a, b), d), n), sc)
           = Made(C, n, <<Result(a, sa), Result(b, sb), Result(d, sd)>>)
  BY <1>1, <1>2, <1>3, <1>4, <1>5, <1>6, IteResult
<1> QED
  BY <1>1, <1>2, <1>3, <1>4, <1>5, <1>7 DEF Met, Made

\* A fold: the value of an expression.
OfValue == [fold |-> "value"]
\* Its width, by the widths of the registers.
OfSize == [fold |-> "size"]
\* What expr_bits says its width is.
OfBits == [fold |-> "bits"]
\* The expression simplified.
OfSimplify == [fold |-> "simplify"]
\* Its value when its names have the values u.
OfDenote(u) == [fold |-> "denote", values |-> u]
\* The term of a solver for it.
OfEncode(backend, d, v) == [fold |-> "encode", backend |-> backend, declared |-> d, values |-> v]

\* Nodes over trees are trees.
LEMMA Overs ==
    /\ \A n : Arity(n) = 0 => Yields(<<n>>, 1)
    /\ \A n, a : Arity(n) = 1 /\ Yields(a, 1) => Yields(Over(a, n), 1)
    /\ \A n, a, b : Arity(n) = 2 /\ Yields(a, 1) /\ Yields(b, 1) => Yields(Over(Upon(a, b), n), 1)
    /\ \A n, a, b, c : Arity(n) = 3 /\ Yields(a, 1) /\ Yields(b, 1) /\ Yields(c, 1)
                          => Yields(Over(Upon(Upon(a, b), c), n), 1)
<1>1. ASSUME NEW n, Arity(n) = 0 PROVE Yields(<<n>>, 1)
  BY <1>1, LeafTree DEF Tree, Arity, Leaves, IsVar
<1>2. ASSUME NEW n, NEW c, NEW k, Yields(c, k), Arity(n) = k PROVE Yields(Over(c, n), 1)
  <2>1. k \in 0..3 /\ Arity(n) <= k /\ k - Arity(n) + 1 = 1
    BY <1>2, Arities
  <2>2. Yields(Append(c, n), k - Arity(n) + 1)
    BY <1>2, <2>1, NodeYields
  <2> QED
    BY <2>1, <2>2 DEF Over
<1>3. ASSUME NEW a, NEW b, Yields(a, 1), Yields(b, 1) PROVE Yields(Upon(a, b), 2)
  <2>1. Yields(a \o b, 1 + 1)
    BY <1>3, BesideYields
  <2> QED
    BY <2>1 DEF Upon
<1>4. ASSUME NEW a, NEW b, NEW c, Yields(a, 1), Yields(b, 1), Yields(c, 1)
      PROVE  Yields(Upon(Upon(a, b), c), 3)
  <2>1. Yields(Upon(a, b) \o c, 2 + 1)
    BY <1>3, <1>4, BesideYields
  <2> QED
    BY <2>1 DEF Upon
<1> QED
  BY <1>1, <1>2, <1>3, <1>4

\* Value is the fold of the values.
LEMMA ValueComes ==
    ASSUME NEW e, Yields(e, 1)
    PROVE  Value(e) = Comes(OfValue, e)
<1> DEFINE Pushed(below, n) ==
               Append(SubSeq(below, 1, Len(below) - Arity(n)),
                      Computed(n, SubSeq(below, (Len(below) - Arity(n)) + 1, Len(below))))
           Rec(f) == f = [i \in 0..Len(e) |-> IF i = 0 THEN <<>> ELSE Pushed(f[i - 1], e[i])]
           stack == CHOOSE f : Rec(f)
<1>1. Value(e) = stack[Len(e)][1]
  BY DEF Value, Fold
<1>2. Len(e) \in Nat /\ IsSequence(e)
  BY Lengths DEF Yields
<1>3. \A below, n : Pushed(below, n) = StepOf(OfValue, n, below)
  BY DEF StepOf, Push, Top, Makes, OfValue
<1>4. PICK st : Follows(OfValue, e, st)
  BY <1>2, FoldsFollow
<1> HIDE DEF Pushed
<1>5. Rec([i \in 0..Len(e) |-> st[i]])
  <2> DEFINE g == [i \in 0..Len(e) |-> st[i]]
  <2>1. ASSUME NEW i \in 0..Len(e)
        PROVE  g[i] = IF i = 0 THEN <<>> ELSE Pushed(g[i - 1], e[i])
    <3>1. CASE i = 0
      BY <1>4, <3>1 DEF Follows
    <3>2. CASE i # 0
      <4>1. i \in 1..Len(e) /\ i - 1 \in 0..Len(e)
        BY <1>2, <3>2
      <4>2. g[i] = st[i] /\ g[i - 1] = st[i - 1]
        BY <4>1
      <4> HIDE DEF g
      <4> QED
        BY <1>3, <1>4, <3>2, <4>1, <4>2 DEF Follows
    <3> QED
      BY <3>1, <3>2
  <2> QED
    BY <2>1
<1>6. Rec(stack)
  <2> HIDE DEF Rec
  <2> QED
    BY <1>5
<1> HIDE DEF stack
<1>7. Follows(OfValue, e, stack)
  <2>1. stack[0] = <<>> /\ \A i \in 1..Len(e) : stack[i] = Pushed(stack[i - 1], e[i])
    BY <1>2, <1>6
  <2> QED
    BY <1>3, <2>1 DEF Follows
<1> QED
  BY <1>1, <1>7, ComesTo DEF Result, Left
\* Size is the fold of the widths.
LEMMA SizeComes ==
    ASSUME NEW e, Yields(e, 1)
    PROVE  Size(e) = Comes(OfSize, e)
<1> DEFINE Pushed(below, n) ==
               Append(SubSeq(below, 1, Len(below) - Arity(n)),
                      NodeSize(n, SubSeq(below, (Len(below) - Arity(n)) + 1, Len(below))))
           Rec(f) == f = [i \in 0..Len(e) |-> IF i = 0 THEN <<>> ELSE Pushed(f[i - 1], e[i])]
           stack == CHOOSE f : Rec(f)
<1>1. Size(e) = stack[Len(e)][1]
  BY DEF Size, Fold
<1>2. Len(e) \in Nat /\ IsSequence(e)
  BY Lengths DEF Yields
<1>3. \A below, n : Pushed(below, n) = StepOf(OfSize, n, below)
  BY DEF StepOf, Push, Top, Makes, OfSize
<1>4. PICK st : Follows(OfSize, e, st)
  BY <1>2, FoldsFollow
<1> HIDE DEF Pushed
<1>5. Rec([i \in 0..Len(e) |-> st[i]])
  <2> DEFINE g == [i \in 0..Len(e) |-> st[i]]
  <2>1. ASSUME NEW i \in 0..Len(e)
        PROVE  g[i] = IF i = 0 THEN <<>> ELSE Pushed(g[i - 1], e[i])
    <3>1. CASE i = 0
      BY <1>4, <3>1 DEF Follows
    <3>2. CASE i # 0
      <4>1. i \in 1..Len(e) /\ i - 1 \in 0..Len(e)
        BY <1>2, <3>2
      <4>2. g[i] = st[i] /\ g[i - 1] = st[i - 1]
        BY <4>1
      <4> HIDE DEF g
      <4> QED
        BY <1>3, <1>4, <3>2, <4>1, <4>2 DEF Follows
    <3> QED
      BY <3>1, <3>2
  <2> QED
    BY <2>1
<1>6. Rec(stack)
  <2> HIDE DEF Rec
  <2> QED
    BY <1>5
<1> HIDE DEF stack
<1>7. Follows(OfSize, e, stack)
  <2>1. stack[0] = <<>> /\ \A i \in 1..Len(e) : stack[i] = Pushed(stack[i - 1], e[i])
    BY <1>2, <1>6
  <2> QED
    BY <1>3, <2>1 DEF Follows
<1> QED
  BY <1>1, <1>7, ComesTo DEF Result, Left
\* The width of an expression, node by node.
LEMMA Sizes ==
    /\ \A n : Arity(n) = 0
            => Size(<<n>>) = NodeSize(n, <<>>)
    /\ \A n, a : Arity(n) = 1 /\ Yields(a, 1)
            => Size(Over(a, n)) = NodeSize(n, <<Size(a)>>)
    /\ \A n, a, b : Arity(n) = 2 /\ Yields(a, 1) /\ Yields(b, 1)
            => Size(Over(Upon(a, b), n)) = NodeSize(n, <<Size(a), Size(b)>>)
    /\ \A n, a, b, c : Arity(n) = 3 /\ Yields(a, 1) /\ Yields(b, 1) /\ Yields(c, 1)
            => Size(Over(Upon(Upon(a, b), c), n)) = NodeSize(n, <<Size(a), Size(b), Size(c)>>)
<1>1. ASSUME NEW n, Arity(n) = 0
      PROVE  Size(<<n>>) = NodeSize(n, <<>>)
  <2>1. Yields(<<n>>, 1)
    BY <1>1, Overs
  <2>2. Size(<<n>>) = Comes(OfSize, <<n>>)
    BY <1>1, <2>1, SizeComes
  <2>3. Comes(OfSize, <<n>>) = Makes(OfSize, n, <<>>)
    BY <1>1, <2>1, LeafComes
  <2> QED
    BY <2>2, <2>3 DEF Makes, OfSize
<1>2. ASSUME NEW n, NEW a, Arity(n) = 1, Yields(a, 1)
      PROVE  Size(Over(a, n)) = NodeSize(n, <<Size(a)>>)
  <2>1. Yields(Over(a, n), 1)
    BY <1>2, Overs
  <2>2. Size(a) = Comes(OfSize, a) /\ Size(Over(a, n)) = Comes(OfSize, Over(a, n))
    BY <1>2, <2>1, SizeComes
  <2>3. Comes(OfSize, Over(a, n)) = Makes(OfSize, n, <<Comes(OfSize, a)>>)
    BY <1>2, <2>1, UnaryComes
  <2> QED
    BY <2>2, <2>3 DEF Makes, OfSize
<1>3. ASSUME NEW n, NEW a, NEW b, Arity(n) = 2, Yields(a, 1), Yields(b, 1)
      PROVE  Size(Over(Upon(a, b), n)) = NodeSize(n, <<Size(a), Size(b)>>)
  <2>1. Yields(Over(Upon(a, b), n), 1)
    BY <1>3, Overs
  <2>2. Size(a) = Comes(OfSize, a) /\ Size(b) = Comes(OfSize, b)
        /\ Size(Over(Upon(a, b), n)) = Comes(OfSize, Over(Upon(a, b), n))
    BY <1>3, <2>1, SizeComes
  <2>3. Comes(OfSize, Over(Upon(a, b), n))
          = Makes(OfSize, n, <<Comes(OfSize, a), Comes(OfSize, b)>>)
    BY <1>3, <2>1, BinaryComes
  <2> QED
    BY <2>2, <2>3 DEF Makes, OfSize
<1>4. ASSUME NEW n, NEW a, NEW b, NEW c, Arity(n) = 3, Yields(a, 1), Yields(b, 1), Yields(c, 1)
      PROVE  Size(Over(Upon(Upon(a, b), c), n)) = NodeSize(n, <<Size(a), Size(b), Size(c)>>)
  <2>1. Yields(Over(Upon(Upon(a, b), c), n), 1)
    BY <1>4, Overs
  <2>2. Size(a) = Comes(OfSize, a) /\ Size(b) = Comes(OfSize, b)
        /\ Size(c) = Comes(OfSize, c)
        /\ Size(Over(Upon(Upon(a, b), c), n)) = Comes(OfSize, Over(Upon(Upon(a, b), c), n))
    BY <1>4, <2>1, SizeComes
  <2>3. Comes(OfSize, Over(Upon(Upon(a, b), c), n))
          = Makes(OfSize, n, <<Comes(OfSize, a), Comes(OfSize, b), Comes(OfSize, c)>>)
    BY <1>4, <2>1, IteComes
  <2> QED
    BY <2>2, <2>3 DEF Makes, OfSize
<1> QED
  BY <1>1, <1>2, <1>3, <1>4

\* ExprBits is the fold of the widths told.
LEMMA ExprBitsComes ==
    ASSUME NEW e, Yields(e, 1)
    PROVE  ExprBits(e) = Comes(OfBits, e)
<1> DEFINE Pushed(below, n) ==
               Append(SubSeq(below, 1, Len(below) - Arity(n)),
                      NodeBits(n, SubSeq(below, (Len(below) - Arity(n)) + 1, Len(below))))
           Rec(f) == f = [i \in 0..Len(e) |-> IF i = 0 THEN <<>> ELSE Pushed(f[i - 1], e[i])]
           stack == CHOOSE f : Rec(f)
<1>1. ExprBits(e) = stack[Len(e)][1]
  BY DEF ExprBits, Fold
<1>2. Len(e) \in Nat /\ IsSequence(e)
  BY Lengths DEF Yields
<1>3. \A below, n : Pushed(below, n) = StepOf(OfBits, n, below)
  BY DEF StepOf, Push, Top, Makes, OfBits
<1>4. PICK st : Follows(OfBits, e, st)
  BY <1>2, FoldsFollow
<1> HIDE DEF Pushed
<1>5. Rec([i \in 0..Len(e) |-> st[i]])
  <2> DEFINE g == [i \in 0..Len(e) |-> st[i]]
  <2>1. ASSUME NEW i \in 0..Len(e)
        PROVE  g[i] = IF i = 0 THEN <<>> ELSE Pushed(g[i - 1], e[i])
    <3>1. CASE i = 0
      BY <1>4, <3>1 DEF Follows
    <3>2. CASE i # 0
      <4>1. i \in 1..Len(e) /\ i - 1 \in 0..Len(e)
        BY <1>2, <3>2
      <4>2. g[i] = st[i] /\ g[i - 1] = st[i - 1]
        BY <4>1
      <4> HIDE DEF g
      <4> QED
        BY <1>3, <1>4, <3>2, <4>1, <4>2 DEF Follows
    <3> QED
      BY <3>1, <3>2
  <2> QED
    BY <2>1
<1>6. Rec(stack)
  <2> HIDE DEF Rec
  <2> QED
    BY <1>5
<1> HIDE DEF stack
<1>7. Follows(OfBits, e, stack)
  <2>1. stack[0] = <<>> /\ \A i \in 1..Len(e) : stack[i] = Pushed(stack[i - 1], e[i])
    BY <1>2, <1>6
  <2> QED
    BY <1>3, <2>1 DEF Follows
<1> QED
  BY <1>1, <1>7, ComesTo DEF Result, Left
\* The width expr_bits tells, node by node.
LEMMA BitsOf ==
    /\ \A n : Arity(n) = 0
            => ExprBits(<<n>>) = NodeBits(n, <<>>)
    /\ \A n, a : Arity(n) = 1 /\ Yields(a, 1)
            => ExprBits(Over(a, n)) = NodeBits(n, <<ExprBits(a)>>)
    /\ \A n, a, b : Arity(n) = 2 /\ Yields(a, 1) /\ Yields(b, 1)
            => ExprBits(Over(Upon(a, b), n)) = NodeBits(n, <<ExprBits(a), ExprBits(b)>>)
    /\ \A n, a, b, c : Arity(n) = 3 /\ Yields(a, 1) /\ Yields(b, 1) /\ Yields(c, 1)
            => ExprBits(Over(Upon(Upon(a, b), c), n))
              = NodeBits(n, <<ExprBits(a), ExprBits(b), ExprBits(c)>>)
<1>1. ASSUME NEW n, Arity(n) = 0
      PROVE  ExprBits(<<n>>) = NodeBits(n, <<>>)
  <2>1. Yields(<<n>>, 1)
    BY <1>1, Overs
  <2>2. ExprBits(<<n>>) = Comes(OfBits, <<n>>)
    BY <1>1, <2>1, ExprBitsComes
  <2>3. Comes(OfBits, <<n>>) = Makes(OfBits, n, <<>>)
    BY <1>1, <2>1, LeafComes
  <2> QED
    BY <2>2, <2>3 DEF Makes, OfBits
<1>2. ASSUME NEW n, NEW a, Arity(n) = 1, Yields(a, 1)
      PROVE  ExprBits(Over(a, n)) = NodeBits(n, <<ExprBits(a)>>)
  <2>1. Yields(Over(a, n), 1)
    BY <1>2, Overs
  <2>2. ExprBits(a) = Comes(OfBits, a) /\ ExprBits(Over(a, n)) = Comes(OfBits, Over(a, n))
    BY <1>2, <2>1, ExprBitsComes
  <2>3. Comes(OfBits, Over(a, n)) = Makes(OfBits, n, <<Comes(OfBits, a)>>)
    BY <1>2, <2>1, UnaryComes
  <2> QED
    BY <2>2, <2>3 DEF Makes, OfBits
<1>3. ASSUME NEW n, NEW a, NEW b, Arity(n) = 2, Yields(a, 1), Yields(b, 1)
      PROVE  ExprBits(Over(Upon(a, b), n)) = NodeBits(n, <<ExprBits(a), ExprBits(b)>>)
  <2>1. Yields(Over(Upon(a, b), n), 1)
    BY <1>3, Overs
  <2>2. ExprBits(a) = Comes(OfBits, a) /\ ExprBits(b) = Comes(OfBits, b)
        /\ ExprBits(Over(Upon(a, b), n)) = Comes(OfBits, Over(Upon(a, b), n))
    BY <1>3, <2>1, ExprBitsComes
  <2>3. Comes(OfBits, Over(Upon(a, b), n))
          = Makes(OfBits, n, <<Comes(OfBits, a), Comes(OfBits, b)>>)
    BY <1>3, <2>1, BinaryComes
  <2> QED
    BY <2>2, <2>3 DEF Makes, OfBits
<1>4. ASSUME NEW n, NEW a, NEW b, NEW c, Arity(n) = 3, Yields(a, 1), Yields(b, 1), Yields(c, 1)
      PROVE  ExprBits(Over(Upon(Upon(a, b), c), n))
               = NodeBits(n, <<ExprBits(a), ExprBits(b), ExprBits(c)>>)
  <2>1. Yields(Over(Upon(Upon(a, b), c), n), 1)
    BY <1>4, Overs
  <2>2. ExprBits(a) = Comes(OfBits, a) /\ ExprBits(b) = Comes(OfBits, b)
        /\ ExprBits(c) = Comes(OfBits, c)
        /\ ExprBits(Over(Upon(Upon(a, b), c), n)) = Comes(OfBits, Over(Upon(Upon(a, b), c), n))
    BY <1>4, <2>1, ExprBitsComes
  <2>3. Comes(OfBits, Over(Upon(Upon(a, b), c), n))
          = Makes(OfBits, n, <<Comes(OfBits, a), Comes(OfBits, b), Comes(OfBits, c)>>)
    BY <1>4, <2>1, IteComes
  <2> QED
    BY <2>2, <2>3 DEF Makes, OfBits
<1> QED
  BY <1>1, <1>2, <1>3, <1>4

\* Simplify is the fold that rebuilds.
LEMMA SimplifyComes ==
    ASSUME NEW e, Yields(e, 1)
    PROVE  Simplify(e) = Comes(OfSimplify, e)
<1> DEFINE Pushed(below, n) ==
               Append(SubSeq(below, 1, Len(below) - Arity(n)),
                      Rebuilt(n, SubSeq(below, (Len(below) - Arity(n)) + 1, Len(below))))
           Rec(f) == f = [i \in 0..Len(e) |-> IF i = 0 THEN <<>> ELSE Pushed(f[i - 1], e[i])]
           stack == CHOOSE f : Rec(f)
<1>1. Simplify(e) = stack[Len(e)][1]
  BY DEF Simplify, Fold
<1>2. Len(e) \in Nat /\ IsSequence(e)
  BY Lengths DEF Yields
<1>3. \A below, n : Pushed(below, n) = StepOf(OfSimplify, n, below)
  BY DEF StepOf, Push, Top, Makes, OfSimplify
<1>4. PICK st : Follows(OfSimplify, e, st)
  BY <1>2, FoldsFollow
<1> HIDE DEF Pushed
<1>5. Rec([i \in 0..Len(e) |-> st[i]])
  <2> DEFINE g == [i \in 0..Len(e) |-> st[i]]
  <2>1. ASSUME NEW i \in 0..Len(e)
        PROVE  g[i] = IF i = 0 THEN <<>> ELSE Pushed(g[i - 1], e[i])
    <3>1. CASE i = 0
      BY <1>4, <3>1 DEF Follows
    <3>2. CASE i # 0
      <4>1. i \in 1..Len(e) /\ i - 1 \in 0..Len(e)
        BY <1>2, <3>2
      <4>2. g[i] = st[i] /\ g[i - 1] = st[i - 1]
        BY <4>1
      <4> HIDE DEF g
      <4> QED
        BY <1>3, <1>4, <3>2, <4>1, <4>2 DEF Follows
    <3> QED
      BY <3>1, <3>2
  <2> QED
    BY <2>1
<1>6. Rec(stack)
  <2> HIDE DEF Rec
  <2> QED
    BY <1>5
<1> HIDE DEF stack
<1>7. Follows(OfSimplify, e, stack)
  <2>1. stack[0] = <<>> /\ \A i \in 1..Len(e) : stack[i] = Pushed(stack[i - 1], e[i])
    BY <1>2, <1>6
  <2> QED
    BY <1>3, <2>1 DEF Follows
<1> QED
  BY <1>1, <1>7, ComesTo DEF Result, Left
\* A simplified expression, node by node.
LEMMA Simplifies ==
    /\ \A n : Arity(n) = 0
            => Simplify(<<n>>) = Rebuilt(n, <<>>)
    /\ \A n, a : Arity(n) = 1 /\ Yields(a, 1)
            => Simplify(Over(a, n)) = Rebuilt(n, <<Simplify(a)>>)
    /\ \A n, a, b : Arity(n) = 2 /\ Yields(a, 1) /\ Yields(b, 1)
            => Simplify(Over(Upon(a, b), n)) = Rebuilt(n, <<Simplify(a), Simplify(b)>>)
    /\ \A n, a, b, c : Arity(n) = 3 /\ Yields(a, 1) /\ Yields(b, 1) /\ Yields(c, 1)
            => Simplify(Over(Upon(Upon(a, b), c), n))
              = Rebuilt(n, <<Simplify(a), Simplify(b), Simplify(c)>>)
<1>1. ASSUME NEW n, Arity(n) = 0
      PROVE  Simplify(<<n>>) = Rebuilt(n, <<>>)
  <2>1. Yields(<<n>>, 1)
    BY <1>1, Overs
  <2>2. Simplify(<<n>>) = Comes(OfSimplify, <<n>>)
    BY <1>1, <2>1, SimplifyComes
  <2>3. Comes(OfSimplify, <<n>>) = Makes(OfSimplify, n, <<>>)
    BY <1>1, <2>1, LeafComes
  <2> QED
    BY <2>2, <2>3 DEF Makes, OfSimplify
<1>2. ASSUME NEW n, NEW a, Arity(n) = 1, Yields(a, 1)
      PROVE  Simplify(Over(a, n)) = Rebuilt(n, <<Simplify(a)>>)
  <2>1. Yields(Over(a, n), 1)
    BY <1>2, Overs
  <2>2. Simplify(a) = Comes(OfSimplify, a) /\ Simplify(Over(a, n)) = Comes(OfSimplify, Over(a, n))
    BY <1>2, <2>1, SimplifyComes
  <2>3. Comes(OfSimplify, Over(a, n)) = Makes(OfSimplify, n, <<Comes(OfSimplify, a)>>)
    BY <1>2, <2>1, UnaryComes
  <2> QED
    BY <2>2, <2>3 DEF Makes, OfSimplify
<1>3. ASSUME NEW n, NEW a, NEW b, Arity(n) = 2, Yields(a, 1), Yields(b, 1)
      PROVE  Simplify(Over(Upon(a, b), n)) = Rebuilt(n, <<Simplify(a), Simplify(b)>>)
  <2>1. Yields(Over(Upon(a, b), n), 1)
    BY <1>3, Overs
  <2>2. Simplify(a) = Comes(OfSimplify, a) /\ Simplify(b) = Comes(OfSimplify, b)
        /\ Simplify(Over(Upon(a, b), n)) = Comes(OfSimplify, Over(Upon(a, b), n))
    BY <1>3, <2>1, SimplifyComes
  <2>3. Comes(OfSimplify, Over(Upon(a, b), n))
          = Makes(OfSimplify, n, <<Comes(OfSimplify, a), Comes(OfSimplify, b)>>)
    BY <1>3, <2>1, BinaryComes
  <2> QED
    BY <2>2, <2>3 DEF Makes, OfSimplify
<1>4. ASSUME NEW n, NEW a, NEW b, NEW c, Arity(n) = 3, Yields(a, 1), Yields(b, 1), Yields(c, 1)
      PROVE  Simplify(Over(Upon(Upon(a, b), c), n))
               = Rebuilt(n, <<Simplify(a), Simplify(b), Simplify(c)>>)
  <2>1. Yields(Over(Upon(Upon(a, b), c), n), 1)
    BY <1>4, Overs
  <2>2. Simplify(a) = Comes(OfSimplify, a) /\ Simplify(b) = Comes(OfSimplify, b)
        /\ Simplify(c) = Comes(OfSimplify, c)
        /\ Simplify(Over(Upon(Upon(a, b), c), n)) = Comes(OfSimplify, Over(Upon(Upon(a, b), c), n))
    BY <1>4, <2>1, SimplifyComes
  <2>3. Comes(OfSimplify, Over(Upon(Upon(a, b), c), n))
          = Makes(OfSimplify, n,
          <<Comes(OfSimplify, a), Comes(OfSimplify, b), Comes(OfSimplify, c)>>)
    BY <1>4, <2>1, IteComes
  <2> QED
    BY <2>2, <2>3 DEF Makes, OfSimplify
<1> QED
  BY <1>1, <1>2, <1>3, <1>4

\* Encode is the fold of the terms.
LEMMA EncodeComes ==
    ASSUME NEW e, Yields(e, 1), NEW backend, NEW d, NEW v
    PROVE  Encode(backend, e, d, v) = Comes(OfEncode(backend, d, v), e)
<1> DEFINE k == OfEncode(backend, d, v)
           Pushed(below, n) ==
               Append(SubSeq(below, 1, Len(below) - Arity(n)),
                      EncodedNode(backend, n, SubSeq(below, (Len(below) - Arity(n)) + 1,
                         Len(below)), d, v))
           Rec(f) == f = [i \in 0..Len(e) |-> IF i = 0 THEN <<>> ELSE Pushed(f[i - 1], e[i])]
           stack == CHOOSE f : Rec(f)
<1>1. Encode(backend, e, d, v) = stack[Len(e)][1]
  BY DEF Encode, Fold
<1>2. Len(e) \in Nat /\ IsSequence(e)
  BY Lengths DEF Yields
<1>3. \A below, n : Pushed(below, n) = StepOf(k, n, below)
  BY DEF StepOf, Push, Top, Makes, OfEncode
<1> HIDE DEF k
<1>4. PICK st : Follows(k, e, st)
  BY <1>2, FoldsFollow
<1> HIDE DEF Pushed
<1>5. Rec([i \in 0..Len(e) |-> st[i]])
  <2> DEFINE g == [i \in 0..Len(e) |-> st[i]]
  <2>1. ASSUME NEW i \in 0..Len(e)
        PROVE  g[i] = IF i = 0 THEN <<>> ELSE Pushed(g[i - 1], e[i])
    <3>1. CASE i = 0
      BY <1>4, <3>1 DEF Follows
    <3>2. CASE i # 0
      <4>1. i \in 1..Len(e) /\ i - 1 \in 0..Len(e)
        BY <1>2, <3>2
      <4>2. g[i] = st[i] /\ g[i - 1] = st[i - 1]
        BY <4>1
      <4> HIDE DEF g
      <4> QED
        BY <1>3, <1>4, <3>2, <4>1, <4>2 DEF Follows
    <3> QED
      BY <3>1, <3>2
  <2> QED
    BY <2>1
<1>6. Rec(stack)
  <2> HIDE DEF Rec
  <2> QED
    BY <1>5
<1> HIDE DEF stack
<1>7. Follows(k, e, stack)
  <2>1. stack[0] = <<>> /\ \A i \in 1..Len(e) : stack[i] = Pushed(stack[i - 1], e[i])
    BY <1>2, <1>6
  <2> QED
    BY <1>3, <2>1 DEF Follows
<1> QED
  BY <1>1, <1>7, ComesTo DEF k, Result, Left
\* The term for an expression, node by node.
LEMMA Encodes ==
    /\ \A n, backend, d, v : Arity(n) = 0
            => Encode(backend, <<n>>, d, v) = EncodedNode(backend, n, <<>>, d, v)
    /\ \A n, a, backend, d, v : Arity(n) = 1 /\ Yields(a, 1)
            => Encode(backend, Over(a, n), d, v)
              = EncodedNode(backend, n, <<Encode(backend, a, d, v)>>, d, v)
    /\ \A n, a, b, backend, d, v : Arity(n) = 2 /\ Yields(a, 1) /\ Yields(b, 1)
            => Encode(backend, Over(Upon(a, b), n), d, v)
              = EncodedNode(backend, n, <<Encode(backend, a, d, v), Encode(backend, b, d, v)>>,
              d, v)
    /\ \A n, a, b, c, backend, d, v : Arity(n) = 3 /\ Yields(a, 1) /\ Yields(b, 1) /\ Yields(c, 1)
            => Encode(backend, Over(Upon(Upon(a, b), c), n), d, v)
              = EncodedNode(backend, n,
              <<Encode(backend, a, d, v), Encode(backend, b, d, v), Encode(backend, c, d, v)>>,
              d, v)
<1>1. ASSUME NEW n, NEW backend, NEW d, NEW v, Arity(n) = 0
      PROVE  Encode(backend, <<n>>, d, v) = EncodedNode(backend, n, <<>>, d, v)
  <2>1. Yields(<<n>>, 1)
    BY <1>1, Overs
  <2>2. Encode(backend, <<n>>, d, v) = Comes(OfEncode(backend, d, v), <<n>>)
    BY <1>1, <2>1, EncodeComes
  <2>3. Comes(OfEncode(backend, d, v), <<n>>) = Makes(OfEncode(backend, d, v), n, <<>>)
    BY <1>1, <2>1, LeafComes
  <2> QED
    BY <2>2, <2>3 DEF Makes, OfEncode
<1>2. ASSUME NEW n, NEW a, NEW backend, NEW d, NEW v, Arity(n) = 1, Yields(a, 1)
      PROVE  Encode(backend, Over(a, n), d, v)
               = EncodedNode(backend, n, <<Encode(backend, a, d, v)>>, d, v)
  <2>1. Yields(Over(a, n), 1)
    BY <1>2, Overs
  <2>2. Encode(backend, a, d, v) = Comes(OfEncode(backend, d, v), a)
          /\ Encode(backend, Over(a, n), d, v) = Comes(OfEncode(backend, d, v), Over(a, n))
    BY <1>2, <2>1, EncodeComes
  <2>3. Comes(OfEncode(backend, d, v), Over(a, n))
          = Makes(OfEncode(backend, d, v), n, <<Comes(OfEncode(backend, d, v), a)>>)
    BY <1>2, <2>1, UnaryComes
  <2> QED
    BY <2>2, <2>3 DEF Makes, OfEncode
<1>3. ASSUME NEW n, NEW a, NEW b, NEW backend, NEW d, NEW v, Arity(n) = 2, Yields(a, 1),
               Yields(b, 1)
      PROVE  Encode(backend, Over(Upon(a, b), n), d, v)
               = EncodedNode(backend, n, <<Encode(backend, a, d, v), Encode(backend, b, d, v)>>,
               d, v)
  <2>1. Yields(Over(Upon(a, b), n), 1)
    BY <1>3, Overs
  <2>2. Encode(backend, a, d, v) = Comes(OfEncode(backend, d, v), a)
          /\ Encode(backend, b, d, v) = Comes(OfEncode(backend, d, v), b)
        /\ Encode(backend, Over(Upon(a, b), n), d, v)
             = Comes(OfEncode(backend, d, v), Over(Upon(a, b), n))
    BY <1>3, <2>1, EncodeComes
  <2>3. Comes(OfEncode(backend, d, v), Over(Upon(a, b), n))
          = Makes(OfEncode(backend, d, v), n,
          <<Comes(OfEncode(backend, d, v), a), Comes(OfEncode(backend, d, v), b)>>)
    BY <1>3, <2>1, BinaryComes
  <2> QED
    BY <2>2, <2>3 DEF Makes, OfEncode
<1>4. ASSUME NEW n, NEW a, NEW b, NEW c, NEW backend, NEW d, NEW v, Arity(n) = 3, Yields(a, 1),
               Yields(b, 1), Yields(c, 1)
      PROVE  Encode(backend, Over(Upon(Upon(a, b), c), n), d, v)
               = EncodedNode(backend, n,
               <<Encode(backend, a, d, v), Encode(backend, b, d, v), Encode(backend, c, d, v)>>,
               d, v)
  <2>1. Yields(Over(Upon(Upon(a, b), c), n), 1)
    BY <1>4, Overs
  <2>2. Encode(backend, a, d, v) = Comes(OfEncode(backend, d, v), a)
          /\ Encode(backend, b, d, v) = Comes(OfEncode(backend, d, v), b)
        /\ Encode(backend, c, d, v) = Comes(OfEncode(backend, d, v), c)
        /\ Encode(backend, Over(Upon(Upon(a, b), c), n), d, v)
             = Comes(OfEncode(backend, d, v), Over(Upon(Upon(a, b), c), n))
    BY <1>4, <2>1, EncodeComes
  <2>3. Comes(OfEncode(backend, d, v), Over(Upon(Upon(a, b), c), n))
          = Makes(OfEncode(backend, d, v), n,
          <<Comes(OfEncode(backend, d, v), a), Comes(OfEncode(backend, d, v), b),
          Comes(OfEncode(backend, d, v), c)>>)
    BY <1>4, <2>1, IteComes
  <2> QED
    BY <2>2, <2>3 DEF Makes, OfEncode
<1> QED
  BY <1>1, <1>2, <1>3, <1>4

----------------------------------------------------------------------------
(* What a width says of a node, and the width of the terms for it.          *)

\* A leaf that has a width has that of its register, of its constant, or of
\* what is unknown.
LEMMA LeafSize ==
    ASSUME NEW n, Arity(n) = 0, NodeSize(n, <<>>) # 0
    PROVE  \/ /\ n.op = "var" /\ n.name[1] \in Registers /\ n.bits = Width[n.name[1]]
              /\ NodeSize(n, <<>>) = n.bits
           \/ /\ n.op = "const" /\ n.bits \in Nat /\ n.value \in 0..(2 ^ n.bits - 1)
              /\ NodeSize(n, <<>>) = n.bits
           \/ n.op = "unknown" /\ n.stands[1] \in Hidden /\ NodeSize(n, <<>>) = Widest
<1>1. n.op \in {"var", "const", "unknown"}
  BY DEF Arity, Leaves
<1>2. ~(\E k \in DOMAIN <<>> : <<>>[k] = 0)
  OBVIOUS
<1>3. CASE n.op = "var"
  BY <1>2, <1>3 DEF NodeSize, Relations, Wrapping
<1>4. CASE n.op = "const"
  BY <1>2, <1>4 DEF NodeSize, Relations, Wrapping
<1>5. CASE n.op = "unknown"
  BY <1>2, <1>5 DEF NodeSize, Relations, Wrapping
<1> QED
  BY <1>1, <1>3, <1>4, <1>5

\* What has a width over one operand, and the width it has.
LEMMA UnarySize ==
    ASSUME NEW n, Arity(n) = 1, NEW x, NodeSize(n, <<x>>) # 0
    PROVE  /\ x # 0
           /\ \/ n.op = "not" /\ x = 1 /\ NodeSize(n, <<x>>) = 1
              \/ /\ n.op = "extract" /\ n.lo \in 0..n.hi /\ n.hi \in 0..(x - 1)
                 /\ NodeSize(n, <<x>>) = n.hi - n.lo + 1
              \/ /\ n.op \in {"zext", "sext"} /\ n.to \in Nat /\ n.to >= x
                 /\ NodeSize(n, <<x>>) = n.to
<1>1. n.op \in {"not", "extract", "zext", "sext"}
  BY DEF Arity, Leaves
<1>2. DOMAIN <<x>> = {1} /\ <<x>>[1] = x
  OBVIOUS
<1>3. x # 0
  BY <1>2 DEF NodeSize
<1>4. ~(\E k \in DOMAIN <<x>> : <<x>>[k] = 0)
  BY <1>2, <1>3
<1>5. CASE n.op = "not"
  BY <1>3, <1>4, <1>5 DEF NodeSize, Relations, Wrapping
<1>6. CASE n.op = "extract"
  BY <1>3, <1>4, <1>6 DEF NodeSize, Relations, Wrapping
<1>7. CASE n.op \in {"zext", "sext"}
  BY <1>3, <1>4, <1>7 DEF NodeSize, Relations, Wrapping
<1> QED
  BY <1>1, <1>3, <1>5, <1>6, <1>7

\* What has a width over two operands, and the width it has.
LEMMA BinarySize ==
    ASSUME NEW n, Arity(n) = 2, NEW x, NEW y, NodeSize(n, <<x, y>>) # 0
    PROVE  /\ x # 0 /\ y # 0
           /\ \/ /\ n.op \in Relations \cup {"booland", "boolor"}
                 /\ NodeSize(n, <<x, y>>) = 1
              \/ /\ n.op \in Wrapping \cup {"ror"} /\ x = y
                 /\ NodeSize(n, <<x, y>>) = x
              \/ n.op = "concat" /\ NodeSize(n, <<x, y>>) = x + y
<1>1. n.op \notin {"var", "const", "unknown", "not", "extract", "zext", "sext", "ite"}
  BY DEF Arity, Leaves
<1>2. DOMAIN <<x, y>> = {1, 2} /\ <<x, y>>[1] = x /\ <<x, y>>[2] = y
  OBVIOUS
<1>3. x # 0 /\ y # 0
  BY <1>2 DEF NodeSize
<1>4. ~(\E k \in DOMAIN <<x, y>> : <<x, y>>[k] = 0)
  BY <1>2, <1>3
<1>5. CASE n.op \in Relations \cup {"booland", "boolor"}
  BY <1>3, <1>4, <1>5 DEF NodeSize, Relations, Wrapping
<1>6. CASE n.op \in Wrapping \cup {"ror"}
  BY <1>3, <1>4, <1>6 DEF NodeSize, Relations, Wrapping
<1>7. CASE n.op = "concat"
  BY <1>3, <1>4, <1>7 DEF NodeSize, Relations, Wrapping
<1>8. CASE n.op \notin Relations \cup {"booland", "boolor"} \cup Wrapping \cup {"ror", "concat"}
  BY <1>1, <1>4, <1>8 DEF NodeSize
<1> QED
  BY <1>3, <1>5, <1>6, <1>7, <1>8

\* An ite has the width of its branches.
LEMMA IteSize ==
    ASSUME NEW n, Arity(n) = 3, NEW x, NEW y, NEW z, NodeSize(n, <<x, y, z>>) # 0
    PROVE  /\ n.op = "ite" /\ x # 0 /\ y # 0 /\ y = z
           /\ NodeSize(n, <<x, y, z>>) = y
<1>1. n.op = "ite"
  BY DEF Arity, Leaves
<1>2. DOMAIN <<x, y, z>> = {1, 2, 3} /\ <<x, y, z>>[1] = x
      /\ <<x, y, z>>[2] = y /\ <<x, y, z>>[3] = z
  OBVIOUS
<1>3. x # 0 /\ y # 0 /\ z # 0
  BY <1>2 DEF NodeSize
<1>4. ~(\E k \in DOMAIN <<x, y, z>> : <<x, y, z>>[k] = 0)
  BY <1>2, <1>3
<1> QED
  BY <1>1, <1>3, <1>4 DEF NodeSize, Relations, Wrapping

\* A term of a width, one of a Bool counting for a bit.
OfWidth(t, w) == w \in Nat \ {0} /\ (t.w = w \/ (t.w = 0 /\ w = 1))
\* What a name is declared at is its width.
DeclaredRight(n, d) ==
    IsVar(n) => n.name \in DOMAIN d /\ d[n.name] = Width[n.name[1]]

\* A term of a width is a bit vector of that width, as it stands or lifted
\* from a Boolean.
LEMMA TermOfWidth ==
    ASSUME NEW t, NEW w, OfWidth(t, w)
    PROVE  IsTerm(t) /\ AsBv(t).w = w /\ w \in Nat \ {0}
BY DEF OfWidth, IsTerm, AsBv, Term

\* The text backend writes terms of the same width.
LEMMA TextOfWidth ==
    ASSUME NEW t, NEW w, OfWidth(t, w), NEW backend
    PROVE  OfWidth(OfText(backend, t), w)
BY DEF OfWidth, IsTerm, AsBv, Term, OfText

\* A binary operator over terms of two widths has the larger one, a relation
\* one bit.
LEMMA MatchedOfWidth ==
    ASSUME NEW x, NEW v, OfWidth(x, v), NEW y, NEW w, OfWidth(y, w), NEW op
    PROVE  OfWidth(Matched(op, AsBv(x), AsBv(y)), IF op \in Relations THEN 1 ELSE Larger(v, w))
<1>1. PICK p : p = AsBv(x)
  OBVIOUS
<1>2. PICK q : q = AsBv(y)
  OBVIOUS
<1>3. p.w = v /\ v \in Nat \ {0} /\ q.w = w /\ w \in Nat \ {0}
  BY <1>1, <1>2, TermOfWidth
<1>4. PICK l \in Nat \ {0} : l = Larger(v, w)
  BY <1>3 DEF Larger
<1>5. v <= l /\ w <= l
  BY <1>3, <1>4 DEF Larger
<1>6. PICK a : a = Widen(p, l, op \in SignedOps)
  OBVIOUS
<1>7. PICK b : b = Widen(q, l, op \in SignedOps)
  OBVIOUS
<1>8. a.w = l /\ b.w = l
  BY <1>3, <1>5, <1>6, <1>7 DEF Widen, Term
<1>9. Matched(op, p, q) = Application(op, a, b)
  BY <1>3, <1>4, <1>6, <1>7 DEF Matched
<1>10. Application(op, a, b).w = IF op \in Relations THEN 0 ELSE l
  BY <1>8 DEF Application, Term
<1> QED
  BY <1>1, <1>2, <1>4, <1>9, <1>10 DEF OfWidth

\* The term for a leaf has the width of the leaf.
LEMMA LeafEncodes ==
    ASSUME NEW backend \in Backends, NEW d, NEW v, NEW n, Arity(n) = 0,
           DeclaredRight(n, d), NodeSize(n, <<>>) # 0
    PROVE  OfWidth(EncodedNode(backend, n, <<>>, d, v), NodeSize(n, <<>>))
<1>1. ~(\E k \in DOMAIN <<>> : ~IsTerm(<<>>[k]))
  OBVIOUS
<1>2. CASE n.op = "var"
  <2>1. n.name[1] \in Registers /\ n.bits = Width[n.name[1]] /\ NodeSize(n, <<>>) = n.bits
    BY <1>2, LeafSize
  <2>2. n.name \in DOMAIN d /\ d[n.name] = n.bits /\ n.bits \in Nat \ {0}
    BY <1>2, <2>1, WidthsAssumption DEF DeclaredRight, IsVar
  <2>3. EncodedNode(backend, n, <<>>, d, v) = Symbol(backend, n, d, v)
    BY <1>1, <1>2 DEF EncodedNode
  <2>4. Symbol(backend, n, d, v).w = n.bits
    BY <2>2 DEF Symbol, Term
  <2> QED
    BY <2>1, <2>2, <2>3, <2>4 DEF OfWidth
<1>3. CASE n.op = "const"
  <2>1. n.bits \in Nat /\ NodeSize(n, <<>>) = n.bits
    BY <1>3, LeafSize
  <2>2. EncodedNode(backend, n, <<>>, d, v).w = n.bits
    BY <1>1, <1>3 DEF EncodedNode, Term
  <2> QED
    BY <2>1, <2>2 DEF OfWidth
<1>4. CASE n.op = "unknown"
  <2>1. NodeSize(n, <<>>) = Widest
    BY <1>4, LeafSize
  <2>2. EncodedNode(backend, n, <<>>, d, v).w = Widest
    BY <1>1, <1>4 DEF EncodedNode, Term
  <2> QED
    BY <2>1, <2>2, WidthsAssumption DEF OfWidth
<1> QED
  BY <1>2, <1>3, <1>4, LeafSize

\* The term for a node over one operand has the width of the node.
LEMMA UnaryEncodes ==
    ASSUME NEW backend \in Backends, NEW d, NEW v, NEW n, Arity(n) = 1,
           NEW t, NEW w, w # 0 => OfWidth(t, w), NodeSize(n, <<w>>) # 0
    PROVE  OfWidth(EncodedNode(backend, n, <<t>>, d, v), NodeSize(n, <<w>>))
<1>1. OfWidth(t, w)
  BY UnarySize
<1>2. IsTerm(t) /\ AsBv(t).w = w /\ w \in Nat \ {0}
  BY <1>1, TermOfWidth
<1>3. DOMAIN <<t>> = {1} /\ <<t>>[1] = t
  OBVIOUS
<1>4. ~(\E k \in DOMAIN <<t>> : ~IsTerm(<<t>>[k]))
  BY <1>2, <1>3
<1> DEFINE r == EncodedNode(backend, n, <<t>>, d, v)
<1>5. CASE n.op = "not"
  <2>1. NodeSize(n, <<w>>) = 1
    BY <1>5, UnarySize
  <2>2. r = OfText(backend, Term(0, 1 - AsBool(t).v))
    BY <1>3, <1>4, <1>5 DEF EncodedNode
  <2>3. OfWidth(Term(0, 1 - AsBool(t).v), 1)
    BY DEF OfWidth, Term
  <2> QED
    BY <2>1, <2>2, <2>3, TextOfWidth
<1>6. CASE n.op = "extract"
  <2>1. n.lo \in 0..n.hi /\ n.hi \in 0..(w - 1) /\ NodeSize(n, <<w>>) = n.hi - n.lo + 1
    BY <1>6, UnarySize
  <2>2. ~(n.hi >= AsBv(t).w \/ n.lo > n.hi)
    BY <1>2, <2>1
  <2>3. r = Term(n.hi - n.lo + 1, Slice(t.v, n.hi, n.lo))
    BY <1>3, <1>4, <1>6, <2>2 DEF EncodedNode
  <2> QED
    BY <2>1, <2>3 DEF OfWidth, Term
<1>7. CASE n.op = "zext"
  <2>1. n.to \in Nat /\ n.to >= w /\ NodeSize(n, <<w>>) = n.to
    BY <1>7, UnarySize
  <2>2. r = Fit(t, n.to)
    BY <1>3, <1>4, <1>7 DEF EncodedNode
  <2> QED
    BY <1>2, <2>1, <2>2 DEF OfWidth, Term, Fit
<1>8. CASE n.op = "sext"
  <2>1. n.to \in Nat /\ n.to >= w /\ NodeSize(n, <<w>>) = n.to
    BY <1>8, UnarySize
  <2>2. r = Fit(Widen(AsBv(t), n.to, TRUE), n.to)
    BY <1>3, <1>4, <1>8 DEF EncodedNode
  <2>3. IsTerm(Widen(AsBv(t), n.to, TRUE))
    BY <1>2, <2>1 DEF Widen, IsTerm, Term
  <2> QED
    BY <1>2, <2>1, <2>2, <2>3 DEF OfWidth, Term, Fit
<1> QED
  BY <1>5, <1>6, <1>7, <1>8, UnarySize

\* The term for a node over two operands has the width of the node.
LEMMA BinaryEncodes ==
    ASSUME NEW backend \in Backends, NEW d, NEW v, NEW n, Arity(n) = 2,
           NEW t, NEW w, w # 0 => OfWidth(t, w), NEW u, NEW x, x # 0 => OfWidth(u, x),
           NodeSize(n, <<w, x>>) # 0
    PROVE  OfWidth(EncodedNode(backend, n, <<t, u>>, d, v), NodeSize(n, <<w, x>>))
<1>1. OfWidth(t, w) /\ OfWidth(u, x)
  BY BinarySize
<1>2. /\ IsTerm(t) /\ AsBv(t).w = w /\ w \in Nat \ {0}
      /\ IsTerm(u) /\ AsBv(u).w = x /\ x \in Nat \ {0}
  BY <1>1, TermOfWidth
<1>3. DOMAIN <<t, u>> = {1, 2} /\ <<t, u>>[1] = t /\ <<t, u>>[2] = u
  OBVIOUS
<1>4. ~(\E k \in DOMAIN <<t, u>> : ~IsTerm(<<t, u>>[k]))
  BY <1>2, <1>3
<1> DEFINE r == EncodedNode(backend, n, <<t, u>>, d, v)
<1>5. CASE n.op \in {"booland", "boolor"}
  <2>1. NodeSize(n, <<w, x>>) = 1
    BY <1>5, BinarySize DEF Wrapping
  <2>2. \E b : r = OfText(backend, Term(0, b))
    BY <1>3, <1>4, <1>5 DEF EncodedNode
  <2>3. PICK b : r = OfText(backend, Term(0, b))
    BY <2>2
  <2>4. OfWidth(Term(0, b), 1)
    BY DEF OfWidth, Term
  <2> QED
    BY <2>1, <2>3, <2>4, TextOfWidth
<1>6. CASE n.op \in Relations \cup Wrapping \cup {"ror"}
  <2>1. /\ n.op \in Relations => NodeSize(n, <<w, x>>) = 1
        /\ n.op \notin Relations => NodeSize(n, <<w, x>>) = w /\ x = w
    BY <1>6, BinarySize DEF Wrapping, Relations
  <2>2. CASE n.op = "ror" /\ backend = "text"
    <3>1. NodeSize(n, <<w, x>>) = w
      BY <2>1, <2>2 DEF Relations
    <3>2. r = Term(t.w, Arith("ror", t.v, u.v, t.w))
      BY <1>3, <1>4, <2>2 DEF EncodedNode
    <3> QED
      BY <1>1, <3>1, <3>2 DEF OfWidth, Term
  <2>3. CASE ~(n.op = "ror" /\ backend = "text")
    <3>1. r = OfText(backend, Matched(n.op, AsBv(t), AsBv(u)))
      BY <1>3, <1>4, <1>6, <2>3 DEF EncodedNode, Relations, Wrapping
    <3>2. OfWidth(Matched(n.op, AsBv(t), AsBv(u)), NodeSize(n, <<w, x>>))
      <4>1. NodeSize(n, <<w, x>>) = IF n.op \in Relations THEN 1 ELSE Larger(w, x)
        BY <1>2, <2>1 DEF Larger
      <4> QED
        BY <1>1, <4>1, MatchedOfWidth
    <3> QED
      BY <3>1, <3>2, TextOfWidth
  <2> QED
    BY <2>2, <2>3
<1>7. CASE n.op = "concat"
  <2>1. NodeSize(n, <<w, x>>) = w + x
    BY <1>7, BinarySize DEF Wrapping, Relations
  <2>2. r.w = AsBv(t).w + AsBv(u).w
    BY <1>3, <1>4, <1>7 DEF EncodedNode, Term
  <2> QED
    BY <1>2, <2>1, <2>2 DEF OfWidth
<1> QED
  BY <1>5, <1>6, <1>7, BinarySize

\* The term for an ite has the width of the ite.
LEMMA IteEncodes ==
    ASSUME NEW backend \in Backends, NEW d, NEW v, NEW n, Arity(n) = 3,
           NEW c, NEW x, x # 0 => OfWidth(c, x), NEW t, NEW y, y # 0 => OfWidth(t, y),
           NEW u, NEW z, z # 0 => OfWidth(u, z), NodeSize(n, <<x, y, z>>) # 0
    PROVE  OfWidth(EncodedNode(backend, n, <<c, t, u>>, d, v), NodeSize(n, <<x, y, z>>))
<1>1. /\ n.op = "ite" /\ y = z /\ NodeSize(n, <<x, y, z>>) = y
      /\ OfWidth(c, x) /\ OfWidth(t, y) /\ OfWidth(u, y)
  BY IteSize
<1>2. /\ IsTerm(c) /\ IsTerm(t) /\ IsTerm(u) /\ AsBv(t).w = y /\ AsBv(u).w = y
      /\ y \in Nat \ {0}
  BY <1>1, TermOfWidth
<1>3. /\ DOMAIN <<c, t, u>> = {1, 2, 3}
      /\ <<c, t, u>>[1] = c /\ <<c, t, u>>[2] = t /\ <<c, t, u>>[3] = u
  OBVIOUS
<1>4. ~(\E k \in DOMAIN <<c, t, u>> : ~IsTerm(<<c, t, u>>[k]))
  BY <1>2, <1>3
<1>5. Larger(AsBv(t).w, AsBv(u).w) = y
  BY <1>2 DEF Larger
<1>6. EncodedNode(backend, n, <<c, t, u>>, d, v)
        = Widen(IF AsBool(c).v = 1 THEN AsBv(t) ELSE AsBv(u), y, FALSE)
  BY <1>1, <1>3, <1>4, <1>5 DEF EncodedNode
<1>7. PICK p : p = IF AsBool(c).v = 1 THEN AsBv(t) ELSE AsBv(u)
  OBVIOUS
<1>8. p.w = y
  BY <1>2, <1>7
<1>9. Widen(p, y, FALSE) = p
  <2>1. ~(p.w < y)
    BY <1>2, <1>8
  <2> QED
    BY <2>1 DEF Widen
<1> QED
  BY <1>1, <1>2, <1>6, <1>7, <1>8, <1>9 DEF OfWidth

\* What the encoder makes of an expression is a term of its width.
LEMMA EncodedTerm ==
    ASSUME NEW backend \in Backends, NEW d, NEW v, NEW T,
           \A n \in T : DeclaredRight(n, d),
           NEW e \in Trees(T), Size(e) # 0
    PROVE  OfWidth(Encode(backend, e, d, v), Size(e))
<1> DEFINE S == {f \in Trees(T) : Size(f) # 0 => OfWidth(Encode(backend, f, d, v), Size(f))}
<1>1. \A f \in Trees(T) : Yields(f, 1)
  BY TreesAre
<1>2. ASSUME NEW n \in T, Arity(n) = 0, <<n>> \in Trees(T) PROVE <<n>> \in S
  <2>1. Size(<<n>>) = NodeSize(n, <<>>)
          /\ Encode(backend, <<n>>, d, v) = EncodedNode(backend, n, <<>>, d, v)
    BY <1>2, Sizes, Encodes
  <2> QED
    BY <1>2, <2>1, LeafEncodes
<1>3. ASSUME NEW n \in T, Arity(n) = 1, NEW a \in S \cap Trees(T), Over(a, n) \in Trees(T)
      PROVE  Over(a, n) \in S
  <2>1. /\ Size(Over(a, n)) = NodeSize(n, <<Size(a)>>)
        /\ Encode(backend, Over(a, n), d, v)
             = EncodedNode(backend, n, <<Encode(backend, a, d, v)>>, d, v)
    BY <1>1, <1>3, Sizes, Encodes
  <2> QED
    BY <1>3, <2>1, UnaryEncodes
<1>4. ASSUME NEW n \in T, Arity(n) = 2, NEW a \in S \cap Trees(T), NEW b \in S \cap Trees(T),
             Over(Upon(a, b), n) \in Trees(T)
      PROVE  Over(Upon(a, b), n) \in S
  <2>1. /\ Size(Over(Upon(a, b), n)) = NodeSize(n, <<Size(a), Size(b)>>)
        /\ Encode(backend, Over(Upon(a, b), n), d, v)
             = EncodedNode(backend, n, <<Encode(backend, a, d, v), Encode(backend, b, d, v)>>, d, v)
    BY <1>1, <1>4, Sizes, Encodes
  <2> QED
    BY <1>4, <2>1, BinaryEncodes
<1>5. ASSUME NEW n \in T, Arity(n) = 3, NEW a \in S \cap Trees(T), NEW b \in S \cap Trees(T),
             NEW c \in S \cap Trees(T), Over(Upon(Upon(a, b), c), n) \in Trees(T)
      PROVE  Over(Upon(Upon(a, b), c), n) \in S
  <2>1. /\ Size(Over(Upon(Upon(a, b), c), n)) = NodeSize(n, <<Size(a), Size(b), Size(c)>>)
        /\ Encode(backend, Over(Upon(Upon(a, b), c), n), d, v)
             = EncodedNode(backend, n, <<Encode(backend, a, d, v), Encode(backend, b, d, v),
                                         Encode(backend, c, d, v)>>, d, v)
    BY <1>1, <1>5, Sizes, Encodes
  <2> QED
    BY <1>5, <2>1, IteEncodes
<1> HIDE DEF S
<1>6. e \in S
  BY <1>2, <1>3, <1>4, <1>5, TreeInduction
<1> QED
  BY <1>6 DEF S

----------------------------------------------------------------------------
(* Arithmetic: powers of two, remainders, and values of a width.            *)

\* A power of two counts the subsets of a set: it is a number above zero.
LEMMA PowerIsCount ==
    ASSUME NEW n \in Nat
    PROVE  /\ IsFiniteSet(SUBSET (1..n)) /\ Cardinality(SUBSET (1..n)) = 2 ^ n
           /\ 2 ^ n \in Nat \ {0}
<1>1. IsFiniteSet(1..n) /\ Cardinality(1..n) = n
  <2>1. IsFiniteSet(1..n) /\ Cardinality(1..n) = IF 1 > n THEN 0 ELSE n - 1 + 1
    BY FS_Interval
  <2> QED
    BY <2>1
<1>2. IsFiniteSet(SUBSET (1..n)) /\ Cardinality(SUBSET (1..n)) = 2 ^ n
  BY <1>1, FS_SUBSET
<1>3. PICK S : S = SUBSET (1..n)
  OBVIOUS
<1>4. {} \in S
  BY <1>3
<1>5. Cardinality(S) \in Nat /\ Cardinality(S) # 0
  BY <1>2, <1>3, <1>4, FS_CardinalityType, FS_EmptySet
<1> QED
  BY <1>2, <1>3, <1>5

\* The next power of two is twice this one.
LEMMA PowerDoubles ==
    ASSUME NEW n \in Nat
    PROVE  2 ^ (n + 1) = 2 ^ n + 2 ^ n
<1> DEFINE S == SUBSET (1..n)
           T == SUBSET (1..(n + 1))
           with(B) == B \cup {n + 1}
           U == {with(B) : B \in S}
           f == [B \in S |-> with(B)]
<1>1. n + 1 \in Nat /\ ~(n + 1 \in 1..n) /\ 1..(n + 1) = 1..n \cup {n + 1}
  OBVIOUS
<1>2. T = S \cup U
  <2>1. ASSUME NEW C \in T PROVE C \in S \cup U
    <3>1. CASE n + 1 \in C
      <4>1. C \ {n + 1} \in S /\ C = with(C \ {n + 1})
        BY <1>1, <2>1, <3>1
      <4> QED
        BY <4>1
    <3>2. CASE n + 1 \notin C
      BY <1>1, <2>1, <3>2
    <3> QED
      BY <3>1, <3>2
  <2>2. ASSUME NEW C \in S \cup U PROVE C \in T
    BY <1>1, <2>2
  <2> QED
    BY <2>1, <2>2
<1>3. S \cap U = {}
  BY <1>1
<1>4. f \in Bijection(S, U)
  <2>1. f \in [S -> U]
    OBVIOUS
  <2>2. ASSUME NEW B \in S, NEW C \in S, f[B] = f[C] PROVE B = C
    BY <1>1, <2>2
  <2>3. \A C \in U : \E B \in S : f[B] = C
    OBVIOUS
  <2> HIDE DEF f, S, U
  <2> QED
    BY <2>1, <2>2, <2>3 DEF Bijection, Injection, Surjection, IsInjective
<1>5. IsFiniteSet(S) /\ Cardinality(S) = 2 ^ n /\ 2 ^ n \in Nat
  BY PowerIsCount
<1>6. IsFiniteSet(U) /\ Cardinality(U) = Cardinality(S)
  <2>1. ExistsBijection(S, U)
    BY <1>4 DEF ExistsBijection
  <2> HIDE DEF S, U
  <2> QED
    BY <1>5, <2>1, FS_Bijection
<1>7. Cardinality(T) = 2 ^ (n + 1)
  BY PowerIsCount
<1>8. Cardinality(S \cap U) = 0
  BY <1>3, FS_EmptySet
<1> HIDE DEF S, T, U
<1>9. Cardinality(S \cup U) = Cardinality(S) + Cardinality(U) - Cardinality(S \cap U)
  BY <1>5, <1>6, FS_Union
<1> QED
  BY <1>2, <1>5, <1>6, <1>7, <1>8, <1>9

\* A power of a sum is the product of the powers.
LEMMA PowersMultiply ==
    ASSUME NEW m \in Nat, NEW n \in Nat
    PROVE  2 ^ (m + n) = 2 ^ m * 2 ^ n
<1> DEFINE S == {k \in Nat : 2 ^ (m + k) = 2 ^ m * 2 ^ k}
<1>1. 0 \in S
  <2>1. 2 ^ 0 = 1 /\ m + 0 = m
    OBVIOUS
  <2>2. PICK p \in Nat : p = 2 ^ m
    BY PowerIsCount
  <2>3. 2 ^ (m + 0) = p
    BY <2>1, <2>2
  <2>4. p * 1 = p
    OBVIOUS
  <2> QED
    BY <2>1, <2>2, <2>3, <2>4
<1>2. ASSUME NEW k \in Nat, k \in S PROVE k + 1 \in S
  <2>1. PICK p \in Nat : p = 2 ^ m
    BY PowerIsCount
  <2>2. PICK q \in Nat : q = 2 ^ k
    BY PowerIsCount
  <2>3. 2 ^ (m + k) = p * q /\ m + (k + 1) = (m + k) + 1 /\ m + k \in Nat
    BY <1>2, <2>1, <2>2
  <2>4. 2 ^ (m + (k + 1)) = p * q + p * q
    BY <2>3, PowerDoubles
  <2>5. 2 ^ (k + 1) = q + q
    BY <2>2, PowerDoubles
  <2>6. p * q + p * q = p * (q + q)
    OBVIOUS
  <2> QED
    BY <2>1, <2>4, <2>5, <2>6
<1> HIDE DEF S
<1>3. n \in S
  BY <1>1, <1>2, Induction
<1> QED
  BY <1>3 DEF S

\* Powers of two grow.
LEMMA PowersGrow ==
    ASSUME NEW m \in Nat, NEW n \in Nat, m <= n
    PROVE  2 ^ m <= 2 ^ n
<1>1. PICK k \in Nat : n = m + k
  <2>1. n - m \in Nat /\ n = m + (n - m)
    OBVIOUS
  <2> QED
    BY <2>1
<1>2. PICK p \in Nat : p = 2 ^ m
  BY PowerIsCount
<1>3. PICK q \in Nat \ {0} : q = 2 ^ k
  BY PowerIsCount
<1>4. 2 ^ n = p * q
  BY <1>1, <1>2, <1>3, PowersMultiply
<1>5. p <= p * q
  OBVIOUS
<1> QED
  BY <1>2, <1>4, <1>5

\* A remainder and its quotient.
LEMMA Remainder ==
    ASSUME NEW m \in Nat \ {0}, NEW x \in Int
    PROVE  /\ x % m \in 0..(m - 1) /\ x \div m \in Int
           /\ x = m * (x \div m) + (x % m)
           /\ x \in Nat => x \div m \in 0..x
<1>1. x % m \in 0..(m - 1) /\ x \div m \in Int
  OBVIOUS
<1>2. x = m * (x \div m) + (x % m)
  OBVIOUS
<1>3. x \in Nat => x \div m >= 0 /\ x \div m <= x
  OBVIOUS
<1> QED
  BY <1>1, <1>2, <1>3

\* A number is its quotient and its remainder, in one way only.
LEMMA RemainderIs ==
    ASSUME NEW m \in Nat \ {0}, NEW q \in Int, NEW r \in 0..(m - 1)
    PROVE  (m * q + r) % m = r /\ (m * q + r) \div m = q
<1>1. PICK x \in Int : x = m * q + r
  OBVIOUS
<1>2. PICK p \in Int : p = x \div m
  BY Remainder
<1>3. PICK s \in 0..(m - 1) : s = x % m
  BY Remainder
<1>4. x = m * p + s
  BY <1>2, <1>3, Remainder
<1>5. m * (p - q) = r - s
  BY <1>1, <1>4
<1>6. p = q
  <2>1. CASE p - q >= 1
    <3>1. m * (p - q) >= m
      BY <2>1
    <3> QED
      BY <1>5, <3>1
  <2>2. CASE p - q <= -1
    <3>1. m * (p - q) <= -m
      BY <2>2
    <3> QED
      BY <1>5, <3>1
  <2> QED
    BY <2>1, <2>2
<1>7. s = r
  BY <1>5, <1>6
<1> QED
  BY <1>1, <1>2, <1>3, <1>6, <1>7

\* What is smaller than the modulus is its own remainder.
LEMMA SmallRemainder ==
    ASSUME NEW m \in Nat \ {0}, NEW x \in 0..(m - 1)
    PROVE  x % m = x /\ x \div m = 0
<1>1. m * 0 + x = x
  OBVIOUS
<1> QED
  BY <1>1, RemainderIs

\* Taking the modulus away once changes no remainder.
LEMMA LessOnce ==
    ASSUME NEW m \in Nat \ {0}, NEW x \in 0..(m - 1)
    PROVE  (x - m) % m = x
<1>1. m * (-1) + x = x - m
  OBVIOUS
<1>2. -1 \in Int
  OBVIOUS
<1>3. (m * (-1) + x) % m = x
  BY <1>2, RemainderIs
<1> QED
  BY <1>1, <1>3

\* A number of so many bits.
InWidth(x, w) == x \in 0..(2 ^ w - 1)

\* A value of a width is a number below its power of two.
LEMMA InWidthIs ==
    ASSUME NEW w \in Nat, NEW x, InWidth(x, w)
    PROVE  x \in Nat /\ x < 2 ^ w /\ 2 ^ w \in Nat \ {0}
BY PowerIsCount DEF InWidth

\* What is wrapped to a width is of that width.
LEMMA RemainderInWidth ==
    ASSUME NEW w \in Nat, NEW x \in Int
    PROVE  InWidth(x % 2 ^ w, w)
BY PowerIsCount, Remainder DEF InWidth

\* A value of a width wraps to itself.
LEMMA WithinItsWidth ==
    ASSUME NEW w \in Nat, NEW x, InWidth(x, w)
    PROVE  x % 2 ^ w = x
BY PowerIsCount, SmallRemainder DEF InWidth

\* The signed reading of a value wraps to the value.
LEMMA SignedIs ==
    ASSUME NEW w \in Nat, NEW x, InWidth(x, w)
    PROVE  Signed(x, w) \in Int /\ Signed(x, w) % 2 ^ w = x
<1>1. PICK m \in Nat \ {0} : m = 2 ^ w
  BY PowerIsCount
<1>2. x \in 0..(m - 1)
  BY <1>1 DEF InWidth
<1>3. Signed(x, w) \in {x, x - m}
  BY <1>1 DEF Signed
<1>4. (x - m) % m = x
  BY <1>2, LessOnce
<1>5. x % m = x
  BY <1>2, SmallRemainder
<1> QED
  BY <1>1, <1>2, <1>3, <1>4, <1>5

\* What is extended or cut to a width is of that width.
LEMMA ResizeInWidth ==
    ASSUME NEW v \in Nat, NEW w \in Nat, NEW x, InWidth(x, v), NEW signed
    PROVE  InWidth(Resize(x, v, w, signed), w)
<1>1. x \in Int /\ Signed(x, v) \in Int
  BY InWidthIs, SignedIs
<1> QED
  BY <1>1, RemainderInWidth DEF Resize

\* Resizing to the same width changes nothing.
LEMMA ResizeToItself ==
    ASSUME NEW w \in Nat, NEW x, InWidth(x, w), NEW signed
    PROVE  Resize(x, w, w, signed) = x
BY SignedIs, WithinItsWidth DEF Resize

\* A slice has the width of its bits.
LEMMA SliceInWidth ==
    ASSUME NEW x \in Nat, NEW hi \in Nat, NEW lo \in 0..hi
    PROVE  InWidth(Slice(x, hi, lo), hi - lo + 1)
<1>1. PICK y \in Int : y = x \div 2 ^ lo
  <2>1. PICK p \in Nat \ {0} : p = 2 ^ lo
    <3>1. lo \in Nat
      OBVIOUS
    <3> QED
      BY <3>1, PowerIsCount
  <2> QED
    BY <2>1, Remainder
<1>2. hi - lo + 1 \in Nat
  OBVIOUS
<1> QED
  BY <1>1, <1>2, RemainderInWidth DEF Slice

\* The slice of all the bits is the value.
LEMMA SliceOfAll ==
    ASSUME NEW w \in Nat \ {0}, NEW x, InWidth(x, w)
    PROVE  Slice(x, w - 1, 0) = x
<1>1. 2 ^ 0 = 1 /\ w - 1 - 0 + 1 = w
  OBVIOUS
<1>2. x \in Nat /\ x \div 1 = x
  BY InWidthIs
<1>3. x % 2 ^ w = x
  BY WithinItsWidth
<1> QED
  BY <1>1, <1>2, <1>3 DEF Slice

\* Two values one above the other are below the product of their bounds.
LEMMA JoinedValues ==
    ASSUME NEW m \in Nat \ {0}, NEW n \in Nat \ {0}, NEW x \in 0..(m - 1), NEW y \in 0..(n - 1)
    PROVE  (x * n + y) \in 0..(m * n - 1)
<1>1. x * n <= m * n - n /\ x * n \in Nat /\ m * n \in Nat
  <2>1. (m - 1) * n = m * n - n
    OBVIOUS
  <2>2. x <= m - 1
    OBVIOUS
  <2>3. x * n <= (m - 1) * n
    BY <2>2
  <2> QED
    BY <2>1, <2>3
<1> QED
  BY <1>1

\* A concatenation has the sum of the widths.
LEMMA JoinedInWidth ==
    ASSUME NEW v \in Nat, NEW w \in Nat, NEW x, InWidth(x, v), NEW y, InWidth(y, w)
    PROVE  InWidth((x * (2 ^ w)) + y, v + w)
<1>1. PICK m \in Nat \ {0} : m = 2 ^ v
  BY PowerIsCount
<1>2. PICK n \in Nat \ {0} : n = 2 ^ w
  BY PowerIsCount
<1>3. 2 ^ (v + w) = m * n
  BY <1>1, <1>2, PowersMultiply
<1>4. x \in 0..(m - 1) /\ y \in 0..(n - 1)
  BY <1>1, <1>2 DEF InWidth
<1>5. (x * n + y) \in 0..(m * n - 1)
  BY <1>4, JoinedValues
<1> QED
  BY <1>2, <1>3, <1>5 DEF InWidth

----------------------------------------------------------------------------
(* Bits, and the bitwise operators as sums of them.                         *)

\* A bit is a quotient's parity.
LEMMA BitIs ==
    ASSUME NEW z \in Nat, NEW k \in Nat, NEW m \in Nat \ {0}, m = 2 ^ k
    PROVE  Bit(z, k) = (z \div m) % 2 /\ Bit(z, k) \in {0, 1}
<1>1. k - k + 1 = 1 /\ 2 ^ 1 = 2
  OBVIOUS
<1>2. Bit(z, k) = (z \div m) % 2
  BY <1>1 DEF Bit, Slice
<1>3. PICK q \in Int : q = z \div m
  BY Remainder
<1>4. q % 2 \in {0, 1}
  OBVIOUS
<1> QED
  BY <1>2, <1>3, <1>4

\* One more bit of a value.
LEMMA HalfRemainder ==
    ASSUME NEW m \in Nat \ {0}, NEW z \in Nat
    PROVE  z % (m + m) = (z % m) + ((z \div m) % 2) * m
<1>1. PICK q \in Int : q = z \div m
  BY Remainder
<1>2. PICK r \in 0..(m - 1) : r = z % m
  BY Remainder
<1>3. z = m * q + r
  BY <1>1, <1>2, Remainder
<1>4. PICK p \in Int : p = q \div 2
  OBVIOUS
<1>5. PICK b \in {0, 1} : b = q % 2
  OBVIOUS
<1>6. q = 2 * p + b
  BY <1>4, <1>5
<1>7. PICK n \in Nat \ {0} : n = m + m
  OBVIOUS
<1>8. PICK c \in Nat : c = b * m /\ c \in {0, m}
  OBVIOUS
<1>9. z = n * p + (c + r)
  <2>1. m * q = m * (2 * p) + m * b
    BY <1>6
  <2>2. m * (2 * p) = n * p /\ m * b = c
    BY <1>7, <1>8
  <2> QED
    BY <1>3, <2>1, <2>2
<1>10. (c + r) \in 0..(n - 1)
  BY <1>7, <1>8
<1>11. z % n = c + r
  BY <1>9, <1>10, RemainderIs
<1> QED
  BY <1>1, <1>2, <1>5, <1>7, <1>8, <1>11

\* The sums of the bits g from the lowest on.
Sums(s, g, w) == s = [i \in 0..w |-> IF i = 0 THEN 0 ELSE s[i - 1] + g[i - 1] * 2 ^ (i - 1)]

\* Every sequence of bits has its partial sums.
LEMMA SumsAre ==
    ASSUME NEW w \in Nat, NEW g
    PROVE  \E s : Sums(s, g, w)
<1> DEFINE Rec(f, m) == f[0] = 0 /\ \A i \in 1..m : f[i] = f[i - 1] + g[i - 1] * 2 ^ (i - 1)
           S == {m \in Nat : \E f : Rec(f, m)}
<1>1. 0 \in S
  <2> DEFINE h == [i \in 0..0 |-> 0]
  <2>1. Rec(h, 0)
    OBVIOUS
  <2> HIDE DEF h
  <2> QED
    BY <2>1
<1>2. ASSUME NEW m \in Nat, m \in S PROVE m + 1 \in S
  <2>1. PICK f : Rec(f, m)
    BY <1>2
  <2>2. PICK x : x = f[m] + g[m] * 2 ^ m
    OBVIOUS
  <2> DEFINE h == [i \in 0..(m + 1) |-> IF i <= m THEN f[i] ELSE x]
  <2>3. h[m + 1] = x /\ \A i \in 0..m : h[i] = f[i]
    OBVIOUS
  <2> HIDE DEF h
  <2>4. ASSUME NEW i \in 1..(m + 1) PROVE h[i] = h[i - 1] + g[i - 1] * 2 ^ (i - 1)
    <3>1. CASE i = m + 1
      <4>1. m \in 0..m /\ i - 1 = m
        BY <3>1
      <4> QED
        BY <2>2, <2>3, <3>1, <4>1
    <3>2. CASE i # m + 1
      <4>1. i \in 1..m /\ i \in 0..m /\ i - 1 \in 0..m
        BY <3>2
      <4> QED
        BY <2>1, <2>3, <4>1
    <3> QED
      BY <3>1, <3>2
  <2>5. Rec(h, m + 1)
    BY <2>1, <2>3, <2>4
  <2> QED
    BY <2>5
<1> HIDE DEF S
<1>3. w \in S
  BY <1>1, <1>2, Induction
<1>4. PICK f : Rec(f, w)
  BY <1>3 DEF S
<1> DEFINE s == [i \in 0..w |-> f[i]]
<1>5. \A i \in 0..w : s[i] = f[i]
  OBVIOUS
<1>6. \A i \in 0..w : s[i] = IF i = 0 THEN 0 ELSE s[i - 1] + g[i - 1] * 2 ^ (i - 1)
  <2> SUFFICES ASSUME NEW i \in 0..w PROVE s[i] = IF i = 0 THEN 0
                         ELSE s[i - 1] + g[i - 1] * 2 ^ (i - 1)
    OBVIOUS
  <2> HIDE DEF s
  <2>1. CASE i = 0
    BY <1>4, <1>5, <2>1
  <2>2. CASE i # 0
    <3>1. i \in 1..w /\ i - 1 \in 0..w
      BY <2>2
    <3> QED
      BY <1>4, <1>5, <2>2, <3>1
  <2> QED
    BY <2>1, <2>2
<1>7. s = [i \in 0..w |-> IF i = 0 THEN 0 ELSE s[i - 1] + g[i - 1] * 2 ^ (i - 1)]
  <2>1. s = [i \in 0..w |-> s[i]]
    OBVIOUS
  <2> HIDE DEF s
  <2> QED
    BY <1>6, <2>1
<1> QED
  BY <1>7 DEF Sums

\* One more bit of the sum.
LEMMA SumsStep ==
    ASSUME NEW w \in Nat, NEW g, NEW s, Sums(s, g, w), NEW k \in Nat, k + 1 <= w
    PROVE  s[k + 1] = s[k] + g[k] * 2 ^ k
<1>1. k + 1 \in 0..w /\ k + 1 # 0 /\ k + 1 - 1 = k
  OBVIOUS
<1>2. PICK j : j = k + 1
  OBVIOUS
<1>3. s[j] = s[j - 1] + g[j - 1] * 2 ^ (j - 1)
  BY <1>1, <1>2 DEF Sums
<1> QED
  BY <1>1, <1>2, <1>3

\* Bits add up to a value of their number.
LEMMA SumsInWidth ==
    ASSUME NEW w \in Nat, NEW g, NEW s, Sums(s, g, w), \A i \in 0..(w - 1) : g[i] \in {0, 1}
    PROVE  InWidth(s[w], w)
<1> DEFINE S == {k \in Nat : k <= w => InWidth(s[k], k)}
<1>1. 0 \in S
  <2>1. s[0] = 0 /\ 2 ^ 0 = 1
    BY DEF Sums
  <2> QED
    BY <2>1 DEF InWidth
<1>2. ASSUME NEW k \in Nat, k \in S PROVE k + 1 \in S
  <2> SUFFICES ASSUME k + 1 <= w PROVE InWidth(s[k + 1], k + 1)
    OBVIOUS
  <2>1. PICK m \in Nat \ {0} : m = 2 ^ k
    BY PowerIsCount
  <2>2. 2 ^ (k + 1) = m + m
    BY <2>1, PowerDoubles
  <2>3. s[k + 1] = s[k] + g[k] * m
    BY <2>1, SumsStep
  <2>4. g[k] \in {0, 1}
    OBVIOUS
  <2>5. s[k] \in 0..(m - 1)
    BY <1>2, <2>1 DEF InWidth
  <2>6. s[k + 1] \in 0..(m + m - 1)
    BY <2>3, <2>4, <2>5
  <2> QED
    BY <2>2, <2>6 DEF InWidth
<1> HIDE DEF S
<1>3. w \in S
  BY <1>1, <1>2, Induction
<1> QED
  BY <1>3 DEF S

\* The bits of a value add up to the value, wrapped.
LEMMA SumsAreValue ==
    ASSUME NEW w \in Nat, NEW g, NEW s, Sums(s, g, w),
           NEW z \in Nat, \A i \in 0..(w - 1) : g[i] = Bit(z, i)
    PROVE  s[w] = z % 2 ^ w
<1> DEFINE S == {k \in Nat : k <= w => s[k] = z % 2 ^ k}
<1>1. 0 \in S
  <2>1. s[0] = 0 /\ 2 ^ 0 = 1 /\ z % 1 = 0
    BY DEF Sums
  <2> QED
    BY <2>1
<1>2. ASSUME NEW k \in Nat, k \in S PROVE k + 1 \in S
  <2> SUFFICES ASSUME k + 1 <= w PROVE s[k + 1] = z % 2 ^ (k + 1)
    OBVIOUS
  <2>1. PICK m \in Nat \ {0} : m = 2 ^ k
    BY PowerIsCount
  <2>2. 2 ^ (k + 1) = m + m
    BY <2>1, PowerDoubles
  <2>3. s[k + 1] = s[k] + g[k] * m
    BY <2>1, SumsStep
  <2>4. k \in 0..(w - 1)
    OBVIOUS
  <2>5. g[k] = (z \div m) % 2
    BY <2>1, <2>4, BitIs
  <2>6. s[k] = z % m
    BY <1>2, <2>1
  <2>7. z % (m + m) = (z % m) + ((z \div m) % 2) * m
    BY HalfRemainder
  <2> QED
    BY <2>2, <2>3, <2>5, <2>6, <2>7
<1> HIDE DEF S
<1>3. w \in S
  BY <1>1, <1>2, Induction
<1> QED
  BY <1>3 DEF S

\* The bits that Bitwise adds up.
BitOf(op, x, y, i) ==
    CASE op = "and" -> Bit(x, i) * Bit(y, i)
      [] op = "or" -> Larger(Bit(x, i), Bit(y, i))
      [] op = "xor" -> (Bit(x, i) + Bit(y, i)) % 2

\* A bitwise operator is the sum of what it makes of each bit.
LEMMA BitwiseSums ==
    ASSUME NEW op, NEW x, NEW y, NEW w \in Nat
    PROVE  \E s, g : /\ Sums(s, g, w) /\ Bitwise(op, x, y, w) = s[w]
                     /\ \A i \in 0..(w - 1) : g[i] = BitOf(op, x, y, i)
<1> DEFINE g == [i \in 0..(w - 1) |-> BitOf(op, x, y, i)]
<1>1. \A i \in 0..(w - 1) : g[i] = BitOf(op, x, y, i)
  OBVIOUS
<1> HIDE DEF g
<1>2. \A s : Sums(s, g, w) <=>
              s = [i \in 0..w |-> IF i = 0 THEN 0
                 ELSE s[i - 1] + BitOf(op, x, y, i - 1) * 2 ^ (i - 1)]
  <2> SUFFICES ASSUME NEW s
               PROVE [i \in 0..w |-> IF i = 0 THEN 0
                        ELSE s[i - 1] + BitOf(op, x, y, i - 1) * 2 ^ (i - 1)]
                     = [i \in 0..w |-> IF i = 0 THEN 0 ELSE s[i - 1] + g[i - 1] * 2 ^ (i - 1)]
    BY DEF Sums
  <2>1. ASSUME NEW i \in 0..w, i # 0 PROVE g[i - 1] = BitOf(op, x, y, i - 1)
    BY <1>1, <2>1
  <2> QED
    BY <2>1
<1>3. Bitwise(op, x, y, w)
        = (CHOOSE s : s = [i \in 0..w |->
                IF i = 0 THEN 0 ELSE s[i - 1] + BitOf(op, x, y, i - 1) * 2 ^ (i - 1)])[w]
  BY DEF Bitwise, BitOf
<1>4. PICK s : s = CHOOSE other : other = [i \in 0..w |->
                IF i = 0 THEN 0 ELSE other[i - 1] + BitOf(op, x, y, i - 1) * 2 ^ (i - 1)]
  OBVIOUS
<1>5. Sums(s, g, w)
  BY <1>2, <1>4, SumsAre
<1> QED
  BY <1>1, <1>3, <1>4, <1>5

\* A bit is 0 or 1.
LEMMA BitBounds ==
    ASSUME NEW z \in Nat, NEW i \in Nat
    PROVE  Bit(z, i) \in {0, 1}
BY PowerIsCount, BitIs

\* A bitwise operator stays in its width.
LEMMA BitwiseInWidth ==
    ASSUME NEW op \in {"and", "or", "xor"}, NEW x \in Nat, NEW y \in Nat, NEW w \in Nat
    PROVE  InWidth(Bitwise(op, x, y, w), w)
<1>1. PICK s, g : /\ Sums(s, g, w) /\ Bitwise(op, x, y, w) = s[w]
                  /\ \A i \in 0..(w - 1) : g[i] = BitOf(op, x, y, i)
  BY BitwiseSums
<1>2. ASSUME NEW i \in 0..(w - 1) PROVE g[i] \in {0, 1}
  <2>1. PICK a \in {0, 1} : a = Bit(x, i)
    BY BitBounds
  <2>2. PICK b \in {0, 1} : b = Bit(y, i)
    BY BitBounds
  <2>3. g[i] \in {a * b, Larger(a, b), (a + b) % 2}
    BY <1>1, <2>1, <2>2 DEF BitOf
  <2>4. a * b \in {0, 1} /\ Larger(a, b) \in {0, 1} /\ (a + b) % 2 \in {0, 1}
    BY DEF Larger
  <2> QED
    BY <2>3, <2>4
<1> QED
  BY <1>1, <1>2, SumsInWidth

\* A bitwise operation that gives z bit by bit gives z.
LEMMA BitwiseIs ==
    ASSUME NEW op, NEW x, NEW y, NEW w \in Nat, NEW z, InWidth(z, w),
           \A i \in 0..(w - 1) : BitOf(op, x, y, i) = Bit(z, i)
    PROVE  Bitwise(op, x, y, w) = z
<1>1. PICK s, g : /\ Sums(s, g, w) /\ Bitwise(op, x, y, w) = s[w]
                  /\ \A i \in 0..(w - 1) : g[i] = BitOf(op, x, y, i)
  BY BitwiseSums
<1>2. z \in Nat
  BY InWidthIs
<1>3. \A i \in 0..(w - 1) : g[i] = Bit(z, i)
  BY <1>1
<1>4. s[w] = z % 2 ^ w
  BY <1>1, <1>2, <1>3, SumsAreValue
<1> QED
  BY <1>1, <1>4, WithinItsWidth

\* Zero has no bit.
LEMMA BitOfNothing ==
    ASSUME NEW i \in Nat
    PROVE  Bit(0, i) = 0
<1>1. PICK m \in Nat \ {0} : m = 2 ^ i
  BY PowerIsCount
<1>2. 0 \div m = 0
  <2>1. 0 \in 0..(m - 1)
    OBVIOUS
  <2> QED
    BY <2>1, SmallRemainder
<1>3. 0 \in Nat /\ 0 % 2 = 0
  OBVIOUS
<1> QED
  BY <1>1, <1>2, <1>3, BitIs

\* All ones has every bit.
LEMMA BitOfAll ==
    ASSUME NEW w \in Nat, NEW i \in 0..(w - 1)
    PROVE  Bit(2 ^ w - 1, i) = 1
<1>1. PICK m \in Nat \ {0} : m = 2 ^ i
  <2>1. i \in Nat
    OBVIOUS
  <2> QED
    BY <2>1, PowerIsCount
<1>2. PICK k \in Nat : w = (i + 1) + k
  <2>1. w - (i + 1) \in Nat /\ w = (i + 1) + (w - (i + 1))
    OBVIOUS
  <2> QED
    BY <2>1
<1>3. PICK n \in Nat \ {0} : n = 2 ^ k
  BY PowerIsCount
<1>4. i \in Nat /\ i + 1 \in Nat /\ 2 ^ (i + 1) = m + m
  BY <1>1, PowerDoubles
<1>5. 2 ^ w = (m + m) * n
  BY <1>2, <1>3, <1>4, PowersMultiply, ZenonT(60)
<1>6. PICK z \in Nat : z = 2 ^ w - 1
  <2>1. PICK p \in Nat \ {0} : p = 2 ^ w
    BY PowerIsCount
  <2>2. p - 1 \in Nat
    OBVIOUS
  <2> QED
    BY <2>1, <2>2
<1>7. z = m * (n + n - 1) + (m - 1)
  <2>1. (m + m) * n = m * (n + n)
    OBVIOUS
  <2>2. m * (n + n) = m * (n + n - 1) + m
    OBVIOUS
  <2> QED
    BY <1>5, <1>6, <2>1, <2>2
<1>8. z \div m = n + n - 1
  <2>1. n + n - 1 \in Int /\ m - 1 \in 0..(m - 1)
    OBVIOUS
  <2> QED
    BY <1>7, <2>1, RemainderIs
<1>9. (n + n - 1) % 2 = 1
  OBVIOUS
<1>10. Bit(z, i) = (z \div m) % 2
  BY <1>1, <1>4, BitIs
<1> QED
  BY <1>6, <1>8, <1>9, <1>10

\* All ones and zero are values of the width.
LEMMA AllOnesInWidth ==
    ASSUME NEW w \in Nat
    PROVE  InWidth(2 ^ w - 1, w) /\ InWidth(0, w)
<1>1. PICK p \in Nat \ {0} : p = 2 ^ w
  BY PowerIsCount
<1>2. p - 1 \in 0..(p - 1) /\ 0 \in 0..(p - 1)
  OBVIOUS
<1> QED
  BY <1>1, <1>2 DEF InWidth

\* The bitwise laws of the simplifier.
LEMMA BitwiseLaws ==
    ASSUME NEW w \in Nat, NEW x, InWidth(x, w)
    PROVE  /\ Bitwise("and", 0, x, w) = 0 /\ Bitwise("and", x, 0, w) = 0
           /\ Bitwise("and", x, x, w) = x /\ Bitwise("or", x, x, w) = x
           /\ Bitwise("xor", x, x, w) = 0
           /\ Bitwise("or", 0, x, w) = x /\ Bitwise("or", x, 0, w) = x
           /\ Bitwise("xor", 0, x, w) = x /\ Bitwise("xor", x, 0, w) = x
           /\ Bitwise("or", 2 ^ w - 1, x, w) = 2 ^ w - 1
           /\ Bitwise("or", x, 2 ^ w - 1, w) = 2 ^ w - 1
<1>1. x \in Nat
  BY InWidthIs
<1>2. ASSUME NEW i \in 0..(w - 1)
      PROVE  Bit(x, i) \in {0, 1} /\ Bit(0, i) = 0 /\ Bit(2 ^ w - 1, i) = 1
  BY <1>1, BitBounds, BitOfNothing, BitOfAll
<1>3. \A b \in {0, 1} :
         /\ 0 * b = 0 /\ b * 0 = 0 /\ b * b = b /\ Larger(b, b) = b /\ (b + b) % 2 = 0
         /\ Larger(0, b) = b /\ Larger(b, 0) = b /\ (0 + b) % 2 = b /\ (b + 0) % 2 = b
         /\ Larger(1, b) = 1 /\ Larger(b, 1) = 1
  BY DEF Larger
<1>4. ASSUME NEW i \in 0..(w - 1)
      PROVE  /\ BitOf("and", 0, x, i) = Bit(0, i) /\ BitOf("and", x, 0, i) = Bit(0, i)
             /\ BitOf("and", x, x, i) = Bit(x, i) /\ BitOf("or", x, x, i) = Bit(x, i)
             /\ BitOf("xor", x, x, i) = Bit(0, i)
             /\ BitOf("or", 0, x, i) = Bit(x, i) /\ BitOf("or", x, 0, i) = Bit(x, i)
             /\ BitOf("xor", 0, x, i) = Bit(x, i) /\ BitOf("xor", x, 0, i) = Bit(x, i)
             /\ BitOf("or", 2 ^ w - 1, x, i) = Bit(2 ^ w - 1, i)
             /\ BitOf("or", x, 2 ^ w - 1, i) = Bit(2 ^ w - 1, i)
  <2>1. PICK b \in {0, 1} : b = Bit(x, i)
    BY <1>2
  <2>2. PICK o : o = Bit(0, i)
    OBVIOUS
  <2>3. PICK a : a = Bit(2 ^ w - 1, i)
    OBVIOUS
  <2>4. o = 0 /\ a = 1
    BY <1>2, <2>2, <2>3
  <2> QED
    BY <1>3, <2>1, <2>2, <2>3, <2>4 DEF BitOf
<1> QED
  BY <1>4, BitwiseIs, AllOnesInWidth

----------------------------------------------------------------------------
(* The operators stay in their width, and the laws of simplify_binary.      *)

\* A smaller number is of the same width.
LEMMA PartInWidth ==
    ASSUME NEW w \in Nat, NEW x, InWidth(x, w), NEW y \in 0..x
    PROVE  InWidth(y, w)
<1>1. PICK m \in Nat \ {0} : m = 2 ^ w
  BY PowerIsCount
<1>2. x \in 0..(m - 1)
  BY <1>1 DEF InWidth
<1>3. y \in 0..(m - 1)
  BY <1>2
<1> QED
  BY <1>1, <1>3 DEF InWidth

\* A quotient is no larger than what is divided.
LEMMA DividedIs ==
    ASSUME NEW m \in Nat \ {0}, NEW x \in Nat
    PROVE  \E q \in 0..x : q = x \div m
<1>1. x \in Int
  OBVIOUS
<1>2. x \div m \in 0..x
  BY <1>1, Remainder
<1> QED
  BY <1>2

\* The truncated quotient is a number.
LEMMA QuotientIs ==
    ASSUME NEW x \in Int, NEW y \in Int, y # 0
    PROVE  Quotient(x, y) \in Int
<1>1. PICK a \in Nat : a = IF x < 0 THEN -x ELSE x
  OBVIOUS
<1>2. PICK b \in Nat \ {0} : b = IF y < 0 THEN -y ELSE y
  OBVIOUS
<1>3. PICK q \in Int : q = a \div b
  BY Remainder
<1>4. Quotient(x, y) \in {q, -q}
  BY <1>1, <1>2, <1>3 DEF Quotient
<1> QED
  BY <1>4

\* The signed reading of what is not zero is not zero.
LEMMA SignedNonzero ==
    ASSUME NEW w \in Nat, NEW x, InWidth(x, w), x # 0
    PROVE  Signed(x, w) # 0
<1>1. PICK m \in Nat \ {0} : m = 2 ^ w
  BY PowerIsCount
<1>2. 0 % m = 0
  <2>1. 0 \in 0..(m - 1)
    OBVIOUS
  <2> QED
    BY <2>1, SmallRemainder
<1> QED
  BY <1>1, <1>2, SignedIs

\* A rotated value stays below its bound.
LEMMA RotatedInWidth ==
    ASSUME NEW m \in Nat \ {0}, NEW n \in Nat \ {0}, NEW x \in 0..(m * n - 1)
    PROVE  ((x \div m) + ((x * n) % (m * n))) \in 0..(m * n - 1)
<1>1. PICK q \in 0..x : q = x \div m
  <2>1. x \in Nat
    OBVIOUS
  <2> QED
    BY <2>1, DividedIs
<1>2. PICK r \in 0..(m - 1) : r = x % m
  BY Remainder
<1>3. x = m * q + r
  BY <1>1, <1>2, Remainder
<1>4. q \in 0..(n - 1)
  <2>1. CASE q >= n
    <3>1. m * q >= m * n
      BY <2>1
    <3> QED
      BY <1>3, <3>1
  <2> QED
    BY <2>1
<1>5. (r * n + q) \in 0..(m * n - 1)
  BY <1>4, JoinedValues
<1>6. PICK k \in Nat \ {0} : k = m * n
  OBVIOUS
<1>7. x * n = k * q + r * n
  <2>1. x * n = (m * q) * n + r * n
    BY <1>3
  <2>2. (m * q) * n = (m * n) * q
    OBVIOUS
  <2> QED
    BY <1>6, <2>1, <2>2
<1>8. r * n \in 0..(k - 1)
  <2>1. r * n \in Nat
    OBVIOUS
  <2>2. PICK s \in Nat : s = r * n
    BY <2>1
  <2> QED
    BY <1>5, <1>6, <2>2
<1>9. (x * n) % k = r * n
  <2>1. PICK s \in 0..(k - 1) : s = r * n
    BY <1>8
  <2>2. q \in Int
    OBVIOUS
  <2>3. (k * q + s) % k = s
    BY <2>2, RemainderIs
  <2> QED
    BY <1>7, <2>1, <2>3
<1> QED
  BY <1>1, <1>5, <1>6, <1>9

\* Every operator stays in its width.
LEMMA ArithInWidth ==
    ASSUME NEW op, op \in Wrapping \cup {"ror"}, NEW w \in Nat \ {0},
           NEW x, InWidth(x, w), NEW y, InWidth(y, w)
    PROVE  InWidth(Arith(op, x, y, w), w)
<1>1. PICK m \in Nat \ {0} : m = 2 ^ w
  BY PowerIsCount
<1>2. x \in 0..(m - 1) /\ y \in 0..(m - 1) /\ x \in Nat /\ y \in Nat /\ m >= 2
  <2>1. PICK k \in Nat : w = k + 1
    <3>1. w - 1 \in Nat /\ w = (w - 1) + 1
      OBVIOUS
    <3> QED
      BY <3>1
  <2>2. PICK p \in Nat \ {0} : p = 2 ^ k
    BY PowerIsCount
  <2>3. m = p + p
    BY <1>1, <2>1, <2>2, PowerDoubles
  <2> QED
    BY <1>1, <2>3 DEF InWidth
<1>3. InWidth(0, w) /\ InWidth(1, w) /\ InWidth(m - 1, w)
  BY <1>1, <1>2 DEF InWidth
<1>4. \A z \in Int : InWidth(z % m, w)
  BY <1>1, RemainderInWidth
<1>5. PICK sx \in Int : sx = Signed(x, w)
  BY SignedIs
<1>6. PICK sy \in Int : sy = Signed(y, w) /\ (y # 0 => sy # 0)
  BY SignedIs, SignedNonzero
<1>7. CASE op = "add"
  <2>1. x + y \in Int
    BY <1>2
  <2> QED
    BY <1>1, <1>4, <1>7, <2>1 DEF Arith
<1>8. CASE op = "sub"
  <2>1. x - y \in Int
    BY <1>2
  <2> QED
    BY <1>1, <1>4, <1>8, <2>1 DEF Arith
<1>9. CASE op = "mul"
  <2>1. x * y \in Int
    BY <1>2
  <2> QED
    BY <1>1, <1>4, <1>9, <2>1 DEF Arith
<1>10. CASE op = "udiv"
  <2>1. y # 0 => InWidth(x \div y, w)
    <3> SUFFICES ASSUME y # 0 PROVE InWidth(x \div y, w)
      OBVIOUS
    <3>1. PICK q \in 0..x : q = x \div y
      <4>1. x \in Nat /\ y \in Nat \ {0}
        BY <1>2
      <4> QED
        BY <4>1, DividedIs
    <3> QED
      BY <3>1, PartInWidth
  <2> QED
    BY <1>1, <1>3, <1>10, <2>1 DEF Arith
<1>11. CASE op = "urem"
  <2>1. y # 0 => InWidth(x % y, w)
    <3> SUFFICES ASSUME y # 0 PROVE InWidth(x % y, w)
      OBVIOUS
    <3>1. PICK q \in 0..(y - 1) : q = x % y
      <4>1. x \in Nat /\ y \in Nat \ {0}
        BY <1>2
      <4> QED
        BY <4>1, Remainder
    <3>2. q \in 0..y
      BY <1>2
    <3> QED
      BY <3>1, <3>2, PartInWidth
  <2> QED
    BY <1>11, <2>1 DEF Arith
<1>12. CASE op = "sdiv"
  <2>1. y # 0 => InWidth(Quotient(sx, sy) % m, w)
    BY <1>4, <1>6, QuotientIs
  <2>2. Arith(op, x, y, w) \in IF y = 0 THEN {1, m - 1} ELSE {Quotient(sx, sy) % m}
    BY <1>1, <1>5, <1>6, <1>12 DEF Arith
  <2> QED
    BY <1>3, <2>1, <2>2
<1>13. CASE op = "srem"
  <2>1. y # 0 => InWidth((sx - sy * Quotient(sx, sy)) % m, w)
    <3> SUFFICES ASSUME y # 0 PROVE InWidth((sx - sy * Quotient(sx, sy)) % m, w)
      OBVIOUS
    <3>1. PICK q \in Int : q = Quotient(sx, sy)
      BY <1>6, QuotientIs
    <3>2. sx - sy * q \in Int
      OBVIOUS
    <3> QED
      BY <1>4, <3>1, <3>2
  <2>2. Arith(op, x, y, w) = IF y = 0 THEN x ELSE (sx - sy * Quotient(sx, sy)) % m
    BY <1>1, <1>5, <1>6, <1>13 DEF Arith
  <2> QED
    BY <2>1, <2>2
<1>14. CASE op = "shl"
  <2>1. PICK p \in Nat \ {0} : p = 2 ^ y
    BY <1>2, PowerIsCount
  <2>2. x * p \in Int
    BY <1>2
  <2>3. Arith(op, x, y, w) \in {0, (x * p) % m}
    BY <1>1, <1>14, <2>1 DEF Arith
  <2> QED
    BY <1>3, <1>4, <2>2, <2>3
<1>15. CASE op = "lshr"
  <2>1. PICK p \in Nat \ {0} : p = 2 ^ y
    BY <1>2, PowerIsCount
  <2>2. PICK q \in 0..x : q = x \div p
    BY <1>2, DividedIs
  <2>3. Arith(op, x, y, w) \in {0, q}
    BY <1>15, <2>1, <2>2 DEF Arith
  <2> QED
    BY <1>3, <2>2, <2>3, PartInWidth
<1>16. CASE op = "ashr"
  <2>1. PICK k \in Nat : k = IF y >= w THEN w ELSE y
    BY <1>2
  <2>2. PICK p \in Nat \ {0} : p = 2 ^ k
    BY PowerIsCount
  <2>3. PICK q \in Int : q = sx \div p
    BY Remainder
  <2>4. Arith(op, x, y, w) = q % m
    BY <1>1, <1>5, <1>16, <2>1, <2>2, <2>3 DEF Arith
  <2> QED
    BY <1>4, <2>4
<1>17. CASE op = "ror"
  <2>1. PICK k \in 0..(w - 1) : k = y % w
    BY <1>2, Remainder
  <2>2. k \in Nat /\ w - k \in Nat /\ k + (w - k) = w
    OBVIOUS
  <2>3. PICK p \in Nat \ {0} : p = 2 ^ k
    BY <2>2, PowerIsCount
  <2>4. PICK n \in Nat \ {0} : n = 2 ^ (w - k)
    BY <2>2, PowerIsCount
  <2>5. PICK j \in Nat : j = w - k /\ k + j = w
    BY <2>2
  <2>6. m = p * n
    BY <1>1, <2>2, <2>3, <2>4, <2>5, PowersMultiply
  <2>7. Arith(op, x, y, w) = (x \div p) + ((x * n) % m)
    BY <1>1, <1>17, <2>1, <2>3, <2>4 DEF Arith
  <2>8. x \in 0..(p * n - 1)
    BY <1>2, <2>6
  <2>9. ((x \div p) + ((x * n) % (p * n))) \in 0..(p * n - 1)
    BY <2>8, RotatedInWidth
  <2> QED
    BY <1>1, <2>6, <2>7, <2>9 DEF InWidth
<1>18. CASE op \in {"and", "or", "xor"}
  <2>1. Arith(op, x, y, w) = Bitwise(op, x, y, w)
    BY <1>18 DEF Arith
  <2> QED
    BY <1>2, <1>18, <2>1, BitwiseInWidth
<1> QED
  BY <1>7, <1>8, <1>9, <1>10, <1>11, <1>12, <1>13, <1>14, <1>15, <1>16, <1>17, <1>18 DEF Wrapping

\* A value is a value of every larger width, and zero extension leaves it as
\* it is.
LEMMA WiderStill ==
    ASSUME NEW v \in Nat, NEW w \in Nat, v <= w, NEW x, InWidth(x, v)
    PROVE  InWidth(x, w) /\ Resize(x, v, w, FALSE) = x
<1>1. PICK m \in Nat \ {0} : m = 2 ^ v
  BY PowerIsCount
<1>2. PICK n \in Nat \ {0} : n = 2 ^ w
  BY PowerIsCount
<1>3. m <= n
  BY <1>1, <1>2, PowersGrow
<1>4. x \in 0..(m - 1)
  BY <1>1 DEF InWidth
<1>5. x \in 0..(n - 1)
  BY <1>3, <1>4
<1>6. InWidth(x, w)
  BY <1>2, <1>5 DEF InWidth
<1> QED
  BY <1>6, WithinItsWidth DEF Resize

\* The laws of addition, subtraction and multiplication that simplify_binary
\* uses.
LEMMA ArithLaws ==
    ASSUME NEW w \in Nat, NEW x, InWidth(x, w)
    PROVE  /\ Arith("add", 0, x, w) = x /\ Arith("add", x, 0, w) = x
           /\ Arith("sub", x, 0, w) = x /\ Arith("sub", x, x, w) = 0
           /\ Arith("mul", 0, x, w) = 0 /\ Arith("mul", x, 0, w) = 0
           /\ Arith("mul", 1, x, w) = x /\ Arith("mul", x, 1, w) = x
<1>1. PICK m \in Nat \ {0} : m = 2 ^ w
  BY PowerIsCount
<1>2. x \in 0..(m - 1) /\ x \in Nat
  BY <1>1 DEF InWidth
<1>3. x % m = x /\ 0 % m = 0
  <2>1. 0 \in 0..(m - 1)
    OBVIOUS
  <2> QED
    BY <1>2, <2>1, SmallRemainder
<1>4. /\ 0 + x = x /\ x + 0 = x /\ x - 0 = x /\ x - x = 0
      /\ 0 * x = 0 /\ x * 0 = 0 /\ 1 * x = x /\ x * 1 = x
  BY <1>2
<1>5. /\ Arith("add", 0, x, w) = (0 + x) % m /\ Arith("add", x, 0, w) = (x + 0) % m
      /\ Arith("sub", x, 0, w) = (x - 0) % m /\ Arith("sub", x, x, w) = (x - x) % m
      /\ Arith("mul", 0, x, w) = (0 * x) % m /\ Arith("mul", x, 0, w) = (x * 0) % m
      /\ Arith("mul", 1, x, w) = (1 * x) % m /\ Arith("mul", x, 1, w) = (x * 1) % m
  BY <1>1 DEF Arith
<1> QED
  BY <1>3, <1>4, <1>5

\* The bitwise operators are the bitwise sums.
LEMMA ArithBitwise ==
    ASSUME NEW op \in {"and", "or", "xor"}, NEW x, NEW y, NEW w
    PROVE  Arith(op, x, y, w) = Bitwise(op, x, y, w)
BY DEF Arith

\* A flag is a value of one bit.
LEMMA FlagInWidth ==
    ASSUME NEW b
    PROVE  InWidth(Flag(b), 1) /\ Flag(b) \in {0, 1}
<1>1. 2 ^ 1 = 2
  OBVIOUS
<1>2. Flag(b) \in {0, 1}
  BY DEF Flag
<1> QED
  BY <1>1, <1>2 DEF InWidth

\* A value of so many bits, at least one.
Valued(d, w) == w \in Nat \ {0} /\ d = [w |-> w, v |-> d.v] /\ InWidth(d.v, w)

----------------------------------------------------------------------------
(* An expression means something when its names have values.                *)

\* An expression of names that are known.
Closed(e, names) ==
    \A i \in DOMAIN e : /\ IsVar(e[i]) => e[i].name \in names
                        /\ e[i].op = "unknown" => e[i].stands \in names

\* Only leaves change when names take their values.
LEMMA GroundedKeeps ==
    ASSUME NEW n, NEW u
    PROVE  Arity(Grounded(n, u)) = Arity(n) /\ (Arity(n) # 0 => Grounded(n, u) = n)
BY DEF Grounded, Literal, Arity, Leaves, IsVar

\* An expression with the values of its names in it.
LEMMA GroundIs ==
    ASSUME NEW e, IsSequence(e), NEW u
    PROVE  /\ IsSequence(Ground(e, u)) /\ Len(Ground(e, u)) = Len(e)
           /\ \A i \in 1..Len(e) : Ground(e, u)[i] = Grounded(e[i], u)
<1>1. PICK n \in Nat : n = Len(e) /\ DOMAIN e = 1..n
  BY Lengths
<1> DEFINE g == [i \in 1..n |-> Grounded(e[i], u)]
<1>2. Ground(e, u) = g
  BY <1>1 DEF Ground, Grounded
<1>3. g = [i \in 1..n |-> g[i]] /\ \A i \in 1..n : g[i] = Grounded(e[i], u)
  OBVIOUS
<1> HIDE DEF g
<1>4. IsSequence(g) /\ Len(g) = n
  BY <1>3, Mapped
<1> QED
  BY <1>1, <1>2, <1>3, <1>4

\* It is as much a tree as before.
LEMMA GroundYields ==
    ASSUME NEW e, NEW k, Yields(e, k), NEW u
    PROVE  Yields(Ground(e, u), k)
<1>1. IsSequence(e)
  BY DEF Yields
<1>2. \A i \in 1..Len(e) : Arity(Ground(e, u)[i]) = Arity(e[i])
  BY <1>1, GroundIs, GroundedKeeps
<1> QED
  BY <1>1, <1>2, GroundIs, Relabelled

\* Denote is the fold of the values of its names.
LEMMA DenoteComes ==
    ASSUME NEW e, Yields(e, 1), NEW u
    PROVE  Denote(e, u) = Comes(OfDenote(u), e)
<1>1. PICK g : g = Ground(e, u)
  OBVIOUS
<1>2. Yields(g, 1) /\ IsSequence(e)
  BY <1>1, GroundYields DEF Yields
<1>3. Len(g) = Len(e) /\ IsSequence(g) /\ \A i \in 1..Len(e) : g[i] = Grounded(e[i], u)
  BY <1>1, <1>2, GroundIs
<1>4. PICK st : Follows(OfValue, g, st)
  BY <1>3, FoldsFollow
<1>5. \A n, q : StepOf(OfValue, Grounded(n, u), q) = StepOf(OfDenote(u), n, q)
  BY GroundedKeeps DEF StepOf, Makes, OfValue, OfDenote
<1>6. Follows(OfDenote(u), e, st)
  BY <1>3, <1>4, <1>5 DEF Follows
<1>7. Comes(OfValue, g) = Result(g, st)
  BY <1>2, <1>4, ComesTo
<1>8. Comes(OfDenote(u), e) = Result(e, st)
  BY <1>6, ComesTo
<1>9. Result(g, st) = Result(e, st)
  BY <1>3 DEF Result, Left
<1> QED
  BY <1>1, <1>2, <1>7, <1>8, <1>9, ValueComes DEF Denote

\* What an expression denotes, from what its operands do.
LEMMA Denotations ==
    ASSUME NEW u
    PROVE
    /\ \A n : Arity(n) = 0
            => Denote(<<n>>, u) = Computed(Grounded(n, u), <<>>)
    /\ \A n, a : Arity(n) = 1 /\ Yields(a, 1)
            => Denote(Over(a, n), u) = Computed(n, <<Denote(a, u)>>)
    /\ \A n, a, b : Arity(n) = 2 /\ Yields(a, 1) /\ Yields(b, 1)
            => Denote(Over(Upon(a, b), n), u) = Computed(n, <<Denote(a, u), Denote(b, u)>>)
    /\ \A n, a, b, c : Arity(n) = 3 /\ Yields(a, 1) /\ Yields(b, 1) /\ Yields(c, 1)
            => Denote(Over(Upon(Upon(a, b), c), n), u)
                 = Computed(n, <<Denote(a, u), Denote(b, u), Denote(c, u)>>)
<1> DEFINE k == OfDenote(u)
<1>1. \A n, q : Makes(k, n, q) = Computed(Grounded(n, u), q)
  BY DEF Makes, OfDenote
<1> HIDE DEF k
<1>2. \A e : Yields(e, 1) => Denote(e, u) = Comes(k, e)
  BY DenoteComes DEF k
<1>3. ASSUME NEW n, Arity(n) = 0
      PROVE  Denote(<<n>>, u) = Computed(Grounded(n, u), <<>>)
  <2>1. Yields(<<n>>, 1)
    BY <1>3, Overs
  <2>2. Comes(k, <<n>>) = Makes(k, n, <<>>)
    BY <1>3, <2>1, LeafComes
  <2> QED
    BY <1>1, <1>2, <2>1, <2>2
<1>4. ASSUME NEW n, NEW a, Arity(n) = 1, Yields(a, 1)
      PROVE  Denote(Over(a, n), u) = Computed(n, <<Denote(a, u)>>)
  <2>1. Yields(Over(a, n), 1)
    BY <1>4, Overs
  <2>2. Comes(k, Over(a, n)) = Makes(k, n, <<Comes(k, a)>>)
    BY <1>4, <2>1, UnaryComes
  <2>3. Grounded(n, u) = n
    BY <1>4, GroundedKeeps
  <2> QED
    BY <1>1, <1>2, <1>4, <2>1, <2>2, <2>3
<1>5. ASSUME NEW n, NEW a, NEW b, Arity(n) = 2, Yields(a, 1), Yields(b, 1)
      PROVE  Denote(Over(Upon(a, b), n), u) = Computed(n, <<Denote(a, u), Denote(b, u)>>)
  <2>1. Yields(Over(Upon(a, b), n), 1)
    BY <1>5, Overs
  <2>2. Comes(k, Over(Upon(a, b), n)) = Makes(k, n, <<Comes(k, a), Comes(k, b)>>)
    BY <1>5, <2>1, BinaryComes
  <2>3. Grounded(n, u) = n
    BY <1>5, GroundedKeeps
  <2> QED
    BY <1>1, <1>2, <1>5, <2>1, <2>2, <2>3
<1>6. ASSUME NEW n, NEW a, NEW b, NEW c, Arity(n) = 3, Yields(a, 1), Yields(b, 1), Yields(c, 1)
      PROVE  Denote(Over(Upon(Upon(a, b), c), n), u)
               = Computed(n, <<Denote(a, u), Denote(b, u), Denote(c, u)>>)
  <2>1. Yields(Over(Upon(Upon(a, b), c), n), 1)
    BY <1>6, Overs
  <2>2. Comes(k, Over(Upon(Upon(a, b), c), n))
          = Makes(k, n, <<Comes(k, a), Comes(k, b), Comes(k, c)>>)
    BY <1>6, <2>1, IteComes
  <2>3. Grounded(n, u) = n
    BY <1>6, GroundedKeeps
  <2> QED
    BY <1>1, <1>2, <1>6, <2>1, <2>2, <2>3
<1> QED
  BY <1>3, <1>4, <1>5, <1>6

\* A fold comes to the same over nodes that it makes the same of.
LEMMA SameFold ==
    ASSUME NEW k, NEW e, Yields(e, 1), NEW f, IsSequence(f), Len(f) = Len(e),
           \A i \in 1..Len(e) : /\ Arity(f[i]) = Arity(e[i])
                                /\ \A q : Makes(k, f[i], q) = Makes(k, e[i], q)
    PROVE  Yields(f, 1) /\ Comes(k, f) = Comes(k, e)
<1>1. Yields(f, 1)
  BY Relabelled
<1>2. PICK st : Follows(k, e, st)
  BY FoldsFollow DEF Yields
<1>3. Follows(k, f, st)
  BY <1>2 DEF Follows, StepOf
<1>4. Comes(k, e) = Result(e, st) /\ Comes(k, f) = Result(f, st)
  BY <1>1, <1>2, <1>3, ComesTo
<1> QED
  BY <1>1, <1>4 DEF Result, Left

\* A node of names that are known.
KnownNode(n, names) ==
    (IsVar(n) => n.name \in names) /\ (n.op = "unknown" => n.stands \in names)

\* An expression of known names is one of nodes of known names.
LEMMA ClosedNodes ==
    ASSUME NEW e, IsSequence(e), NEW names
    PROVE  Closed(e, names) <=> \A i \in 1..Len(e) : KnownNode(e[i], names)
BY Lengths DEF Closed, KnownNode

\* The names of a node and of what is below it.
LEMMA ClosedOver ==
    ASSUME NEW c, IsSequence(c), NEW n, NEW names
    PROVE  Closed(Over(c, n), names) <=> Closed(c, names) /\ KnownNode(n, names)
<1>1. PICK e : e = Over(c, n)
  OBVIOUS
<1>2. PICK m \in Nat : m = Len(c)
  BY Lengths
<1>3. /\ IsSequence(e) /\ Len(e) = m + 1 /\ e[m + 1] = n
      /\ \A i \in 1..m : e[i] = c[i]
  BY <1>1, <1>2, Appended DEF Over
<1>4. Closed(e, names) <=> \A i \in 1..(m + 1) : KnownNode(e[i], names)
  BY <1>3, ClosedNodes
<1>5. Closed(c, names) <=> \A i \in 1..m : KnownNode(c[i], names)
  BY <1>2, ClosedNodes
<1>6. 1..(m + 1) = 1..m \cup {m + 1}
  OBVIOUS
<1> QED
  BY <1>1, <1>3, <1>4, <1>5, <1>6

\* The names of what stands side by side.
LEMMA ClosedUpon ==
    ASSUME NEW a, IsSequence(a), NEW b, IsSequence(b), NEW names
    PROVE  Closed(Upon(a, b), names) <=> Closed(a, names) /\ Closed(b, names)
<1>1. PICK e : e = Upon(a, b)
  OBVIOUS
<1>2. PICK m \in Nat : m = Len(a)
  BY Lengths
<1>3. PICK k \in Nat : k = Len(b)
  BY Lengths
<1>4. /\ IsSequence(e) /\ Len(e) = m + k
      /\ \A i \in 1..m : e[i] = a[i]
      /\ \A i \in 1..k : e[m + i] = b[i]
  BY <1>1, <1>2, <1>3, UponIs
<1>5. Closed(e, names) <=> \A i \in 1..(m + k) : KnownNode(e[i], names)
  BY <1>4, ClosedNodes
<1>6. Closed(a, names) <=> \A i \in 1..m : KnownNode(a[i], names)
  BY <1>2, ClosedNodes
<1>7. Closed(b, names) <=> \A i \in 1..k : KnownNode(b[i], names)
  BY <1>3, ClosedNodes
<1>8. ASSUME Closed(e, names) PROVE Closed(a, names) /\ Closed(b, names)
  <2>1. \A i \in 1..m : i \in 1..(m + k)
    OBVIOUS
  <2>2. \A i \in 1..k : m + i \in 1..(m + k)
    OBVIOUS
  <2> QED
    BY <1>4, <1>5, <1>6, <1>7, <1>8, <2>1, <2>2
<1>9. ASSUME Closed(a, names), Closed(b, names) PROVE Closed(e, names)
  <2> SUFFICES ASSUME NEW i \in 1..(m + k) PROVE KnownNode(e[i], names)
    BY <1>5
  <2>1. CASE i <= m
    <3>1. i \in 1..m
      BY <2>1
    <3> QED
      BY <3>1, <1>4, <1>6, <1>9
  <2>2. CASE i > m
    <3>1. i - m \in 1..k /\ m + (i - m) = i
      BY <2>2
    <3> QED
      BY <3>1, <1>4, <1>7, <1>9
  <2> QED
    BY <2>1, <2>2
<1> QED
  BY <1>1, <1>8, <1>9

\* What an expression over some names is: its width and what it denotes.
Means(g, names, u, z, d) ==
    Yields(g, 1) /\ Closed(g, names) /\ Size(g) = z /\ Denote(g, u) = d

\* What yields something is a sequence.
LEMMA YieldsSequence == \A e, k : Yields(e, k) => IsSequence(e)
BY DEF Yields

\* What an expression means, node by node, when it is built.
LEMMA MeansBuilt ==
    ASSUME NEW names, NEW u
    PROVE
    /\ \A n : Arity(n) = 0 /\ KnownNode(n, names)
            => Means(<<n>>, names, u, NodeSize(n, <<>>), Computed(Grounded(n, u), <<>>))
    /\ \A n, a, z, d : Arity(n) = 1 /\ Means(a, names, u, z, d)
            => Means(Over(a, n), names, u, NodeSize(n, <<z>>), Computed(n, <<d>>))
    /\ \A n, a, z, d, b, y, c : Arity(n) = 2 /\ Means(a, names, u, z, d) /\ Means(b, names, u, y, c)
            => Means(Over(Upon(a, b), n), names, u, NodeSize(n, <<z, y>>), Computed(n, <<d, c>>))
    /\ \A n, a, z, d, b, y, c, g, x, f :
            Arity(n) = 3 /\ Means(a, names, u, z, d) /\ Means(b, names, u, y, c)
              /\ Means(g, names, u, x, f)
            => Means(Over(Upon(Upon(a, b), g), n), names, u, NodeSize(n, <<z, y, x>>),
              Computed(n, <<d, c, f>>))
<1>1. \A n : Arity(n) # 0 => KnownNode(n, names)
  BY DEF KnownNode, Arity, Leaves, IsVar
<1>2. ASSUME NEW n, Arity(n) = 0, KnownNode(n, names)
      PROVE  Means(<<n>>, names, u, NodeSize(n, <<>>), Computed(Grounded(n, u), <<>>))
  <2>1. Yields(<<n>>, 1)
    BY <1>2, Overs
  <2>2. Closed(<<n>>, names)
    BY <1>2, Singles, ClosedNodes
  <2>3. Size(<<n>>) = NodeSize(n, <<>>)
    BY <1>2, Sizes
  <2>4. Denote(<<n>>, u) = Computed(Grounded(n, u), <<>>)
    BY <1>2, Denotations
  <2> QED
    BY <2>1, <2>2, <2>3, <2>4 DEF Means
<1>3. ASSUME NEW n, NEW a, NEW z, NEW d, Arity(n) = 1, Means(a, names, u, z, d)
      PROVE  Means(Over(a, n), names, u, NodeSize(n, <<z>>), Computed(n, <<d>>))
  <2>1. Yields(a, 1) /\ Closed(a, names) /\ Size(a) = z /\ Denote(a, u) = d /\ IsSequence(a)
    BY <1>3, YieldsSequence DEF Means
  <2>2. Yields(Over(a, n), 1)
    BY <1>3, <2>1, Overs
  <2>3. Closed(Over(a, n), names)
    BY <1>1, <1>3, <2>1, ClosedOver
  <2>4. Size(Over(a, n)) = NodeSize(n, <<z>>)
    BY <1>3, <2>1, Sizes
  <2>5. Denote(Over(a, n), u) = Computed(n, <<d>>)
    BY <1>3, <2>1, Denotations
  <2> QED
    BY <2>2, <2>3, <2>4, <2>5 DEF Means
<1>4. ASSUME NEW n, NEW a, NEW z, NEW d, NEW b, NEW y, NEW c, Arity(n) = 2,
             Means(a, names, u, z, d), Means(b, names, u, y, c)
      PROVE  Means(Over(Upon(a, b), n), names, u, NodeSize(n, <<z, y>>), Computed(n, <<d, c>>))
  <2>1. Yields(a, 1) /\ Closed(a, names) /\ Size(a) = z /\ Denote(a, u) = d /\ IsSequence(a)
    BY <1>4, YieldsSequence DEF Means
  <2>2. Yields(b, 1) /\ Closed(b, names) /\ Size(b) = y /\ Denote(b, u) = c /\ IsSequence(b)
    BY <1>4, YieldsSequence DEF Means
  <2>3. Yields(Over(Upon(a, b), n), 1)
    BY <1>4, <2>1, <2>2, Overs
  <2>4. Closed(Over(Upon(a, b), n), names)
    <3>1. Closed(Upon(a, b), names) /\ IsSequence(Upon(a, b))
      BY <2>1, <2>2, ClosedUpon, UponIs
    <3> QED
      BY <1>1, <1>4, <3>1, ClosedOver
  <2>5. Size(Over(Upon(a, b), n)) = NodeSize(n, <<z, y>>)
    BY <1>4, <2>1, <2>2, Sizes
  <2>6. Denote(Over(Upon(a, b), n), u) = Computed(n, <<d, c>>)
    BY <1>4, <2>1, <2>2, Denotations
  <2> QED
    BY <2>3, <2>4, <2>5, <2>6 DEF Means
<1>5. ASSUME NEW n, NEW a, NEW z, NEW d, NEW b, NEW y, NEW c, NEW g, NEW x, NEW f, Arity(n) = 3,
             Means(a, names, u, z, d), Means(b, names, u, y, c), Means(g, names, u, x, f)
      PROVE  Means(Over(Upon(Upon(a, b), g), n), names, u, NodeSize(n, <<z, y, x>>),
               Computed(n, <<d, c, f>>))
  <2>1. Yields(a, 1) /\ Closed(a, names) /\ Size(a) = z /\ Denote(a, u) = d /\ IsSequence(a)
    BY <1>5, YieldsSequence DEF Means
  <2>2. Yields(b, 1) /\ Closed(b, names) /\ Size(b) = y /\ Denote(b, u) = c /\ IsSequence(b)
    BY <1>5, YieldsSequence DEF Means
  <2>3. Yields(g, 1) /\ Closed(g, names) /\ Size(g) = x /\ Denote(g, u) = f /\ IsSequence(g)
    BY <1>5, YieldsSequence DEF Means
  <2>4. Yields(Over(Upon(Upon(a, b), g), n), 1)
    BY <1>5, <2>1, <2>2, <2>3, Overs
  <2>5. Closed(Over(Upon(Upon(a, b), g), n), names)
    <3>1. Closed(Upon(a, b), names) /\ IsSequence(Upon(a, b))
      BY <2>1, <2>2, ClosedUpon, UponIs
    <3>2. Closed(Upon(Upon(a, b), g), names) /\ IsSequence(Upon(Upon(a, b), g))
      BY <2>3, <3>1, ClosedUpon, UponIs
    <3> QED
      BY <1>1, <1>5, <3>2, ClosedOver
  <2>6. Size(Over(Upon(Upon(a, b), g), n)) = NodeSize(n, <<z, y, x>>)
    BY <1>5, <2>1, <2>2, <2>3, Sizes
  <2>7. Denote(Over(Upon(Upon(a, b), g), n), u) = Computed(n, <<d, c, f>>)
    BY <1>5, <2>1, <2>2, <2>3, Denotations
  <2> QED
    BY <2>4, <2>5, <2>6, <2>7 DEF Means
<1> QED
  BY <1>2, <1>3, <1>4, <1>5

\* The last node and what is below it.
LEMMA LastOver ==
    ASSUME NEW c, IsSequence(c), NEW n
    PROVE  /\ Len(Over(c, n)) = Len(c) + 1 /\ Over(c, n)[Len(Over(c, n))] = n
           /\ SubSeq(Over(c, n), 1, Len(Over(c, n)) - 1) = c
<1>1. PICK e : e = Over(c, n)
  OBVIOUS
<1>2. PICK m \in Nat : m = Len(c)
  BY Lengths
<1>3. IsSequence(e) /\ Len(e) = m + 1 /\ e[m + 1] = n /\ \A i \in 1..m : e[i] = c[i]
  BY <1>1, <1>2, Appended DEF Over
<1>4. PICK q : q = SubSeq(e, 0 + 1, m)
  OBVIOUS
<1>5. IsSequence(q) /\ Len(q) = m /\ \A i \in 1..m : q[i] = e[0 + i]
  BY <1>3, <1>4, Part
<1>6. \A i \in 1..m : q[i] = c[i]
  BY <1>3, <1>5
<1>7. q = c
  BY <1>2, <1>5, <1>6, SameSequence
<1>8. SubSeq(e, 1, Len(e) - 1) = q
  BY <1>3, <1>4
<1> QED
  BY <1>1, <1>2, <1>3, <1>7, <1>8

\* The root of an expression.
LastNode(e) == e[Len(e)]
\* The nodes below the root.
Beneath(e) == SubSeq(e, 1, Len(e) - 1)

\* A node of one operand, and what they mean.
StandsOn(n, c, names, u, z, d) ==
    \E x, f : Means(c, names, u, x, f) /\ z = NodeSize(n, <<x>>) /\ d = Computed(n, <<f>>)

\* The operand of a last node that has one.
LEMMA MeansInner ==
    ASSUME NEW e, NEW names, NEW u, NEW z, NEW d, Means(e, names, u, z, d),
           NEW n, n = LastNode(e), Arity(n) = 1
    PROVE  StandsOn(n, Beneath(e), names, u, z, d)
<1>1. Yields(e, 1) /\ Closed(e, names) /\ Size(e) = z /\ Denote(e, u) = d
  BY DEF Means
<1>2. PICK c, m : e = Over(c, m) /\ Yields(c, Arity(m))
  BY <1>1, TreeForms
<1>3. IsSequence(c)
  BY <1>2, YieldsSequence
<1>4. m = n /\ c = Beneath(e)
  BY <1>2, <1>3, LastOver DEF LastNode, Beneath
<1>5. Yields(c, 1)
  BY <1>2, <1>4
<1>6. Closed(c, names)
  BY <1>1, <1>2, <1>3, ClosedOver
<1>7. z = NodeSize(n, <<Size(c)>>)
  BY <1>1, <1>2, <1>4, <1>5, Sizes
<1>8. d = Computed(n, <<Denote(c, u)>>)
  BY <1>1, <1>2, <1>4, <1>5, Denotations
<1> QED
  BY <1>2, <1>4, <1>5, <1>6, <1>7, <1>8 DEF Means, StandsOn

----------------------------------------------------------------------------
(* What has a width has a value of that width.                              *)

\* A value that is wrapped is a value of its width.
LEMMA Reduced ==
    ASSUME NEW w \in Nat \ {0}, NEW x \in Int, NEW d, d = [w |-> w, v |-> x % 2 ^ w]
    PROVE  Valued(d, w)
BY RemainderInWidth DEF Valued

\* The value of a leaf is of the width of the leaf.
LEMMA LeafValued ==
    ASSUME NEW n, Arity(n) = 0, NodeSize(n, <<>>) # 0, NEW names, KnownNode(n, names),
           NEW u, \A k \in names : u[k] \in Nat
    PROVE  Valued(Computed(Grounded(n, u), <<>>), NodeSize(n, <<>>))
<1>1. CASE n.op = "var"
  <2>1. n.name[1] \in Registers /\ n.bits = Width[n.name[1]] /\ NodeSize(n, <<>>) = n.bits
    BY <1>1, LeafSize
  <2>2. PICK b \in Nat \ {0} : b = n.bits
    BY <2>1, WidthsAssumption
  <2>3. PICK x \in Nat : x = u[n.name]
    BY <1>1 DEF KnownNode, IsVar
  <2>4. PICK y : y = x % 2 ^ b
    OBVIOUS
  <2>5. InWidth(y, b)
    BY <2>4, RemainderInWidth
  <2>6. y \in Int
    BY <2>5 DEF InWidth
  <2>7. Grounded(n, u) = Literal(y, b)
    BY <1>1, <2>2, <2>3, <2>4 DEF Grounded, IsVar
  <2>8. Computed(Grounded(n, u), <<>>) = [w |-> b, v |-> y % 2 ^ b]
    BY <2>7 DEF Computed, Literal
  <2> QED
    BY <2>1, <2>2, <2>6, <2>8, Reduced
<1>2. CASE n.op = "const"
  <2>1. n.bits \in Nat /\ n.value \in 0..(2 ^ n.bits - 1) /\ NodeSize(n, <<>>) = n.bits
    BY <1>2, LeafSize
  <2>2. PICK b \in Nat \ {0} : b = n.bits
    BY <2>1
  <2>3. PICK x : x = n.value
    OBVIOUS
  <2>4. x \in Int
    BY <2>1, <2>3
  <2>5. Grounded(n, u) = n
    BY <1>2 DEF Grounded, IsVar
  <2>6. Computed(Grounded(n, u), <<>>) = [w |-> b, v |-> x % 2 ^ b]
    BY <1>2, <2>2, <2>3, <2>5 DEF Computed
  <2> QED
    BY <2>1, <2>2, <2>4, <2>6, Reduced
<1>3. CASE n.op = "unknown"
  <2>1. NodeSize(n, <<>>) = Widest
    BY <1>3, LeafSize
  <2>2. PICK b \in Nat \ {0} : b = Widest
    BY WidthsAssumption
  <2>3. PICK x \in Nat : x = u[n.stands]
    BY <1>3 DEF KnownNode
  <2>4. Grounded(n, u) = Literal(x, b)
    BY <1>3, <2>2, <2>3 DEF Grounded, IsVar
  <2>5. PICK g : g = Computed(Grounded(n, u), <<>>)
    OBVIOUS
  <2>6. g = [w |-> b, v |-> x % 2 ^ b]
    BY <2>4, <2>5 DEF Computed, Literal
  <2>7. x \in Int
    BY <2>6
  <2>8. Valued(g, b)
    BY <2>6, <2>7, Reduced
  <2> QED
    BY <2>1, <2>2, <2>5, <2>8
<1> QED
  BY <1>1, <1>2, <1>3, LeafSize

\* A flag is a value of width one.
LEMMA FlagValued ==
    ASSUME NEW b
    PROVE  Valued([w |-> 1, v |-> Flag(b)], 1)
BY FlagInWidth DEF Valued

\* The value of a node over one operand is of the width of the node.
LEMMA UnaryValued ==
    ASSUME NEW n, Arity(n) = 1, NEW z, NEW d, Valued(d, z), NodeSize(n, <<z>>) # 0
    PROVE  Valued(Computed(n, <<d>>), NodeSize(n, <<z>>))
<1>1. z \in Nat \ {0} /\ d.w = z /\ InWidth(d.v, z)
  BY DEF Valued
<1>2. PICK x \in Nat : x = d.v
  BY <1>1, InWidthIs
<1>3. CASE n.op = "not"
  <2>1. NodeSize(n, <<z>>) = 1
    BY <1>3, UnarySize
  <2>2. Computed(n, <<d>>) = [w |-> 1, v |-> Flag(x = 0)]
    BY <1>2, <1>3 DEF Computed
  <2> QED
    BY <2>1, <2>2, FlagValued
<1>4. CASE n.op = "extract"
  <2>1. n.lo \in 0..n.hi /\ n.hi \in 0..(z - 1) /\ NodeSize(n, <<z>>) = n.hi - n.lo + 1
    BY <1>4, UnarySize
  <2>2. PICK hi \in Nat : hi = n.hi
    BY <2>1
  <2>3. PICK lo \in 0..hi : lo = n.lo
    BY <2>1, <2>2
  <2>4. Computed(n, <<d>>) = [w |-> hi - lo + 1, v |-> Slice(x, hi, lo)]
    BY <1>2, <1>4, <2>2, <2>3 DEF Computed
  <2>5. InWidth(Slice(x, hi, lo), hi - lo + 1)
    BY SliceInWidth
  <2>6. hi - lo + 1 \in Nat \ {0}
    OBVIOUS
  <2> QED
    BY <2>1, <2>2, <2>3, <2>4, <2>5, <2>6 DEF Valued
<1>5. CASE n.op \in {"zext", "sext"}
  <2>1. n.to \in Nat /\ n.to >= z /\ NodeSize(n, <<z>>) = n.to
    BY <1>5, UnarySize
  <2>2. PICK w \in Nat \ {0} : w = n.to
    BY <1>1, <2>1
  <2>3. Computed(n, <<d>>) = [w |-> w, v |-> Resize(x, z, w, n.op = "sext")]
    BY <1>1, <1>2, <1>5, <2>2 DEF Computed
  <2>4. InWidth(Resize(x, z, w, n.op = "sext"), w)
    BY <1>1, <1>2, ResizeInWidth
  <2> QED
    BY <2>1, <2>2, <2>3, <2>4 DEF Valued
<1> QED
  BY <1>3, <1>4, <1>5, UnarySize

\* Two operands of one width are what they are.
LEMMA Matches ==
    ASSUME NEW n, NEW w, NEW a, Valued(a, w), NEW b, Valued(b, w)
    PROVE  /\ n.op \in Relations
                => Matching(n, a, b) = [w |-> 1, v |-> Flag(Compares(n.op, a.v, b.v, w))]
           /\ n.op \notin Relations
                => Matching(n, a, b) = [w |-> w, v |-> Arith(n.op, a.v, b.v, w)]
<1>1. w \in Nat /\ a.w = w /\ b.w = w /\ InWidth(a.v, w) /\ InWidth(b.v, w)
  BY DEF Valued
<1>2. Larger(a.w, b.w) = w
  BY <1>1 DEF Larger
<1>3. PICK x : x = a.v
  OBVIOUS
<1>4. PICK y : y = b.v
  OBVIOUS
<1>5. Resize(x, w, w, n.op \in SignedOps) = x
  BY <1>1, <1>3, ResizeToItself
<1>6. Resize(y, w, w, n.op \in SignedOps) = y
  BY <1>1, <1>4, ResizeToItself
<1> QED
  BY <1>1, <1>2, <1>3, <1>4, <1>5, <1>6 DEF Matching

\* Relations and wrapping operators match the widths of their operands.
LEMMA BinaryForms ==
    ASSUME NEW n, NEW a, NEW b, n.op \in Relations \cup Wrapping
    PROVE  Computed(n, <<a, b>>) = Matching(n, a, b)
BY DEF Computed, Relations, Wrapping

\* The value of a node over two operands is of the width of the node.
LEMMA BinaryValued ==
    ASSUME NEW n, Arity(n) = 2, NEW z, NEW d, Valued(d, z), NEW y, NEW c, Valued(c, y),
           NodeSize(n, <<z, y>>) # 0
    PROVE  Valued(Computed(n, <<d, c>>), NodeSize(n, <<z, y>>))
<1>1. z \in Nat \ {0} /\ d.w = z /\ InWidth(d.v, z) /\ y \in Nat \ {0} /\ c.w = y /\ InWidth(c.v, y)
  BY DEF Valued
<1>2. CASE n.op \in Relations
  <2>1. NodeSize(n, <<z, y>>) = 1
    BY <1>2, BinarySize DEF Relations, Wrapping
  <2>2. \E b : Matching(n, d, c) = [w |-> 1, v |-> Flag(b)]
    BY <1>2 DEF Matching
  <2>3. Computed(n, <<d, c>>) = Matching(n, d, c)
    BY <1>2, BinaryForms
  <2> QED
    BY <2>1, <2>2, <2>3, FlagValued
<1>3. CASE n.op \in {"booland", "boolor"}
  <2>1. NodeSize(n, <<z, y>>) = 1
    BY <1>3, BinarySize DEF Wrapping
  <2>2. \E b : Computed(n, <<d, c>>) = [w |-> 1, v |-> Flag(b)]
    BY <1>3 DEF Computed
  <2> QED
    BY <2>1, <2>2, FlagValued
<1>4. CASE n.op \in Wrapping
  <2>1. z = y /\ NodeSize(n, <<z, y>>) = z
    BY <1>4, BinarySize DEF Relations, Wrapping
  <2>2. n.op \notin Relations
    BY <1>4 DEF Relations, Wrapping
  <2>3. Computed(n, <<d, c>>) = Matching(n, d, c)
    BY <1>4, BinaryForms
  <2>4. Matching(n, d, c) = [w |-> z, v |-> Arith(n.op, d.v, c.v, z)]
    BY <2>1, <2>2, Matches
  <2>5. PICK x : x = d.v
    OBVIOUS
  <2>6. PICK q : q = c.v
    OBVIOUS
  <2>7. PICK op : op = n.op
    OBVIOUS
  <2>8. InWidth(Arith(op, x, q, z), z)
    BY <1>1, <1>4, <2>1, <2>5, <2>6, <2>7, ArithInWidth
  <2> QED
    BY <1>1, <2>1, <2>3, <2>4, <2>5, <2>6, <2>7, <2>8 DEF Valued
<1>5. CASE n.op = "ror"
  <2>1. z = y /\ NodeSize(n, <<z, y>>) = z
    BY <1>5, BinarySize DEF Relations
  <2>2. Computed(n, <<d, c>>) = [w |-> z, v |-> Arith("ror", d.v, c.v, z)]
    BY <1>1, <1>5 DEF Computed
  <2>3. PICK x : x = d.v
    OBVIOUS
  <2>4. PICK q : q = c.v
    OBVIOUS
  <2>5. "ror" \in Wrapping \cup {"ror"}
    OBVIOUS
  <2>6. InWidth(Arith("ror", x, q, z), z)
    BY <1>1, <2>1, <2>3, <2>4, <2>5, ArithInWidth
  <2> QED
    BY <1>1, <2>1, <2>2, <2>3, <2>4, <2>6 DEF Valued
<1>6. CASE n.op = "concat"
  <2>1. NodeSize(n, <<z, y>>) = z + y
    BY <1>6, BinarySize DEF Relations, Wrapping
  <2>2. PICK x : x = d.v
    OBVIOUS
  <2>3. PICK q : q = c.v
    OBVIOUS
  <2>4. Computed(n, <<d, c>>) = [w |-> z + y, v |-> (x * (2 ^ y)) + q]
    BY <1>1, <1>6, <2>2, <2>3 DEF Computed
  <2>5. InWidth((x * (2 ^ y)) + q, z + y)
    BY <1>1, <2>2, <2>3, JoinedInWidth
  <2>6. z + y \in Nat \ {0}
    BY <1>1
  <2> QED
    BY <2>1, <2>4, <2>5, <2>6 DEF Valued
<1> QED
  BY <1>2, <1>3, <1>4, <1>5, <1>6, BinarySize

\* The value of an ite is that of the branch its condition chooses.
LEMMA IteValued ==
    ASSUME NEW n, Arity(n) = 3, NEW x, NEW e, Valued(e, x), NEW z, NEW d, Valued(d, z),
           NEW y, NEW c, Valued(c, y), NodeSize(n, <<x, z, y>>) # 0
    PROVE  /\ Valued(Computed(n, <<e, d, c>>), NodeSize(n, <<x, z, y>>))
           /\ n.op = "ite" /\ z = y /\ NodeSize(n, <<x, z, y>>) = z
           /\ Computed(n, <<e, d, c>>) = [w |-> z, v |-> IF e.v # 0 THEN d.v ELSE c.v]
<1>1. n.op = "ite" /\ z = y /\ NodeSize(n, <<x, z, y>>) = z
  BY IteSize
<1>2. z \in Nat \ {0} /\ d.w = z /\ c.w = z /\ InWidth(d.v, z) /\ InWidth(c.v, z)
  BY <1>1 DEF Valued
<1>3. Larger(d.w, c.w) = z
  BY <1>2 DEF Larger
<1>4. Computed(n, <<e, d, c>>) = [w |-> z, v |-> IF e.v # 0 THEN d.v ELSE c.v]
  BY <1>1, <1>3 DEF Computed
<1> QED
  BY <1>1, <1>2, <1>4 DEF Valued

----------------------------------------------------------------------------
(* expr_bits, where it tells a width, tells the right one.                  *)

\* expr_bits tells the width, or nothing.
Told(b, z) == b = 0 \/ b = z

\* expr_bits tells the width of a leaf, or nothing.
LEMMA LeafTold ==
    ASSUME NEW n, Arity(n) = 0, NodeSize(n, <<>>) # 0
    PROVE  Told(NodeBits(n, <<>>), NodeSize(n, <<>>))
<1>1. CASE n.op = "unknown"
  <2>1. NodeBits(n, <<>>) = 0
    BY <1>1 DEF NodeBits, Wrapping
  <2> QED
    BY <2>1 DEF Told
<1>2. CASE n.op \in {"var", "const"}
  <2>1. NodeBits(n, <<>>) = n.bits
    BY <1>2 DEF NodeBits, Wrapping
  <2>2. NodeSize(n, <<>>) = n.bits
    BY <1>2, LeafSize
  <2> QED
    BY <2>1, <2>2 DEF Told
<1> QED
  BY <1>1, <1>2 DEF Arity, Leaves

\* It tells the width of a node over one operand, or nothing.
LEMMA UnaryTold ==
    ASSUME NEW n, Arity(n) = 1, NEW z, NodeSize(n, <<z>>) # 0, NEW b
    PROVE  Told(NodeBits(n, <<b>>), NodeSize(n, <<z>>))
BY UnarySize DEF Told, NodeBits, Wrapping

\* It tells the width of a node over two operands, or nothing.
LEMMA BinaryTold ==
    ASSUME NEW n, Arity(n) = 2, NEW z, NEW y, NodeSize(n, <<z, y>>) # 0,
           NEW b, Told(b, z), NEW c, Told(c, y)
    PROVE  Told(NodeBits(n, <<b, c>>), NodeSize(n, <<z, y>>))
<1>1. CASE n.op \in Relations \cup {"booland", "boolor"}
  <2>1. NodeSize(n, <<z, y>>) = 1
    BY <1>1, BinarySize DEF Relations, Wrapping
  <2>2. NodeBits(n, <<b, c>>) = 1
    BY <1>1 DEF NodeBits, Relations, Wrapping
  <2> QED
    BY <2>1, <2>2 DEF Told
<1>2. CASE n.op \in Wrapping
  <2>1. z = y /\ NodeSize(n, <<z, y>>) = z
    BY <1>2, BinarySize DEF Relations, Wrapping
  <2>2. NodeBits(n, <<b, c>>) = IF b = 0 \/ c = 0 THEN b ELSE Larger(b, c)
    BY <1>2 DEF NodeBits, Wrapping
  <2> QED
    BY <2>1, <2>2 DEF Told, Larger
<1>3. CASE n.op = "ror"
  <2>1. NodeSize(n, <<z, y>>) = z
    BY <1>3, BinarySize DEF Relations
  <2>2. NodeBits(n, <<b, c>>) = b
    BY <1>3 DEF NodeBits, Wrapping
  <2> QED
    BY <2>1, <2>2 DEF Told
<1>4. CASE n.op = "concat"
  <2>1. NodeSize(n, <<z, y>>) = z + y
    BY <1>4, BinarySize DEF Relations, Wrapping
  <2>2. NodeBits(n, <<b, c>>) = IF b = 0 \/ c = 0 THEN 0 ELSE b + c
    BY <1>4 DEF NodeBits, Wrapping
  <2> QED
    BY <2>1, <2>2 DEF Told
<1> QED
  BY <1>1, <1>2, <1>3, <1>4, BinarySize

\* It tells the width of an ite, or nothing.
LEMMA IteTold ==
    ASSUME NEW n, Arity(n) = 3, NEW x, NEW z, NEW y, NodeSize(n, <<x, z, y>>) # 0,
           NEW g, NEW b, Told(b, z), NEW c, Told(c, y)
    PROVE  Told(NodeBits(n, <<g, b, c>>), NodeSize(n, <<x, z, y>>))
<1>1. n.op = "ite" /\ z = y /\ NodeSize(n, <<x, z, y>>) = z
  BY IteSize
<1>2. NodeBits(n, <<g, b, c>>) = IF b # 0 THEN b ELSE c
  BY <1>1 DEF NodeBits, Wrapping
<1> QED
  BY <1>1, <1>2 DEF Told

\* An expression of a width has a value of that width.
LEMMA SizedIsValued ==
    ASSUME NEW names, NEW u, \A k \in names : u[k] \in Nat,
           NEW e, NEW z, NEW d, Means(e, names, u, z, d), z # 0
    PROVE  Valued(d, z) /\ Told(ExprBits(e), z)
<1> DEFINE T == {e[i] : i \in 1..Len(e)}
           Fine(f) == Size(f) # 0 => Valued(Denote(f, u), Size(f)) /\ Told(ExprBits(f), Size(f))
           S == {f \in Trees(T) : Fine(f)}
<1>1. Yields(e, 1) /\ IsSequence(e) /\ Closed(e, names)
  BY YieldsSequence DEF Means
<1>2. \A n \in T : KnownNode(n, names)
  BY <1>1, ClosedNodes
<1>3. e \in Trees(T)
  <2>1. \A i \in 1..Len(e) : e[i] \in T
    OBVIOUS
  <2> HIDE DEF T
  <2> QED
    BY <1>1, <2>1, TreesAre DEF Nodes
<1> HIDE DEF T
<1>4. \A f \in Trees(T) : Yields(f, 1)
  BY TreesAre
<1>5. ASSUME NEW n \in T, Arity(n) = 0, <<n>> \in Trees(T) PROVE <<n>> \in S
  <2>1. /\ Size(<<n>>) = NodeSize(n, <<>>) /\ Denote(<<n>>, u) = Computed(Grounded(n, u), <<>>)
        /\ ExprBits(<<n>>) = NodeBits(n, <<>>)
    BY <1>5, Sizes, Denotations, BitsOf
  <2>2. Fine(<<n>>)
    BY <1>2, <1>5, <2>1, LeafValued, LeafTold
  <2> QED
    BY <1>5, <2>2
<1>6. ASSUME NEW n \in T, Arity(n) = 1, NEW a \in S \cap Trees(T), Over(a, n) \in Trees(T)
      PROVE  Over(a, n) \in S
  <2>1. /\ Size(Over(a, n)) = NodeSize(n, <<Size(a)>>)
        /\ Denote(Over(a, n), u) = Computed(n, <<Denote(a, u)>>)
        /\ ExprBits(Over(a, n)) = NodeBits(n, <<ExprBits(a)>>)
    BY <1>4, <1>6, Sizes, Denotations, BitsOf
  <2>2. Fine(Over(a, n))
    <3> SUFFICES ASSUME NodeSize(n, <<Size(a)>>) # 0 PROVE Fine(Over(a, n))
      BY <2>1
    <3>1. Size(a) # 0
      BY <1>6, UnarySize
    <3>2. Valued(Denote(a, u), Size(a)) /\ Told(ExprBits(a), Size(a))
      BY <1>6, <3>1
    <3>3. Valued(Computed(n, <<Denote(a, u)>>), NodeSize(n, <<Size(a)>>))
      BY <1>6, <3>2, UnaryValued
    <3>4. Told(NodeBits(n, <<ExprBits(a)>>), NodeSize(n, <<Size(a)>>))
      BY <1>6, UnaryTold
    <3> QED
      BY <2>1, <3>3, <3>4
  <2> QED
    BY <1>6, <2>2
<1>7. ASSUME NEW n \in T, Arity(n) = 2, NEW a \in S \cap Trees(T), NEW b \in S \cap Trees(T),
             Over(Upon(a, b), n) \in Trees(T)
      PROVE  Over(Upon(a, b), n) \in S
  <2>1. /\ Size(Over(Upon(a, b), n)) = NodeSize(n, <<Size(a), Size(b)>>)
        /\ Denote(Over(Upon(a, b), n), u) = Computed(n, <<Denote(a, u), Denote(b, u)>>)
        /\ ExprBits(Over(Upon(a, b), n)) = NodeBits(n, <<ExprBits(a), ExprBits(b)>>)
    BY <1>4, <1>7, Sizes, Denotations, BitsOf
  <2>2. Fine(Over(Upon(a, b), n))
    <3> SUFFICES ASSUME NodeSize(n, <<Size(a), Size(b)>>) # 0 PROVE Fine(Over(Upon(a, b), n))
      BY <2>1
    <3>1. Size(a) # 0 /\ Size(b) # 0
      BY <1>7, BinarySize
    <3>2. /\ Valued(Denote(a, u), Size(a)) /\ Told(ExprBits(a), Size(a))
          /\ Valued(Denote(b, u), Size(b)) /\ Told(ExprBits(b), Size(b))
      BY <1>7, <3>1
    <3>3. Valued(Computed(n, <<Denote(a, u), Denote(b, u)>>), NodeSize(n, <<Size(a), Size(b)>>))
      BY <1>7, <3>2, BinaryValued
    <3>4. Told(NodeBits(n, <<ExprBits(a), ExprBits(b)>>), NodeSize(n, <<Size(a), Size(b)>>))
      BY <1>7, <3>2, BinaryTold
    <3> QED
      BY <2>1, <3>3, <3>4
  <2> QED
    BY <1>7, <2>2
<1>8. ASSUME NEW n \in T, Arity(n) = 3, NEW a \in S \cap Trees(T), NEW b \in S \cap Trees(T),
             NEW c \in S \cap Trees(T), Over(Upon(Upon(a, b), c), n) \in Trees(T)
      PROVE  Over(Upon(Upon(a, b), c), n) \in S
  <2>1. /\ Size(Over(Upon(Upon(a, b), c), n)) = NodeSize(n, <<Size(a), Size(b), Size(c)>>)
        /\ Denote(Over(Upon(Upon(a, b), c), n), u)
             = Computed(n, <<Denote(a, u), Denote(b, u), Denote(c, u)>>)
        /\ ExprBits(Over(Upon(Upon(a, b), c), n))
             = NodeBits(n, <<ExprBits(a), ExprBits(b), ExprBits(c)>>)
    BY <1>4, <1>8, Sizes, Denotations, BitsOf
  <2>2. Fine(Over(Upon(Upon(a, b), c), n))
    <3> SUFFICES ASSUME NodeSize(n, <<Size(a), Size(b), Size(c)>>) # 0
                 PROVE  Fine(Over(Upon(Upon(a, b), c), n))
      BY <2>1
    <3>1. Size(c) # 0 /\ Size(a) # 0 /\ Size(b) # 0
      BY <1>8, IteSize
    <3>2. /\ Valued(Denote(a, u), Size(a)) /\ Told(ExprBits(a), Size(a))
          /\ Valued(Denote(b, u), Size(b)) /\ Told(ExprBits(b), Size(b))
          /\ Valued(Denote(c, u), Size(c)) /\ Told(ExprBits(c), Size(c))
      BY <1>8, <3>1
    <3>3. Valued(Computed(n, <<Denote(a, u), Denote(b, u), Denote(c, u)>>),
                 NodeSize(n, <<Size(a), Size(b), Size(c)>>))
      BY <1>8, <3>2, IteValued
    <3>4. Told(NodeBits(n, <<ExprBits(a), ExprBits(b), ExprBits(c)>>),
            NodeSize(n, <<Size(a), Size(b), Size(c)>>))
      BY <1>8, <3>2, IteTold
    <3> QED
      BY <2>1, <3>3, <3>4
  <2> QED
    BY <1>8, <2>2
<1>9. \A f \in Trees(T) : f \in S
  <2> HIDE DEF S
  <2> QED
    BY <1>5, <1>6, <1>7, <1>8, TreeInduction
<1>10. Fine(e)
  BY <1>3, <1>9
<1>11. Size(e) = z /\ Denote(e, u) = d
  BY DEF Means
<1> QED
  BY <1>10, <1>11

\* Every leaf of an expression of a width has one.
LEMMA SizedLeaves ==
    ASSUME NEW e, Yields(e, 1), Size(e) # 0, NEW i \in 1..Len(e), Arity(e[i]) = 0
    PROVE  NodeSize(e[i], <<>>) # 0
<1> DEFINE T == {e[j] : j \in 1..Len(e)}
           Good == {n \in T : Arity(n) = 0 => NodeSize(n, <<>>) # 0}
           S == {f \in Trees(T) : Size(f) # 0 => Nodes(f, Good)}
<1>1. IsSequence(e)
  BY YieldsSequence
<1>2. e \in Trees(T)
  <2>1. \A j \in 1..Len(e) : e[j] \in T
    OBVIOUS
  <2> HIDE DEF T
  <2> QED
    BY <1>1, <2>1, TreesAre DEF Nodes
<1> HIDE DEF T
<1>3. \A f \in Trees(T) : Yields(f, 1) /\ IsSequence(f)
  BY TreesAre, YieldsSequence
<1>4. ASSUME NEW c, IsSequence(c), NEW n \in Good, Nodes(c, Good) PROVE Nodes(Over(c, n), Good)
  <2> HIDE DEF Good
  <2>1. PICK f : f = Over(c, n)
    OBVIOUS
  <2>2. PICK m \in Nat : m = Len(c)
    BY <1>4, Lengths
  <2>3. IsSequence(f) /\ Len(f) = m + 1 /\ f[m + 1] = n /\ \A k \in 1..m : f[k] = c[k]
    BY <1>4, <2>1, <2>2, Appended DEF Over
  <2>4. \A k \in 1..(m + 1) : f[k] \in Good
    BY <1>4, <2>2, <2>3 DEF Nodes
  <2> QED
    BY <2>1, <2>3, <2>4 DEF Nodes
<1>5. ASSUME NEW a, NEW b, Nodes(a, Good), Nodes(b, Good) PROVE Nodes(Upon(a, b), Good)
  <2> HIDE DEF Good
  <2>1. PICK f : f = Upon(a, b)
    OBVIOUS
  <2>2. PICK m \in Nat : m = Len(a)
    BY <1>5, Lengths DEF Nodes
  <2>3. PICK k \in Nat : k = Len(b)
    BY <1>5, Lengths DEF Nodes
  <2>4. /\ IsSequence(f) /\ Len(f) = m + k
        /\ \A j \in 1..m : f[j] = a[j]
        /\ \A j \in 1..k : f[m + j] = b[j]
    BY <1>5, <2>1, <2>2, <2>3, UponIs DEF Nodes
  <2>5. \A j \in 1..m : f[j] \in Good
    BY <1>5, <2>2, <2>4 DEF Nodes
  <2>6. \A j \in 1..k : f[m + j] \in Good
    BY <1>5, <2>3, <2>4 DEF Nodes
  <2>7. \A j \in 1..(m + k) : f[j] \in Good
    <3> SUFFICES ASSUME NEW j \in 1..(m + k), j > m PROVE f[j] \in Good
      BY <2>5
    <3>1. j - m \in 1..k /\ m + (j - m) = j
      OBVIOUS
    <3> QED
      BY <2>6, <3>1
  <2> QED
    BY <2>1, <2>4, <2>7 DEF Nodes
<1>6. ASSUME NEW n \in T, Arity(n) = 0, <<n>> \in Trees(T) PROVE <<n>> \in S
  <2>1. Size(<<n>>) = NodeSize(n, <<>>)
    BY <1>6, Sizes
  <2>2. Size(<<n>>) # 0 => n \in Good
    BY <1>6, <2>1
  <2> HIDE DEF Good
  <2>3. n \in Good => Nodes(<<n>>, Good)
    BY Singles DEF Nodes
  <2> QED
    BY <1>6, <2>2, <2>3
<1>7. \A n \in T : Arity(n) # 0 => n \in Good
  OBVIOUS
<1> HIDE DEF Good
<1>8. ASSUME NEW n \in T, Arity(n) = 1, NEW a \in S \cap Trees(T), Over(a, n) \in Trees(T)
      PROVE  Over(a, n) \in S
  <2>1. Size(Over(a, n)) = NodeSize(n, <<Size(a)>>)
    BY <1>3, <1>8, Sizes
  <2>2. Size(Over(a, n)) # 0 => Size(a) # 0
    BY <1>8, <2>1, UnarySize
  <2> QED
    BY <1>3, <1>4, <1>7, <1>8, <2>2
<1>9. ASSUME NEW n \in T, Arity(n) = 2, NEW a \in S \cap Trees(T), NEW b \in S \cap Trees(T),
             Over(Upon(a, b), n) \in Trees(T)
      PROVE  Over(Upon(a, b), n) \in S
  <2>1. Size(Over(Upon(a, b), n)) = NodeSize(n, <<Size(a), Size(b)>>)
    BY <1>3, <1>9, Sizes
  <2>2. Size(Over(Upon(a, b), n)) # 0 => Size(a) # 0 /\ Size(b) # 0
    BY <1>9, <2>1, BinarySize
  <2>3. Size(Over(Upon(a, b), n)) # 0 => Nodes(Upon(a, b), Good)
    BY <1>5, <1>9, <2>2
  <2>4. IsSequence(Upon(a, b))
    BY <1>3, <1>9, UponIs
  <2> QED
    BY <1>4, <1>7, <1>9, <2>3, <2>4
<1>10. ASSUME NEW n \in T, Arity(n) = 3, NEW a \in S \cap Trees(T), NEW b \in S \cap Trees(T),
              NEW c \in S \cap Trees(T), Over(Upon(Upon(a, b), c), n) \in Trees(T)
       PROVE  Over(Upon(Upon(a, b), c), n) \in S
  <2>1. Size(Over(Upon(Upon(a, b), c), n)) = NodeSize(n, <<Size(a), Size(b), Size(c)>>)
    BY <1>3, <1>10, Sizes
  <2>2. Size(Over(Upon(Upon(a, b), c), n)) # 0 => Size(a) # 0 /\ Size(b) # 0 /\ Size(c) # 0
    BY <1>10, <2>1, IteSize
  <2>3. Size(Over(Upon(Upon(a, b), c), n)) # 0 => Nodes(Upon(a, b), Good)
    BY <1>5, <1>10, <2>2
  <2>4. Size(Over(Upon(Upon(a, b), c), n)) # 0 => Nodes(Upon(Upon(a, b), c), Good)
    BY <1>5, <1>10, <2>2, <2>3
  <2>5. IsSequence(Upon(Upon(a, b), c))
    BY <1>3, <1>10, UponIs
  <2> QED
    BY <1>4, <1>7, <1>10, <2>4, <2>5
<1>11. \A f \in Trees(T) : f \in S
  <2> HIDE DEF S
  <2> QED
    BY <1>6, <1>8, <1>9, <1>10, TreeInduction
<1>12. e[i] \in Good
  BY <1>2, <1>11 DEF Nodes
<1> QED
  BY <1>12 DEF Good

----------------------------------------------------------------------------
(* Simplify keeps what an expression means: nodes over one operand.         *)

\* Two to the one.
LEMMA TwoToOne == 2 ^ 1 = 2
<1>1. 2 ^ 0 = 1 /\ 0 \in Nat
  BY SMT
<1>2. 2 ^ (0 + 1) = 2 ^ 0 + 2 ^ 0
  BY <1>1, PowerDoubles
<1> QED
  BY <1>1, <1>2

\* The width and the value of a literal.
LEMMA LeafSizes ==
    /\ \A v, b : b \in Nat /\ v \in 0..(2 ^ b - 1) => NodeSize(Literal(v, b), <<>>) = b
    /\ \A v, b : Computed(Literal(v, b), <<>>) = [w |-> b, v |-> v % 2 ^ b]
<1>1. ~(\E k \in DOMAIN <<>> : <<>>[k] = 0)
  OBVIOUS
<1>2. ASSUME NEW v, NEW b \in Nat, v \in 0..(2 ^ b - 1)
      PROVE  NodeSize(Literal(v, b), <<>>) = b
  <2>1. PICK n : n = Literal(v, b)
    OBVIOUS
  <2>2. n.op = "const" /\ n.bits = b /\ n.value = v
    BY <2>1 DEF Literal
  <2>3. NodeSize(n, <<>>) = n.bits
    BY <1>1, <1>2, <2>2 DEF NodeSize, Relations, Wrapping
  <2> QED
    BY <2>1, <2>2, <2>3
<1>3. \A v, b : Computed(Literal(v, b), <<>>) = [w |-> b, v |-> v % 2 ^ b]
  BY DEF Computed, Literal
<1> QED
  BY <1>2, <1>3

\* A constant means what it holds, and only that.
LEMMA ConstMeans ==
    ASSUME NEW w \in Nat \ {0}, NEW x, InWidth(x, w), NEW names, NEW u
    PROVE  Means(Const(x, w), names, u, w, [w |-> w, v |-> x])
<1>1. PICK n : n = Literal(x, w)
  OBVIOUS
<1>2. n.op = "const"
  BY <1>1 DEF Literal
<1>3. Arity(n) = 0 /\ KnownNode(n, names) /\ Grounded(n, u) = n
  BY <1>2 DEF Arity, Leaves, KnownNode, Grounded, IsVar
<1>4. Means(<<n>>, names, u, NodeSize(n, <<>>), Computed(n, <<>>))
  BY <1>3, MeansBuilt
<1>5. NodeSize(n, <<>>) = w
  BY <1>1, LeafSizes DEF InWidth
<1>6. Computed(n, <<>>) = [w |-> w, v |-> x % 2 ^ w]
  BY <1>1, LeafSizes
<1>7. x % 2 ^ w = x
  BY WithinItsWidth
<1>8. Const(x, w) = <<n>>
  BY <1>1 DEF Const
<1> QED
  BY <1>4, <1>5, <1>6, <1>7, <1>8

\* What a constant of a width means is its value.
LEMMA ConstIs ==
    ASSUME NEW e, IsConst(e), NEW names, NEW u, NEW z, NEW d, Means(e, names, u, z, d), z # 0
    PROVE  /\ z \in Nat \ {0} /\ e[1].bits = z /\ e[1].value = d.v
           /\ d = [w |-> z, v |-> d.v] /\ InWidth(d.v, z) /\ Masked(e) = d.v
<1>1. IsSequence(e) /\ Yields(e, 1) /\ Size(e) = z /\ Denote(e, u) = d
  BY YieldsSequence DEF Means
<1>2. PICK n : n = e[1]
  OBVIOUS
<1>3. e = <<n>> /\ n.op = "const"
  <2>1. Len(e) = 1 /\ n.op = "const"
    BY <1>2 DEF IsConst
  <2>2. IsSequence(<<n>>) /\ Len(<<n>>) = 1 /\ <<n>>[1] = n
    BY Singles
  <2>3. \A i \in 1..Len(e) : e[i] = <<n>>[i]
    BY <1>2, <2>1, <2>2
  <2> QED
    BY <1>1, <2>1, <2>2, <2>3, SameSequence
<1>4. Arity(n) = 0 /\ Grounded(n, u) = n
  BY <1>3 DEF Arity, Leaves, Grounded, IsVar
<1>5. NodeSize(n, <<>>) = z
  BY <1>1, <1>3, <1>4, Sizes
<1>6. n.bits \in Nat /\ n.value \in 0..(2 ^ n.bits - 1) /\ n.bits = z
  BY <1>3, <1>4, <1>5, LeafSize
<1>7. PICK w \in Nat \ {0} : w = z
  BY <1>6
<1>8. PICK x : x = n.value
  OBVIOUS
<1>9. InWidth(x, w)
  BY <1>6, <1>7, <1>8 DEF InWidth
<1>10. x % 2 ^ w = x
  BY <1>9, WithinItsWidth
<1>11. Denote(<<n>>, u) = Computed(n, <<>>)
  BY <1>4, Denotations
<1>12. Computed(n, <<>>) = [w |-> w, v |-> x % 2 ^ w]
  BY <1>3, <1>6, <1>7, <1>8 DEF Computed
<1>13. d = [w |-> w, v |-> x]
  BY <1>1, <1>3, <1>10, <1>11, <1>12
<1>14. d.v = x
  BY <1>13
<1> QED
  BY <1>2, <1>6, <1>7, <1>8, <1>9, <1>10, <1>13, <1>14 DEF Masked

\* Two negations give a bit back.
LEMMA OneBit ==
    ASSUME NEW x, InWidth(x, 1)
    PROVE  Flag(Flag(x = 0) = 0) = x
BY TwoToOne DEF InWidth, Flag

\* The width and the value of a negation.
LEMMA NotSizes ==
    /\ \A n : n.op = "not" => NodeSize(n, <<1>>) = 1
    /\ \A n, d : n.op = "not" => Computed(n, <<d>>) = [w |-> 1, v |-> Flag(d.v = 0)]
<1>1. ASSUME NEW n, n.op = "not" PROVE NodeSize(n, <<1>>) = 1
  <2>1. DOMAIN <<1>> = {1} /\ <<1>>[1] = 1
    OBVIOUS
  <2>2. ~(\E k \in DOMAIN <<1>> : <<1>>[k] = 0)
    BY <2>1
  <2> QED
    BY <1>1, <2>1, <2>2 DEF NodeSize
<1>2. \A n, d : n.op = "not" => Computed(n, <<d>>) = [w |-> 1, v |-> Flag(d.v = 0)]
  BY DEF Computed
<1> QED
  BY <1>1, <1>2

\* FoldNot means the negation of what is under it.
LEMMA NotMeans ==
    ASSUME NEW names, NEW u, \A k \in names : u[k] \in Nat,
           NEW a, NEW d, Means(a, names, u, 1, d)
    PROVE  Means(FoldNot(a), names, u, 1, [w |-> 1, v |-> Flag(d.v = 0)])
<1>1. Valued(d, 1)
  BY SizedIsValued
<1>2. CASE a[Len(a)].op = "not"
  <2>1. PICK n : n = LastNode(a)
    OBVIOUS
  <2>2. Arity(n) = 1 /\ n.op = "not"
    BY <1>2, <2>1 DEF Arity, Leaves, LastNode
  <2>3. StandsOn(n, Beneath(a), names, u, 1, d)
    BY <2>1, <2>2, MeansInner
  <2>4. PICK c, x, f : /\ c = Beneath(a) /\ Means(c, names, u, x, f)
                       /\ 1 = NodeSize(n, <<x>>) /\ d = Computed(n, <<f>>)
    BY <2>3 DEF StandsOn
  <2>5. x = 1
    BY <2>2, <2>4, UnarySize
  <2>6. Valued(f, 1)
    BY <2>4, <2>5, SizedIsValued
  <2>7. d = [w |-> 1, v |-> Flag(f.v = 0)]
    BY <2>2, <2>4, NotSizes
  <2>8. d.v = Flag(f.v = 0)
    BY <2>7
  <2>9. PICK y : y = f.v
    OBVIOUS
  <2>10. Flag(d.v = 0) = y
    BY <2>6, <2>8, <2>9, OneBit DEF Valued
  <2>11. f = [w |-> 1, v |-> Flag(d.v = 0)]
    BY <2>6, <2>9, <2>10 DEF Valued
  <2> QED
    BY <1>2, <2>4, <2>5, <2>11 DEF FoldNot, Beneath
<1>3. CASE a[Len(a)].op # "not" /\ IsConst(a)
  <2>1. a[1].value = d.v
    BY <1>3, ConstIs
  <2>2. PICK y : y = Flag(d.v = 0)
    OBVIOUS
  <2>3. InWidth(y, 1)
    BY <2>2, FlagInWidth
  <2>4. 1 \in Nat \ {0}
    OBVIOUS
  <2>5. Means(Const(y, 1), names, u, 1, [w |-> 1, v |-> y])
    BY <2>3, <2>4, ConstMeans
  <2> QED
    BY <1>3, <2>1, <2>2, <2>5 DEF FoldNot
<1>4. CASE a[Len(a)].op # "not" /\ ~IsConst(a)
  <2>1. PICK n : n = [op |-> "not"]
    OBVIOUS
  <2>2. n.op = "not" /\ Arity(n) = 1
    BY <2>1 DEF Arity, Leaves
  <2>3. Means(Over(a, n), names, u, NodeSize(n, <<1>>), Computed(n, <<d>>))
    BY <2>2, MeansBuilt
  <2>4. FoldNot(a) = Over(a, n)
    BY <1>4, <2>1 DEF FoldNot, Not, Over
  <2> QED
    BY <2>2, <2>3, <2>4, NotSizes
<1> QED
  BY <1>2, <1>3, <1>4

----------------------------------------------------------------------------
(* Extractions and extensions.                                              *)

\* The width and the value of an extraction.
LEMMA ExtractSizes ==
    ASSUME NEW n, n.op = "extract", NEW hi \in Nat, n.hi = hi, NEW lo \in 0..hi, n.lo = lo
    PROVE  /\ \A x \in Nat : hi < x => NodeSize(n, <<x>>) = hi - lo + 1
           /\ \A d : Computed(n, <<d>>) = [w |-> hi - lo + 1, v |-> Slice(d.v, hi, lo)]
<1>1. ASSUME NEW x \in Nat, hi < x PROVE NodeSize(n, <<x>>) = hi - lo + 1
  <2>1. DOMAIN <<x>> = {1} /\ <<x>>[1] = x /\ x # 0
    BY <1>1
  <2>2. ~(\E k \in DOMAIN <<x>> : <<x>>[k] = 0)
    BY <2>1
  <2>3. n.lo \in 0..n.hi /\ n.hi \in 0..(x - 1)
    BY <1>1
  <2>4. NodeSize(n, <<x>>) = n.hi - n.lo + 1
    BY <2>1, <2>2, <2>3 DEF NodeSize, Relations, Wrapping
  <2> QED
    BY <2>4
<1>2. \A d : Computed(n, <<d>>) = [w |-> hi - lo + 1, v |-> Slice(d.v, hi, lo)]
  BY DEF Computed
<1> QED
  BY <1>1, <1>2

\* An extension is a node over one operand, and resizes its value.
LEMMA ExtendSizes ==
    ASSUME NEW n, n.op \in {"zext", "sext"}
    PROVE  /\ Arity(n) = 1
           /\ \A d : Computed(n, <<d>>) = [w |-> n.to, v |-> Resize(d.v, d.w, n.to, n.op = "sext")]
<1>1. \A d : Computed(n, <<d>>) = [w |-> n.to, v |-> Resize(d.v, d.w, n.to, n.op = "sext")]
  BY DEF Computed
<1> QED
  BY <1>1 DEF Arity, Leaves

\* What is extended with zeros has the value of the extension.
LEMMA ExtendedMeans ==
    ASSUME NEW names, NEW u, \A k \in names : u[k] \in Nat,
           NEW a, NEW z, NEW d, Means(a, names, u, z, d), z # 0, LastNode(a).op = "zext"
    PROVE  \E c, x, f : /\ c = Beneath(a) /\ Means(c, names, u, x, f) /\ x \in Nat
                        /\ Told(ExprBits(c), x) /\ d.v = f.v
<1>1. PICK n : n = LastNode(a)
  OBVIOUS
<1>2. Arity(n) = 1 /\ n.op = "zext"
  BY <1>1 DEF Arity, Leaves
<1>3. StandsOn(n, Beneath(a), names, u, z, d)
  BY <1>1, <1>2, MeansInner
<1>4. PICK c, x, f : /\ c = Beneath(a) /\ Means(c, names, u, x, f)
                     /\ z = NodeSize(n, <<x>>) /\ d = Computed(n, <<f>>)
  BY <1>3 DEF StandsOn
<1>5. x # 0 /\ n.to \in Nat /\ n.to >= x /\ z = n.to
  BY <1>2, <1>4, UnarySize
<1>6. Valued(f, x) /\ Told(ExprBits(c), x)
  BY <1>4, <1>5, SizedIsValued
<1>7. x \in Nat /\ f.w = x /\ InWidth(f.v, x)
  BY <1>6 DEF Valued
<1>8. PICK y : y = f.v
  OBVIOUS
<1>9. PICK t \in Nat : t = n.to
  BY <1>5
<1>10. x <= t
  BY <1>5, <1>7, <1>9
<1>11. Resize(y, x, t, FALSE) = y
  BY <1>7, <1>8, <1>10, WiderStill
<1>12. d = [w |-> n.to, v |-> Resize(f.v, f.w, n.to, n.op = "sext")]
  BY <1>2, <1>4, ExtendSizes
<1>13. d.v = Resize(f.v, f.w, n.to, n.op = "sext") /\ ~(n.op = "sext")
  BY <1>2, <1>12
<1>14. d.v = f.v
  BY <1>7, <1>8, <1>9, <1>11, <1>13 DEF Resize
<1> QED
  BY <1>4, <1>6, <1>7, <1>14

\* FoldExtract means the slice of what is under it.
LEMMA ExtractMeans ==
    ASSUME NEW names, NEW u, \A k \in names : u[k] \in Nat,
           NEW a, NEW z, NEW d, Means(a, names, u, z, d), NEW hi \in 0..(z - 1), NEW lo \in 0..hi,
           z \in Nat \ {0}
    PROVE  Means(FoldExtract(a, hi, lo), names, u, hi - lo + 1,
                 [w |-> hi - lo + 1, v |-> Slice(d.v, hi, lo)])
<1>1. Valued(d, z) /\ Told(ExprBits(a), z) /\ hi \in Nat /\ lo \in Nat
  BY SizedIsValued
<1> DEFINE inner == SubSeq(a, 1, Len(a) - 1)
<1>2. CASE lo = 0 /\ hi + 1 = ExprBits(a)
  <2>1. hi = z - 1 /\ hi - lo + 1 = z
    BY <1>1, <1>2 DEF Told
  <2>2. PICK x : x = d.v
    OBVIOUS
  <2>3. InWidth(x, z) /\ d = [w |-> z, v |-> x]
    BY <1>1, <2>2 DEF Valued
  <2>4. Slice(x, z - 1, 0) = x
    BY <2>3, SliceOfAll
  <2> QED
    BY <1>2, <2>1, <2>2, <2>3, <2>4 DEF FoldExtract
<1>3. ASSUME NEW c, NEW x \in Nat, NEW f, Means(c, names, u, x, f), hi < x
      PROVE  Means(Extract(c, hi, lo), names, u, hi - lo + 1,
               [w |-> hi - lo + 1, v |-> Slice(f.v, hi, lo)])
  <2>1. PICK n : n = [op |-> "extract", hi |-> hi, lo |-> lo]
    OBVIOUS
  <2>2. n.op = "extract" /\ n.hi = hi /\ n.lo = lo /\ Arity(n) = 1
    BY <2>1 DEF Arity, Leaves
  <2>3. Means(Over(c, n), names, u, NodeSize(n, <<x>>), Computed(n, <<f>>))
    BY <1>3, <2>2, MeansBuilt
  <2>4. NodeSize(n, <<x>>) = hi - lo + 1
          /\ Computed(n, <<f>>) = [w |-> hi - lo + 1, v |-> Slice(f.v, hi, lo)]
    BY <1>1, <1>3, <2>2, ExtractSizes
  <2>5. Extract(c, hi, lo) = Over(c, n)
    BY <2>1 DEF Extract, Over
  <2> QED
    BY <2>3, <2>4, <2>5
<1>4. CASE /\ ~(lo = 0 /\ hi + 1 = ExprBits(a))
           /\ a[Len(a)].op = "zext" /\ hi < ExprBits(inner)
  <2>1. LastNode(a).op = "zext" /\ z # 0
    BY <1>4 DEF LastNode
  <2>2. PICK c, x, f : /\ c = Beneath(a) /\ Means(c, names, u, x, f) /\ x \in Nat
                       /\ Told(ExprBits(c), x) /\ d.v = f.v
    BY <2>1, ExtendedMeans
  <2>3. hi < x
    BY <1>1, <1>4, <2>2 DEF Told, Beneath
  <2>4. Means(Extract(c, hi, lo), names, u, hi - lo + 1,
          [w |-> hi - lo + 1, v |-> Slice(f.v, hi, lo)])
    BY <1>3, <2>2, <2>3
  <2>5. FoldExtract(a, hi, lo) = Extract(c, hi, lo)
    BY <1>4, <2>2 DEF FoldExtract, Beneath
  <2> QED
    BY <2>2, <2>4, <2>5
<1>5. CASE /\ ~(lo = 0 /\ hi + 1 = ExprBits(a))
           /\ ~(a[Len(a)].op = "zext" /\ hi < ExprBits(inner))
  <2>1. FoldExtract(a, hi, lo) = Extract(a, hi, lo)
    BY <1>5 DEF FoldExtract
  <2> QED
    BY <1>3, <2>1
<1> QED
  BY <1>2, <1>4, <1>5

\* FoldExtend means the extension of what is under it.
LEMMA ExtendMeans ==
    ASSUME NEW names, NEW u, \A k \in names : u[k] \in Nat,
           NEW a, NEW z, NEW d, Means(a, names, u, z, d),
           NEW n, n.op \in {"zext", "sext"}, NodeSize(n, <<z>>) # 0
    PROVE  Means(FoldExtend(n, a), names, u, NodeSize(n, <<z>>), Computed(n, <<d>>))
<1>1. Arity(n) = 1
  BY ExtendSizes
<1>2. z # 0 /\ n.to \in Nat /\ n.to >= z /\ NodeSize(n, <<z>>) = n.to
  BY <1>1, UnarySize
<1>3. Valued(d, z) /\ Told(ExprBits(a), z)
  BY <1>2, SizedIsValued
<1>4. CASE ExprBits(a) = n.to
  <2>1. n.to = z
    BY <1>2, <1>3, <1>4 DEF Told, Valued
  <2>2. PICK x : x = d.v
    OBVIOUS
  <2>3. z \in Nat /\ InWidth(x, z) /\ d = [w |-> z, v |-> x]
    BY <1>3, <2>2 DEF Valued
  <2>4. Resize(x, z, z, n.op = "sext") = x
    BY <2>3, ResizeToItself
  <2>5. Computed(n, <<d>>) = [w |-> n.to, v |-> Resize(d.v, d.w, n.to, n.op = "sext")]
    BY ExtendSizes
  <2>6. Computed(n, <<d>>) = d
    BY <2>1, <2>2, <2>3, <2>4, <2>5
  <2> QED
    BY <1>2, <1>4, <2>1, <2>6 DEF FoldExtend
<1>5. CASE ExprBits(a) # n.to
  <2>1. FoldExtend(n, a) = Over(a, n)
    BY <1>5 DEF FoldExtend, Over
  <2> QED
    BY <1>1, <2>1, MeansBuilt
<1> QED
  BY <1>4, <1>5

\* A node over one simplified operand means what it meant.
LEMMA UnaryRebuilt ==
    ASSUME NEW names, NEW u, \A k \in names : u[k] \in Nat,
           NEW a, NEW z, NEW d, Means(a, names, u, z, d),
           NEW n, Arity(n) = 1, NodeSize(n, <<z>>) # 0
    PROVE  Means(Rebuilt(n, <<a>>), names, u, NodeSize(n, <<z>>), Computed(n, <<d>>))
<1>1. Valued(d, z)
  BY UnarySize, SizedIsValued
<1>2. CASE n.op = "not"
  <2>1. z = 1 /\ NodeSize(n, <<z>>) = 1
    BY <1>2, UnarySize
  <2>2. Rebuilt(n, <<a>>) = FoldNot(a)
    BY <1>2 DEF Rebuilt
  <2>3. Means(a, names, u, 1, d)
    BY <2>1
  <2>4. Means(FoldNot(a), names, u, 1, [w |-> 1, v |-> Flag(d.v = 0)])
    BY <2>3, NotMeans
  <2>5. Computed(n, <<d>>) = [w |-> 1, v |-> Flag(d.v = 0)]
    BY <1>2, NotSizes
  <2> QED
    BY <2>1, <2>2, <2>4, <2>5
<1>3. CASE n.op = "extract"
  <2>1. n.lo \in 0..n.hi /\ n.hi \in 0..(z - 1)
    BY <1>3, UnarySize
  <2>2. PICK hi \in Nat : hi = n.hi
    BY <2>1
  <2>3. PICK lo \in 0..hi : lo = n.lo
    BY <2>1, <2>2
  <2>4. z \in Nat \ {0} /\ hi \in 0..(z - 1) /\ hi < z
    BY <1>1, <2>1, <2>2 DEF Valued
  <2>5. Rebuilt(n, <<a>>) = FoldExtract(a, hi, lo)
    BY <1>3, <2>2, <2>3 DEF Rebuilt
  <2>6. NodeSize(n, <<z>>) = hi - lo + 1
          /\ Computed(n, <<d>>) = [w |-> hi - lo + 1, v |-> Slice(d.v, hi, lo)]
    BY <1>3, <2>2, <2>3, <2>4, ExtractSizes
  <2>7. Means(FoldExtract(a, hi, lo), names, u, hi - lo + 1,
          [w |-> hi - lo + 1, v |-> Slice(d.v, hi, lo)])
    BY <2>4, ExtractMeans
  <2> QED
    BY <2>5, <2>6, <2>7
<1>4. CASE n.op \in {"zext", "sext"}
  <2>1. Rebuilt(n, <<a>>) = FoldExtend(n, a)
    BY <1>4 DEF Rebuilt
  <2> QED
    BY <1>4, <2>1, ExtendMeans
<1> QED
  BY <1>2, <1>3, <1>4, UnarySize

----------------------------------------------------------------------------
(* Nodes over two operands.                                                 *)

\* What looks the same, and has no unknown, is the same.
LEMMA SameIsEqual ==
    ASSUME NEW a, IsSequence(a), NEW b, IsSequence(b), Same(a, b)
    PROVE  a = b
<1>1. DOMAIN a = DOMAIN b
  BY DEF Same, Shown
<1>2. ASSUME NEW i \in DOMAIN a PROVE a[i] = b[i]
  <2>1. a[i].op # "unknown"
    BY <1>2 DEF Same, ContainsUnknown
  <2>2. Shown(a)[i] = a[i]
    BY <1>2, <2>1 DEF Shown
  <2>3. Shown(b)[i] = IF b[i].op = "unknown" THEN [op |-> "unknown"] ELSE b[i]
    BY <1>1, <1>2 DEF Shown
  <2>4. Shown(a)[i] = Shown(b)[i]
    BY DEF Same
  <2>5. b[i].op # "unknown"
    BY <2>1, <2>2, <2>3, <2>4
  <2> QED
    BY <2>2, <2>3, <2>4, <2>5
<1>3. PICK m \in Nat : m = Len(a)
  BY Lengths
<1>4. PICK k \in Nat : k = Len(b)
  BY Lengths
<1>5. DOMAIN a = 1..m /\ DOMAIN b = 1..k
  BY <1>3, <1>4, Lengths
<1>6. m = k
  <2>1. m \in 1..m => m \in 1..k
    BY <1>1, <1>5
  <2>2. k \in 1..k => k \in 1..m
    BY <1>1, <1>5
  <2> QED
    BY <2>1, <2>2
<1> QED
  BY <1>2, <1>3, <1>4, <1>5, <1>6, SameSequence

\* A node appended is a node over what was there.
LEMMA AppendIsOver ==
    ASSUME NEW e, IsSequence(e), NEW n
    PROVE  e \o <<n>> = Over(e, n)
<1>1. PICK S : e \in Seq(S)
  BY DEF IsSequence
<1> DEFINE T == S \cup {n}
<1>2. e \in Seq(T) /\ n \in T
  BY <1>1
<1> HIDE DEF T
<1> QED
  BY <1>2 DEF Over

\* A binary expression is a node over its two operands.
LEMMA BinaryIsOver ==
    ASSUME NEW a, IsSequence(a), NEW b, IsSequence(b), NEW op
    PROVE  Binary(op, a, b) = Over(Upon(a, b), [op |-> op])
<1>1. PICK c : c = a \o b
  OBVIOUS
<1>2. IsSequence(c) /\ c = Upon(a, b)
  BY <1>1, Concatenated DEF Upon
<1>3. PICK n : n = [op |-> op]
  OBVIOUS
<1>4. c \o <<n>> = Over(c, n)
  BY <1>2, AppendIsOver
<1> QED
  BY <1>1, <1>2, <1>3, <1>4 DEF Binary

\* A node of two operands is its operation.
LEMMA BareNode ==
    ASSUME NEW n, Arity(n) = 2, NEW m, m = [op |-> n.op]
    PROVE  /\ Arity(m) = 2
           /\ \A z, y : NodeSize(m, <<z, y>>) = NodeSize(n, <<z, y>>)
           /\ \A d, c : Computed(m, <<d, c>>) = Computed(n, <<d, c>>)
<1>1. m.op = n.op
  OBVIOUS
<1>2. n.op \notin {"var", "const", "unknown", "not", "extract", "zext", "sext", "ite"}
  BY DEF Arity, Leaves
<1>3. Arity(m) = 2
  BY <1>1, <1>2 DEF Arity, Leaves
<1>4. \A z, y : NodeSize(m, <<z, y>>) = NodeSize(n, <<z, y>>)
  BY <1>1, <1>2 DEF NodeSize
<1>5. \A d, c : Computed(m, <<d, c>>) = Computed(n, <<d, c>>)
  BY <1>1, <1>2 DEF Computed, Matching
<1> QED
  BY <1>3, <1>4, <1>5

\* What a binary expression means.
LEMMA BinaryMeans ==
    ASSUME NEW names, NEW u, NEW a, NEW z, NEW d, Means(a, names, u, z, d),
           NEW b, NEW y, NEW c, Means(b, names, u, y, c), NEW n, Arity(n) = 2
    PROVE  Means(Binary(n.op, a, b), names, u, NodeSize(n, <<z, y>>), Computed(n, <<d, c>>))
<1>1. PICK m : m = [op |-> n.op]
  OBVIOUS
<1>2. Arity(m) = 2
  BY <1>1, BareNode
<1>3. Means(Over(Upon(a, b), m), names, u, NodeSize(m, <<z, y>>), Computed(m, <<d, c>>))
  BY <1>2, MeansBuilt
<1>4. NodeSize(m, <<z, y>>) = NodeSize(n, <<z, y>>) /\ Computed(m, <<d, c>>) = Computed(n, <<d, c>>)
  BY <1>1, BareNode
<1>5. IsSequence(a) /\ IsSequence(b)
  BY YieldsSequence DEF Means
<1>6. Binary(n.op, a, b) = Over(Upon(a, b), m)
  BY <1>1, <1>5, BinaryIsOver
<1> QED
  BY <1>3, <1>4, <1>6

\* Two operands of one width, by an operation on values of it.
LEMMA WrappingSizes ==
    ASSUME NEW n, n.op \in Wrapping, NEW z, NEW d, Valued(d, z), NEW y, NEW c, Valued(c, y),
           NodeSize(n, <<z, y>>) # 0
    PROVE  /\ z = y /\ NodeSize(n, <<z, y>>) = z
           /\ Computed(n, <<d, c>>) = [w |-> z, v |-> Arith(n.op, d.v, c.v, z)]
<1>1. Arity(n) = 2 /\ n.op \notin Relations
  BY DEF Wrapping, Relations, Arity, Leaves
<1>2. z = y /\ NodeSize(n, <<z, y>>) = z
  BY <1>1, BinarySize DEF Relations, Wrapping
<1>3. Computed(n, <<d, c>>) = Matching(n, d, c)
  BY BinaryForms
<1>4. Matching(n, d, c) = [w |-> z, v |-> Arith(n.op, d.v, c.v, z)]
  BY <1>1, <1>2, Matches
<1> QED
  BY <1>2, <1>3, <1>4

\* A comparison for equality is a flag.
LEMMA CompareSizes ==
    ASSUME NEW n, n.op \in {"eq", "ne"}, NEW z, NEW d, Valued(d, z), NEW y, NEW c, Valued(c, y),
           NodeSize(n, <<z, y>>) # 0
    PROVE  /\ NodeSize(n, <<z, y>>) = 1
           /\ Computed(n, <<d, c>>) = [w |-> 1,
                 v |-> Flag(IF n.op = "eq" THEN d.v = c.v ELSE d.v # c.v)]
<1>1. Arity(n) = 2 /\ n.op \in Relations /\ n.op \notin SignedOps
  BY DEF Relations, Arity, Leaves, SignedOps
<1>2. NodeSize(n, <<z, y>>) = 1
  BY <1>1, BinarySize DEF Relations, Wrapping
<1>3. Computed(n, <<d, c>>) = Matching(n, d, c)
  BY <1>1, BinaryForms
<1>4. z \in Nat /\ y \in Nat /\ d.w = z /\ c.w = y /\ InWidth(d.v, z) /\ InWidth(c.v, y)
  BY DEF Valued
<1>5. PICK l \in Nat : l = Larger(z, y)
  BY <1>4 DEF Larger
<1>6. z <= l /\ y <= l
  BY <1>4, <1>5 DEF Larger
<1>7. PICK p : p = d.v
  OBVIOUS
<1>8. PICK q : q = c.v
  OBVIOUS
<1>9. Resize(p, z, l, FALSE) = p
  BY <1>4, <1>6, <1>7, WiderStill
<1>10. Resize(q, y, l, FALSE) = q
  <2>1. InWidth(q, y) /\ y \in Nat /\ y <= l
    BY <1>4, <1>6, <1>8
  <2> QED
    BY <2>1, WiderStill
<1>11. Resize(p, z, l, n.op \in SignedOps) = p /\ Resize(q, y, l, n.op \in SignedOps) = q
  BY <1>1, <1>9, <1>10 DEF Resize
<1>12. Matching(n, d, c) = [w |-> 1, v |-> Flag(Compares(n.op, p, q, l))]
  BY <1>1, <1>4, <1>5, <1>7, <1>8, <1>11 DEF Matching
<1>13. Compares(n.op, p, q, l) <=> (IF n.op = "eq" THEN p = q ELSE p # q)
  BY DEF Compares
<1>14. Flag(Compares(n.op, p, q, l)) = Flag(IF n.op = "eq" THEN p = q ELSE p # q)
  BY <1>13 DEF Flag
<1> QED
  BY <1>2, <1>3, <1>7, <1>8, <1>12, <1>14

\* What the rules of simplify_binary come down to, on values of w bits.
LEMMA FoldingLaws ==
    ASSUME NEW w \in Nat \ {0}, NEW x, InWidth(x, w)
    PROVE  /\ \A op \in {"add", "or", "xor"} : Arith(op, 0, x, w) = x
           /\ \A op \in {"add", "sub", "or", "xor"} : Arith(op, x, 0, w) = x
           /\ \A op \in {"mul", "and"} : Arith(op, 0, x, w) = 0 /\ Arith(op, x, 0, w) = 0
           /\ Arith("mul", 1, x, w) = x /\ Arith("mul", x, 1, w) = x
           /\ Arith("or", 2 ^ w - 1, x, w) = 2 ^ w - 1 /\ Arith("or", x, 2 ^ w - 1, w) = 2 ^ w - 1
           /\ \A op \in {"and", "or"} : Arith(op, x, x, w) = x
           /\ \A op \in {"sub", "xor"} : Arith(op, x, x, w) = 0
<1>1. w \in Nat
  OBVIOUS
<1>2. /\ Arith("add", 0, x, w) = x /\ Arith("add", x, 0, w) = x
      /\ Arith("sub", x, 0, w) = x /\ Arith("sub", x, x, w) = 0
      /\ Arith("mul", 0, x, w) = 0 /\ Arith("mul", x, 0, w) = 0
      /\ Arith("mul", 1, x, w) = x /\ Arith("mul", x, 1, w) = x
  BY <1>1, ArithLaws
<1>3. /\ Bitwise("and", 0, x, w) = 0 /\ Bitwise("and", x, 0, w) = 0
      /\ Bitwise("and", x, x, w) = x /\ Bitwise("or", x, x, w) = x
      /\ Bitwise("xor", x, x, w) = 0
      /\ Bitwise("or", 0, x, w) = x /\ Bitwise("or", x, 0, w) = x
      /\ Bitwise("xor", 0, x, w) = x /\ Bitwise("xor", x, 0, w) = x
      /\ Bitwise("or", 2 ^ w - 1, x, w) = 2 ^ w - 1
      /\ Bitwise("or", x, 2 ^ w - 1, w) = 2 ^ w - 1
  BY <1>1, BitwiseLaws
<1>4. \A op \in {"and", "or", "xor"} : \A p, q : Arith(op, p, q, w) = Bitwise(op, p, q, w)
  BY ArithBitwise
<1> QED
  BY <1>2, <1>3, <1>4

\* Where the operator gives back an operand, or a constant, that is what the
\* node means.
LEMMA Absorbs ==
    ASSUME NEW names, NEW u, NEW a, NEW z, NEW d, Means(a, names, u, z, d), Valued(d, z),
           NEW b, NEW y, NEW c, Means(b, names, u, y, c), Valued(c, y),
           NEW n, n.op \in Wrapping, NodeSize(n, <<z, y>>) # 0
    PROVE  /\ z = y /\ z \in Nat \ {0} /\ InWidth(d.v, z) /\ InWidth(c.v, z)
           /\ Arith(n.op, d.v, c.v, z) = d.v
                => Means(a, names, u, NodeSize(n, <<z, y>>), Computed(n, <<d, c>>))
           /\ Arith(n.op, d.v, c.v, z) = c.v
                => Means(b, names, u, NodeSize(n, <<z, y>>), Computed(n, <<d, c>>))
           /\ \A x : InWidth(x, z) /\ Arith(n.op, d.v, c.v, z) = x
                => Means(Const(x, z), names, u, NodeSize(n, <<z, y>>), Computed(n, <<d, c>>))
<1>1. /\ z = y /\ NodeSize(n, <<z, y>>) = z
      /\ Computed(n, <<d, c>>) = [w |-> z, v |-> Arith(n.op, d.v, c.v, z)]
  BY WrappingSizes
<1>2. /\ z \in Nat \ {0} /\ InWidth(d.v, z) /\ InWidth(c.v, z)
      /\ d = [w |-> z, v |-> d.v] /\ c = [w |-> z, v |-> c.v]
  BY <1>1 DEF Valued
<1>3. ASSUME NEW x, InWidth(x, z), Arith(n.op, d.v, c.v, z) = x
      PROVE  Means(Const(x, z), names, u, NodeSize(n, <<z, y>>), Computed(n, <<d, c>>))
  <2>1. Means(Const(x, z), names, u, z, [w |-> z, v |-> x])
    BY <1>2, <1>3, ConstMeans
  <2> QED
    BY <1>1, <1>3, <2>1
<1>4. Arith(n.op, d.v, c.v, z) = d.v
        => Means(a, names, u, NodeSize(n, <<z, y>>), Computed(n, <<d, c>>))
  BY <1>1, <1>2
<1>5. Arith(n.op, d.v, c.v, z) = c.v
        => Means(b, names, u, NodeSize(n, <<z, y>>), Computed(n, <<d, c>>))
  BY <1>1, <1>2
<1> QED
  BY <1>1, <1>2, <1>3, <1>4, <1>5

\* simplify_binary keeps the width and the value.
LEMMA FoldedMeans ==
    ASSUME NEW names, NEW u, \A k \in names : u[k] \in Nat,
           NEW a, NEW z, NEW d, Means(a, names, u, z, d),
           NEW b, NEW y, NEW c, Means(b, names, u, y, c),
           NEW n, Arity(n) = 2, NodeSize(n, <<z, y>>) # 0
    PROVE  Means(FoldBinary(n.op, a, b), names, u, NodeSize(n, <<z, y>>), Computed(n, <<d, c>>))
<1>1. z # 0 /\ y # 0
  BY BinarySize
<1>2. Valued(d, z) /\ Told(ExprBits(a), z) /\ Valued(c, y) /\ Told(ExprBits(b), y)
  BY <1>1, SizedIsValued
<1>3. PICK p : p = d.v
  OBVIOUS
<1>4. PICK q : q = c.v
  OBVIOUS
<1>5. PICK op : op = n.op
  OBVIOUS
<1>6. PICK s : s = NodeSize(n, <<z, y>>)
  OBVIOUS
<1>7. PICK e : e = Computed(n, <<d, c>>)
  OBVIOUS
<1> DEFINE Right(r) == Means(r, names, u, s, e)
<1>8. ASSUME op \in Wrapping
      PROVE  /\ z = y /\ z \in Nat \ {0} /\ InWidth(p, z) /\ InWidth(q, z)
             /\ Arith(op, p, q, z) = p => Right(a)
             /\ Arith(op, p, q, z) = q => Right(b)
             /\ \A x : InWidth(x, z) /\ Arith(op, p, q, z) = x => Right(Const(x, z))
  <2>1. n.op \in Wrapping
    BY <1>5, <1>8
  <2>2. /\ z = y /\ z \in Nat \ {0} /\ InWidth(d.v, z) /\ InWidth(c.v, z)
        /\ Arith(n.op, d.v, c.v, z) = d.v
             => Means(a, names, u, NodeSize(n, <<z, y>>), Computed(n, <<d, c>>))
        /\ Arith(n.op, d.v, c.v, z) = c.v
             => Means(b, names, u, NodeSize(n, <<z, y>>), Computed(n, <<d, c>>))
        /\ \A x : InWidth(x, z) /\ Arith(n.op, d.v, c.v, z) = x
             => Means(Const(x, z), names, u, NodeSize(n, <<z, y>>), Computed(n, <<d, c>>))
    BY <1>2, <2>1, Absorbs, ZenonT(60)
  <2> QED
    BY <1>3, <1>4, <1>5, <1>6, <1>7, <2>2
<1>9. ASSUME op \in {"eq", "ne"}
      PROVE  s = 1 /\ e = [w |-> 1, v |-> Flag(IF op = "eq" THEN p = q ELSE p # q)]
  BY <1>2, <1>3, <1>4, <1>5, <1>6, <1>7, <1>9, CompareSizes
<1>10. ASSUME IsConst(a)
       PROVE  a[1].bits = z /\ a[1].value = p /\ Masked(a) = p
  BY <1>1, <1>3, <1>10, ConstIs
<1>11. ASSUME IsConst(b)
       PROVE  b[1].bits = y /\ b[1].value = q /\ Masked(b) = q
  BY <1>1, <1>4, <1>11, ConstIs
<1>12. ASSUME Same(a, b) PROVE a = b /\ p = q /\ z = y
  <2>1. a = b
    BY <1>12, SameIsEqual, YieldsSequence DEF Means
  <2> QED
    BY <1>3, <1>4, <2>1 DEF Means
<1>13. \A t : Right(Const(Flag(t), 1)) <=> Means(Const(Flag(t), 1), names, u, s, e)
  OBVIOUS
<1>14. ASSUME NEW t PROVE Means(Const(Flag(t), 1), names, u, 1, [w |-> 1, v |-> Flag(t)])
  <2>1. PICK x : x = Flag(t)
    OBVIOUS
  <2>2. InWidth(x, 1) /\ 1 \in Nat \ {0}
    BY <2>1, FlagInWidth
  <2>3. Means(Const(x, 1), names, u, 1, [w |-> 1, v |-> x])
    BY <2>2, ConstMeans
  <2> QED
    BY <2>1, <2>3
<1>15. Right(Binary(op, a, b))
  BY <1>5, <1>6, <1>7, BinaryMeans
<1>16. ASSUME op \in {"add", "sub", "mul", "and", "or", "xor"} PROVE op \in Wrapping
  BY <1>16 DEF Wrapping
<1> HIDE DEF Right
<1>17. ASSUME IsConst(a), IsConst(b), op \in {"add", "sub", "mul", "and", "or", "xor", "eq", "ne"}
       PROVE  Right(FoldConstants(op, a, b))
  <2>1. CASE op \in {"eq", "ne"}
    <3>1. PICK t : t = IF op = "eq" THEN p = q ELSE p # q
      OBVIOUS
    <3>2. Compares(op, p, q, Larger(z, y)) <=> (IF op = "eq" THEN p = q ELSE p # q)
      BY <2>1 DEF Compares
    <3>3. Flag(Compares(op, p, q, Larger(z, y))) = Flag(t)
      BY <3>1, <3>2 DEF Flag
    <3>4. op \in Relations
      BY <2>1 DEF Relations
    <3>5. FoldConstants(op, a, b) = Const(Flag(t), 1)
      BY <1>10, <1>11, <1>17, <3>3, <3>4 DEF FoldConstants
    <3>6. s = 1 /\ e = [w |-> 1, v |-> Flag(t)]
      BY <1>9, <2>1, <3>1
    <3> QED
      BY <1>14, <3>5, <3>6 DEF Right
  <2>2. CASE op \in {"add", "sub", "mul", "and", "or", "xor"}
    <3>1. op \in Wrapping /\ op \notin Relations
      BY <2>2 DEF Wrapping, Relations
    <3>2. z = y /\ z \in Nat \ {0} /\ InWidth(p, z) /\ InWidth(q, z)
      BY <1>8, <3>1
    <3>3. Larger(z, y) = z
      BY <3>2 DEF Larger
    <3>4. PICK x : x = Arith(op, p, q, z)
      OBVIOUS
    <3>5. InWidth(x, z)
      BY <3>1, <3>2, <3>4, ArithInWidth
    <3>6. FoldConstants(op, a, b) = Const(x, z)
      BY <1>10, <1>11, <1>17, <3>1, <3>3, <3>4 DEF FoldConstants
    <3> QED
      BY <1>8, <3>1, <3>4, <3>5, <3>6
  <2> QED
    BY <1>17, <2>1, <2>2
<1>18. ASSUME op \in {"add", "or", "xor"}, Is(a, 0) PROVE Right(b)
  <2>1. p = 0
    BY <1>10, <1>18 DEF Is
  <2> QED
    BY <1>8, <1>16, <1>18, <2>1, FoldingLaws
<1>19. ASSUME op \in {"add", "sub", "or", "xor"}, Is(b, 0) PROVE Right(a)
  <2>1. q = 0
    BY <1>11, <1>19 DEF Is
  <2> QED
    BY <1>8, <1>16, <1>19, <2>1, FoldingLaws
<1>20. ASSUME op \in {"mul", "and"}, Is(a, 0) PROVE Right(a)
  <2>1. p = 0
    BY <1>10, <1>20 DEF Is
  <2> QED
    BY <1>8, <1>16, <1>20, <2>1, FoldingLaws
<1>21. ASSUME op \in {"mul", "and"}, Is(b, 0) PROVE Right(b)
  <2>1. q = 0
    BY <1>11, <1>21 DEF Is
  <2> QED
    BY <1>8, <1>16, <1>21, <2>1, FoldingLaws
<1>22. ASSUME op = "mul", Is(a, 1) PROVE Right(b)
  <2>1. p = 1
    BY <1>10, <1>22 DEF Is
  <2> QED
    BY <1>8, <1>16, <1>22, <2>1, FoldingLaws
<1>23. ASSUME op = "mul", Is(b, 1) PROVE Right(a)
  <2>1. q = 1
    BY <1>11, <1>23 DEF Is
  <2> QED
    BY <1>8, <1>16, <1>23, <2>1, FoldingLaws
<1>24. ASSUME op = "or", Covers(a, b) PROVE Right(a)
  <2>1. p = 2 ^ z - 1
    BY <1>10, <1>24 DEF Covers, AllOnes
  <2> QED
    BY <1>8, <1>16, <1>24, <2>1, FoldingLaws
<1>25. ASSUME op = "or", Covers(b, a) PROVE Right(b)
  <2>1. q = 2 ^ y - 1
    BY <1>11, <1>25 DEF Covers, AllOnes
  <2> QED
    BY <1>8, <1>16, <1>25, <2>1, FoldingLaws
<1>26. ASSUME op \in {"and", "or"}, Same(a, b) PROVE Right(a)
  BY <1>8, <1>12, <1>16, <1>26, FoldingLaws
<1>27. ASSUME op \in {"sub", "xor"}, Same(a, b), ExprBits(a) # 0 PROVE Right(Const(0, ExprBits(a)))
  <2>1. ExprBits(a) = z
    BY <1>2, <1>27 DEF Told
  <2>2. z \in Nat \ {0} /\ InWidth(p, z) /\ p = q
    BY <1>8, <1>12, <1>16, <1>27
  <2>3. InWidth(0, z)
    BY <2>2, AllOnesInWidth
  <2>4. Arith(op, p, q, z) = 0
    BY <1>27, <2>2, FoldingLaws
  <2> QED
    BY <1>8, <1>16, <1>27, <2>1, <2>3, <2>4
<1>28. ASSUME op \in {"eq", "ne"}, Same(a, b) PROVE Right(Const(Flag(op = "eq"), 1))
  <2>1. Flag(IF op = "eq" THEN p = q ELSE p # q) = Flag(op = "eq")
    BY <1>12, <1>28 DEF Flag
  <2> QED
    BY <1>9, <1>14, <1>28, <2>1 DEF Right
<1>29. Right(FoldBinary(op, a, b))
  BY <1>15, <1>17, <1>18, <1>19, <1>20, <1>21, <1>22, <1>23, <1>24, <1>25, <1>26, <1>27, <1>28
     DEF FoldBinary
<1> QED
  BY <1>5, <1>6, <1>7, <1>29 DEF Right

----------------------------------------------------------------------------
(* An ite, and every expression.                                            *)

\* An ite is a node over its three operands.
LEMMA IteIsOver ==
    ASSUME NEW c, IsSequence(c), NEW a, IsSequence(a), NEW b, IsSequence(b)
    PROVE  Ite(c, a, b) = Over(Upon(Upon(c, a), b), [op |-> "ite"])
<1>1. PICK e : e = c \o a
  OBVIOUS
<1>2. IsSequence(e) /\ e = Upon(c, a)
  BY <1>1, Concatenated DEF Upon
<1>3. PICK f : f = e \o b
  OBVIOUS
<1>4. IsSequence(f) /\ f = Upon(e, b)
  BY <1>2, <1>3, Concatenated DEF Upon
<1>5. PICK n : n = [op |-> "ite"]
  OBVIOUS
<1>6. f \o <<n>> = Over(f, n)
  BY <1>4, AppendIsOver
<1> QED
  BY <1>1, <1>2, <1>3, <1>4, <1>5, <1>6 DEF Ite

\* An ite is no more than its operator.
LEMMA BareIte ==
    ASSUME NEW n, n.op = "ite", NEW m, m = [op |-> "ite"]
    PROVE  /\ Arity(m) = 3
           /\ \A x, z, y : NodeSize(m, <<x, z, y>>) = NodeSize(n, <<x, z, y>>)
           /\ \A e, d, c : Computed(m, <<e, d, c>>) = Computed(n, <<e, d, c>>)
<1>1. m.op = "ite"
  OBVIOUS
<1>2. Arity(m) = 3
  BY <1>1 DEF Arity, Leaves
<1>3. \A x, z, y : NodeSize(m, <<x, z, y>>) = NodeSize(n, <<x, z, y>>)
  BY <1>1 DEF NodeSize, Relations, Wrapping
<1>4. \A e, d, c : Computed(m, <<e, d, c>>) = Computed(n, <<e, d, c>>)
  BY <1>1 DEF Computed
<1> QED
  BY <1>2, <1>3, <1>4

\* An ite of simplified operands means what it meant.
LEMMA IteRebuilt ==
    ASSUME NEW names, NEW u, \A k \in names : u[k] \in Nat,
           NEW g, NEW x, NEW e, Means(g, names, u, x, e),
           NEW a, NEW z, NEW d, Means(a, names, u, z, d),
           NEW b, NEW y, NEW c, Means(b, names, u, y, c),
           NEW n, Arity(n) = 3, NodeSize(n, <<x, z, y>>) # 0
    PROVE  Means(Rebuilt(n, <<g, a, b>>), names, u, NodeSize(n, <<x, z, y>>),
             Computed(n, <<e, d, c>>))
<1>1. n.op = "ite" /\ x # 0 /\ z # 0 /\ y # 0
  BY IteSize
<1>2. Valued(e, x) /\ Valued(d, z) /\ Valued(c, y)
  BY <1>1, SizedIsValued
<1>3. /\ z = y /\ NodeSize(n, <<x, z, y>>) = z
      /\ Computed(n, <<e, d, c>>) = [w |-> z, v |-> IF e.v # 0 THEN d.v ELSE c.v]
  BY <1>2, IteValued
<1>4. d = [w |-> z, v |-> d.v] /\ c = [w |-> z, v |-> c.v]
  BY <1>2, <1>3 DEF Valued
<1>5. Rebuilt(n, <<g, a, b>>) = FoldIte(g, a, b)
  BY <1>1 DEF Rebuilt
<1>6. CASE IsConst(g)
  <2>1. g[1].value = e.v
    BY <1>1, <1>6, ConstIs
  <2>2. CASE e.v = 0
    <3>1. FoldIte(g, a, b) = b /\ Computed(n, <<e, d, c>>) = c
      BY <1>3, <1>4, <1>6, <2>1, <2>2 DEF FoldIte
    <3> QED
      BY <1>3, <1>5, <3>1
  <2>3. CASE e.v # 0
    <3>1. FoldIte(g, a, b) = a /\ Computed(n, <<e, d, c>>) = d
      BY <1>3, <1>4, <1>6, <2>1, <2>3 DEF FoldIte
    <3> QED
      BY <1>3, <1>5, <3>1
  <2> QED
    BY <2>2, <2>3
<1>7. CASE ~IsConst(g)
  <2>1. PICK m : m = [op |-> "ite"]
    OBVIOUS
  <2>2. Arity(m) = 3
    BY <1>1, <2>1, BareIte
  <2>3. Means(Over(Upon(Upon(g, a), b), m), names, u, NodeSize(m, <<x, z, y>>),
          Computed(m, <<e, d, c>>))
    BY <2>2, MeansBuilt
  <2>4. /\ NodeSize(m, <<x, z, y>>) = NodeSize(n, <<x, z, y>>)
        /\ Computed(m, <<e, d, c>>) = Computed(n, <<e, d, c>>)
    BY <1>1, <2>1, BareIte
  <2>5. IsSequence(g) /\ IsSequence(a) /\ IsSequence(b)
    BY YieldsSequence DEF Means
  <2>6. FoldIte(g, a, b) = Over(Upon(Upon(g, a), b), m)
    BY <1>7, <2>1, <2>5, IteIsOver DEF FoldIte
  <2> QED
    BY <1>5, <2>3, <2>4, <2>6
<1> QED
  BY <1>6, <1>7

\* A node over two simplified operands means what it meant.
LEMMA BinaryRebuilt ==
    ASSUME NEW names, NEW u, \A k \in names : u[k] \in Nat,
           NEW a, NEW z, NEW d, Means(a, names, u, z, d),
           NEW b, NEW y, NEW c, Means(b, names, u, y, c),
           NEW n, Arity(n) = 2, NodeSize(n, <<z, y>>) # 0
    PROVE  Means(Rebuilt(n, <<a, b>>), names, u, NodeSize(n, <<z, y>>), Computed(n, <<d, c>>))
<1>1. Rebuilt(n, <<a, b>>) = FoldBinary(n.op, a, b)
  BY DEF Rebuilt, Arity, Leaves
<1> QED
  BY <1>1, FoldedMeans

\* simplify_expr keeps the width and the value of an expression.
THEOREM SimplifyMeans ==
    ASSUME NEW names, NEW u, \A k \in names : u[k] \in Nat,
           NEW e, NEW z, NEW d, Means(e, names, u, z, d), z # 0
    PROVE  Means(Simplify(e), names, u, z, d)
<1> DEFINE T == {e[i] : i \in 1..Len(e)}
           Kept(f) == Size(f) # 0 => Means(Simplify(f), names, u, Size(f), Denote(f, u))
           S == {f \in Trees(T) : Kept(f)}
<1>1. Yields(e, 1) /\ IsSequence(e) /\ Closed(e, names) /\ Size(e) = z /\ Denote(e, u) = d
  BY YieldsSequence DEF Means
<1>2. \A n \in T : KnownNode(n, names)
  BY <1>1, ClosedNodes
<1>3. e \in Trees(T)
  <2>1. \A i \in 1..Len(e) : e[i] \in T
    OBVIOUS
  <2> HIDE DEF T
  <2> QED
    BY <1>1, <2>1, TreesAre DEF Nodes
<1> HIDE DEF T
<1>4. \A f \in Trees(T) : Yields(f, 1)
  BY TreesAre
<1>5. ASSUME NEW n \in T, Arity(n) = 0, <<n>> \in Trees(T) PROVE <<n>> \in S
  <2>1. Simplify(<<n>>) = <<n>>
    <3>1. Simplify(<<n>>) = Rebuilt(n, <<>>)
      BY <1>5, Simplifies
    <3>2. Rebuilt(n, <<>>) = <<n>>
      BY <1>5 DEF Rebuilt, Arity, Leaves
    <3> QED
      BY <3>1, <3>2
  <2>2. Means(<<n>>, names, u, NodeSize(n, <<>>), Computed(Grounded(n, u), <<>>))
    BY <1>2, <1>5, MeansBuilt
  <2>3. Kept(<<n>>)
    BY <2>1, <2>2 DEF Means
  <2> QED
    BY <1>5, <2>3
<1>6. ASSUME NEW n \in T, Arity(n) = 1, NEW a \in S \cap Trees(T), Over(a, n) \in Trees(T)
      PROVE  Over(a, n) \in S
  <2>1. /\ Size(Over(a, n)) = NodeSize(n, <<Size(a)>>)
        /\ Denote(Over(a, n), u) = Computed(n, <<Denote(a, u)>>)
        /\ Simplify(Over(a, n)) = Rebuilt(n, <<Simplify(a)>>)
    BY <1>4, <1>6, Sizes, Denotations, Simplifies
  <2>2. Kept(Over(a, n))
    <3> SUFFICES ASSUME NodeSize(n, <<Size(a)>>) # 0 PROVE Kept(Over(a, n))
      BY <2>1
    <3>1. Size(a) # 0
      BY <1>6, UnarySize
    <3>2. Means(Simplify(a), names, u, Size(a), Denote(a, u))
      BY <1>6, <3>1
    <3>3. Means(Rebuilt(n, <<Simplify(a)>>), names, u,
                NodeSize(n, <<Size(a)>>), Computed(n, <<Denote(a, u)>>))
      BY <1>6, <3>2, UnaryRebuilt
    <3> QED
      BY <2>1, <3>3
  <2> QED
    BY <1>6, <2>2
<1>7. ASSUME NEW n \in T, Arity(n) = 2, NEW a \in S \cap Trees(T), NEW b \in S \cap Trees(T),
             Over(Upon(a, b), n) \in Trees(T)
      PROVE  Over(Upon(a, b), n) \in S
  <2>1. /\ Size(Over(Upon(a, b), n)) = NodeSize(n, <<Size(a), Size(b)>>)
        /\ Denote(Over(Upon(a, b), n), u) = Computed(n, <<Denote(a, u), Denote(b, u)>>)
        /\ Simplify(Over(Upon(a, b), n)) = Rebuilt(n, <<Simplify(a), Simplify(b)>>)
    BY <1>4, <1>7, Sizes, Denotations, Simplifies
  <2>2. Kept(Over(Upon(a, b), n))
    <3> SUFFICES ASSUME NodeSize(n, <<Size(a), Size(b)>>) # 0 PROVE Kept(Over(Upon(a, b), n))
      BY <2>1
    <3>1. Size(a) # 0 /\ Size(b) # 0
      BY <1>7, BinarySize
    <3>2. /\ Means(Simplify(a), names, u, Size(a), Denote(a, u))
          /\ Means(Simplify(b), names, u, Size(b), Denote(b, u))
      BY <1>7, <3>1
    <3>3. Means(Rebuilt(n, <<Simplify(a), Simplify(b)>>), names, u,
                NodeSize(n, <<Size(a), Size(b)>>), Computed(n, <<Denote(a, u), Denote(b, u)>>))
      BY <1>7, <3>2, BinaryRebuilt
    <3> QED
      BY <2>1, <3>3
  <2> QED
    BY <1>7, <2>2
<1>8. ASSUME NEW n \in T, Arity(n) = 3, NEW a \in S \cap Trees(T), NEW b \in S \cap Trees(T),
             NEW c \in S \cap Trees(T), Over(Upon(Upon(a, b), c), n) \in Trees(T)
      PROVE  Over(Upon(Upon(a, b), c), n) \in S
  <2>1. /\ Size(Over(Upon(Upon(a, b), c), n)) = NodeSize(n, <<Size(a), Size(b), Size(c)>>)
        /\ Denote(Over(Upon(Upon(a, b), c), n), u)
             = Computed(n, <<Denote(a, u), Denote(b, u), Denote(c, u)>>)
        /\ Simplify(Over(Upon(Upon(a, b), c), n))
             = Rebuilt(n, <<Simplify(a), Simplify(b), Simplify(c)>>)
    BY <1>4, <1>8, Sizes, Denotations, Simplifies
  <2>2. Kept(Over(Upon(Upon(a, b), c), n))
    <3> SUFFICES ASSUME NodeSize(n, <<Size(a), Size(b), Size(c)>>) # 0
                 PROVE  Kept(Over(Upon(Upon(a, b), c), n))
      BY <2>1
    <3>1. Size(a) # 0 /\ Size(b) # 0 /\ Size(c) # 0
      BY <1>8, IteSize
    <3>2. /\ Means(Simplify(a), names, u, Size(a), Denote(a, u))
          /\ Means(Simplify(b), names, u, Size(b), Denote(b, u))
          /\ Means(Simplify(c), names, u, Size(c), Denote(c, u))
      BY <1>8, <3>1
    <3>3. Means(Rebuilt(n, <<Simplify(a), Simplify(b), Simplify(c)>>), names, u,
                NodeSize(n, <<Size(a), Size(b), Size(c)>>),
                Computed(n, <<Denote(a, u), Denote(b, u), Denote(c, u)>>))
      BY <1>8, <3>2, IteRebuilt
    <3> QED
      BY <2>1, <3>3
  <2> QED
    BY <1>8, <2>2
<1>9. \A f \in Trees(T) : f \in S
  <2> HIDE DEF S
  <2> QED
    BY <1>5, <1>6, <1>7, <1>8, TreeInduction
<1>10. Kept(e)
  BY <1>3, <1>9
<1> QED
  BY <1>1, <1>10

----------------------------------------------------------------------------
(* Renaming and inlining keep what an expression means.                     *)

\* A leaf is of one width whatever stands below it, unless that is of none.
LEMMA LeafSizeAny ==
    ASSUME NEW n, n.op \in Leaves, NEW q
    PROVE  NodeSize(n, q) = IF \E k \in DOMAIN q : q[k] = 0 THEN 0 ELSE NodeSize(n, <<>>)
<1>1. ~\E k \in DOMAIN <<>> : <<>>[k] = 0
  OBVIOUS
<1>2. CASE n.op = "var"
  BY <1>1, <1>2 DEF NodeSize, Relations, Wrapping
<1>3. CASE n.op = "const"
  BY <1>1, <1>3 DEF NodeSize, Relations, Wrapping
<1>4. CASE n.op = "unknown"
  BY <1>1, <1>4 DEF NodeSize, Relations, Wrapping
<1> QED
  BY <1>2, <1>3, <1>4 DEF Leaves

\* So it is with its value.
LEMMA LeafValueAny ==
    ASSUME NEW n, n.op \in Leaves, NEW u, NEW q
    PROVE  Computed(Grounded(n, u), q) = Computed(Grounded(n, u), <<>>)
<1>1. Grounded(n, u).op = "const"
  BY DEF Grounded, IsVar, Literal, Leaves
<1>2. PICK g : g = Grounded(n, u)
  OBVIOUS
<1>3. g.op = "const"
  BY <1>1, <1>2
<1>4. Computed(g, q) = Computed(g, <<>>)
  BY <1>3 DEF Computed
<1> QED
  BY <1>2, <1>4

\* The leaves are the nodes without operands.
LEMMA LeafOps == \A n : Arity(n) = 0 <=> n.op \in Leaves
BY DEF Arity, Leaves

\* Two leaves that an expression may read one for the other.
Interchanged(m, n, names, u) ==
    /\ Arity(m) = 0 /\ Arity(n) = 0 /\ KnownNode(m, names)
    /\ NodeSize(m, <<>>) = NodeSize(n, <<>>)
    /\ Computed(Grounded(m, u), <<>>) = Computed(Grounded(n, u), <<>>)

\* An expression means what it meant when its leaves are replaced by leaves
\* that mean the same.
LEMMA InterchangedMeans ==
    ASSUME NEW e, NEW names, NEW u, NEW z, NEW d, Means(e, names, u, z, d),
           NEW f, IsSequence(f), Len(f) = Len(e),
           \A i \in 1..Len(e) : f[i] = e[i] \/ Interchanged(f[i], e[i], names, u)
    PROVE  Means(f, names, u, z, d)
<1>1. Yields(e, 1) /\ IsSequence(e) /\ Closed(e, names) /\ Size(e) = z /\ Denote(e, u) = d
  BY YieldsSequence DEF Means
<1>2. ASSUME NEW i \in 1..Len(e)
      PROVE  /\ Arity(f[i]) = Arity(e[i]) /\ KnownNode(f[i], names)
             /\ \A q : NodeSize(f[i], q) = NodeSize(e[i], q)
             /\ \A q : Computed(Grounded(f[i], u), q) = Computed(Grounded(e[i], u), q)
  <2>1. KnownNode(e[i], names)
    BY <1>1, ClosedNodes
  <2>2. CASE f[i] = e[i]
    BY <2>1, <2>2
  <2>3. CASE Interchanged(f[i], e[i], names, u)
    <3>1. PICK m, n : m = f[i] /\ n = e[i]
      OBVIOUS
    <3>2. Interchanged(m, n, names, u)
      BY <2>3, <3>1
    <3>3. m.op \in Leaves /\ n.op \in Leaves
      BY <3>2, LeafOps DEF Interchanged
    <3>4. \A q : NodeSize(m, q) = NodeSize(n, q)
      BY <3>2, <3>3, LeafSizeAny DEF Interchanged
    <3>5. \A q : Computed(Grounded(m, u), q) = Computed(Grounded(n, u), q)
      BY <3>2, <3>3, LeafValueAny DEF Interchanged
    <3> QED
      BY <3>1, <3>2, <3>4, <3>5 DEF Interchanged
  <2> QED
    BY <1>2, <2>2, <2>3
<1>3. \A n, q : Makes(OfSize, n, q) = NodeSize(n, q)
  BY DEF Makes, OfSize
<1>4. \A n, q : Makes(OfDenote(u), n, q) = Computed(Grounded(n, u), q)
  BY DEF Makes, OfDenote
<1>5. Yields(f, 1) /\ Comes(OfSize, f) = Comes(OfSize, e)
  <2>1. PICK k : k = OfSize
    OBVIOUS
  <2>2. \A i \in 1..Len(e) : /\ Arity(f[i]) = Arity(e[i])
                             /\ \A q : Makes(k, f[i], q) = Makes(k, e[i], q)
    BY <1>2, <1>3, <2>1
  <2> QED
    BY <1>1, <2>1, <2>2, SameFold, ZenonT(60)
<1>6. Comes(OfDenote(u), f) = Comes(OfDenote(u), e)
  <2>1. PICK k : k = OfDenote(u)
    OBVIOUS
  <2>2. \A i \in 1..Len(e) : /\ Arity(f[i]) = Arity(e[i])
                             /\ \A q : Makes(k, f[i], q) = Makes(k, e[i], q)
    BY <1>2, <1>4, <2>1
  <2> QED
    BY <1>1, <2>1, <2>2, SameFold
<1>7. Size(f) = Size(e)
  BY <1>1, <1>5, SizeComes
<1>8. Denote(f, u) = Denote(e, u)
  BY <1>1, <1>5, <1>6, DenoteComes
<1>9. Closed(f, names)
  BY <1>2, ClosedNodes
<1> QED
  BY <1>1, <1>5, <1>7, <1>8, <1>9 DEF Means

\* What a name may be replaced with: a leaf of its width that holds what it does.
Replaces(m, n, names, u) ==
    /\ m.op \in {"var", "const"} /\ KnownNode(m, names)
    /\ n[1] \in Registers
    /\ NodeSize(m, <<>>) = Width[n[1]]
    /\ Computed(Grounded(m, u), <<>>) = [w |-> Width[n[1]], v |-> u[n]]

\* A leaf that replaces a name means what the name does.
LEMMA ReplacedLeaf ==
    ASSUME NEW names, NEW u, \A k \in names : u[k] \in Nat,
           NEW e, IsVar(e), NodeSize(e, <<>>) # 0,
           NEW m, Replaces(m, e.name, names, u)
    PROVE  Interchanged(m, e, names, u)
<1>1. Arity(e) = 0 /\ Arity(m) = 0
  BY DEF Arity, Leaves, IsVar, Replaces
<1>2. e.name[1] \in Registers /\ e.bits = Width[e.name[1]] /\ NodeSize(e, <<>>) = e.bits
  BY <1>1, LeafSize DEF IsVar
<1>3. PICK b \in Nat \ {0} : b = Width[e.name[1]]
  BY <1>2, WidthsAssumption
<1>4. PICK x : x = u[e.name]
  OBVIOUS
<1>5. PICK g : g = Computed(Grounded(m, u), <<>>)
  OBVIOUS
<1>6. g = [w |-> b, v |-> x]
  BY <1>3, <1>4, <1>5 DEF Replaces
<1>7. Valued(g, b)
  <2>1. NodeSize(m, <<>>) = b /\ KnownNode(m, names) /\ b # 0
    BY <1>3 DEF Replaces
  <2> QED
    BY <1>1, <1>5, <2>1, LeafValued
<1>8. InWidth(x, b)
  BY <1>6, <1>7 DEF Valued
<1>9. x % 2 ^ b = x
  BY <1>8, WithinItsWidth
<1>10. Grounded(e, u) = Literal(x % 2 ^ b, b)
  BY <1>2, <1>3, <1>4 DEF Grounded
<1>11. Computed(Grounded(e, u), <<>>) = [w |-> b, v |-> (x % 2 ^ b) % 2 ^ b]
  BY <1>10 DEF Computed, Literal
<1>12. Computed(Grounded(e, u), <<>>) = g
  BY <1>6, <1>9, <1>11
<1>13. NodeSize(m, <<>>) = NodeSize(e, <<>>)
  BY <1>2 DEF Replaces
<1> QED
  BY <1>1, <1>5, <1>12, <1>13 DEF Interchanged, Replaces

\* Substitution keeps the width and the value.
THEOREM SubstituteMeans ==
    ASSUME NEW names, NEW u, \A k \in names : u[k] \in Nat,
           NEW e, NEW z, NEW d, Means(e, names, u, z, d), z # 0,
           NEW map, \A n \in DOMAIN map : Replaces(map[n], n, names, u)
    PROVE  Means(Substitute(e, map), names, u, z, d)
<1>1. Yields(e, 1) /\ IsSequence(e) /\ Size(e) # 0
  BY YieldsSequence DEF Means
<1>2. PICK m \in Nat : m = Len(e) /\ DOMAIN e = 1..m
  BY <1>1, Lengths
<1> DEFINE f == [i \in 1..m |-> IF IsVar(e[i]) /\ e[i].name \in DOMAIN map THEN map[e[i].name]
             ELSE e[i]]
<1>3. Substitute(e, map) = f
  BY <1>2 DEF Substitute
<1>4. \A i \in 1..m : f[i] = IF IsVar(e[i]) /\ e[i].name \in DOMAIN map THEN map[e[i].name]
        ELSE e[i]
  OBVIOUS
<1>5. f = [i \in 1..m |-> f[i]]
  OBVIOUS
<1> HIDE DEF f
<1>6. IsSequence(f) /\ Len(f) = m
  BY <1>5, Mapped
<1>7. ASSUME NEW i \in 1..m PROVE f[i] = e[i] \/ Interchanged(f[i], e[i], names, u)
  <2>1. CASE IsVar(e[i]) /\ e[i].name \in DOMAIN map
    <3>1. PICK n : n = e[i]
      OBVIOUS
    <3>2. Arity(n) = 0
      BY <2>1, <3>1 DEF Arity, Leaves, IsVar
    <3>3. NodeSize(n, <<>>) # 0
      BY <1>1, <1>2, <3>1, <3>2, SizedLeaves
    <3>4. f[i] = map[n.name] /\ IsVar(n) /\ Replaces(map[n.name], n.name, names, u)
      BY <1>4, <1>7, <2>1, <3>1
    <3>5. Interchanged(f[i], n, names, u)
      BY <3>3, <3>4, ReplacedLeaf
    <3> QED
      BY <3>1, <3>5
  <2>2. CASE ~(IsVar(e[i]) /\ e[i].name \in DOMAIN map)
    BY <1>4, <1>7, <2>2
  <2> QED
    BY <2>1, <2>2
<1> QED
  BY <1>2, <1>3, <1>6, <1>7, InterchangedMeans

\* The renamer keeps the width: a name's width is its register's.
LEMMA RenameSize ==
    ASSUME NEW e, Lifted(e), Yields(e, 1)
    PROVE  Size(Rename(e)) = Size(e)
<1>1. IsSequence(e)
  BY YieldsSequence
<1>2. PICK m \in Nat : m = Len(e) /\ DOMAIN e = 1..m
  BY <1>1, Lengths
<1> DEFINE f == [i \in 1..m |-> IF IsVar(e[i]) THEN Variable(Named(e[i].name[1]), e[i].bits)
             ELSE e[i]]
<1>3. Rename(e) = f
  BY <1>2 DEF Rename
<1>4. \A i \in 1..m : f[i] = IF IsVar(e[i]) THEN Variable(Named(e[i].name[1]), e[i].bits) ELSE e[i]
  OBVIOUS
<1>5. f = [i \in 1..m |-> f[i]]
  OBVIOUS
<1> HIDE DEF f
<1>6. IsSequence(f) /\ Len(f) = m
  BY <1>5, Mapped
<1>7. ASSUME NEW i \in 1..m
      PROVE  Arity(f[i]) = Arity(e[i]) /\ \A q : NodeSize(f[i], q) = NodeSize(e[i], q)
  <2>1. CASE IsVar(e[i])
    <3>1. PICK n, g : n = e[i] /\ g = f[i]
      OBVIOUS
    <3>2. PICK x \in Registers : n = Variable(Plain(x), n.bits)
      BY <1>2, <2>1, <3>1 DEF Lifted
    <3>3. n.op = "var" /\ n.name[1] = x
      BY <3>2 DEF Variable, Plain
    <3>4. g = Variable(Named(x), n.bits)
      BY <1>4, <2>1, <3>1, <3>3
    <3>5. g.op = "var" /\ g.name[1] = x /\ g.bits = n.bits
      BY <3>4 DEF Variable, Named
    <3>6. g.op \in Leaves /\ n.op \in Leaves
      BY <3>3, <3>5 DEF Leaves
    <3>7. NodeSize(g, <<>>) = NodeSize(n, <<>>)
      BY <3>3, <3>5 DEF NodeSize, Relations, Wrapping
    <3>8. \A q : NodeSize(g, q) = NodeSize(n, q)
      BY <3>6, <3>7, LeafSizeAny
    <3> QED
      BY <3>1, <3>6, <3>8, LeafOps
  <2>2. CASE ~IsVar(e[i])
    BY <1>4, <2>2
  <2> QED
    BY <2>1, <2>2
<1>8. \A n, q : Makes(OfSize, n, q) = NodeSize(n, q)
  BY DEF Makes, OfSize
<1>9. PICK k : k = OfSize
  OBVIOUS
<1>10. \A i \in 1..m : Arity(f[i]) = Arity(e[i]) /\ \A q : Makes(k, f[i], q) = Makes(k, e[i], q)
  BY <1>7, <1>8, <1>9
<1>11. Yields(f, 1) /\ Comes(k, f) = Comes(k, e)
  BY <1>2, <1>6, <1>10, SameFold
<1> QED
  BY <1>3, <1>9, <1>11, SizeComes

----------------------------------------------------------------------------
(* The term for an expression has its value.                                *)

\* A term of a width that has the value d.
Tells(backend, t, z, d) ==
    /\ OfWidth(t, z) /\ Valued(d, z) /\ t.v = d.v
    /\ backend = "text" => t.w = z

\* What a term that tells a value is, as a bit vector and as a Boolean.
LEMMA TellsIs ==
    ASSUME NEW backend, NEW t, NEW z, NEW d, Tells(backend, t, z, d)
    PROVE  /\ IsTerm(t) /\ AsBv(t).w = z /\ AsBv(t).v = d.v /\ t.v = d.v
           /\ z \in Nat \ {0} /\ d = [w |-> z, v |-> d.v] /\ InWidth(d.v, z)
           /\ AsBool(t).v = Flag(d.v # 0)
<1>1. OfWidth(t, z) /\ Valued(d, z) /\ t.v = d.v
  BY DEF Tells
<1>2. IsTerm(t) /\ AsBv(t).w = z /\ z \in Nat \ {0}
  BY <1>1, TermOfWidth
<1>3. z \in Nat \ {0} /\ d = [w |-> z, v |-> d.v] /\ InWidth(d.v, z)
  BY <1>1 DEF Valued
<1>4. AsBool(t).v = Flag(d.v # 0)
  <2>1. CASE t.w > 0
    <3>1. AsBool(t) = Term(0, Flag(t.v # 0))
      BY <2>1 DEF AsBool
    <3> QED
      BY <1>1, <3>1 DEF Term
  <2>2. CASE ~(t.w > 0)
    <3>1. AsBool(t) = t
      BY <2>2 DEF AsBool
    <3>2. z = 1
      BY <1>1, <1>2, <2>2 DEF OfWidth
    <3>3. InWidth(d.v, 1)
      BY <1>3, <3>2
    <3>4. d.v \in {0, 1}
      BY <3>3, TwoToOne DEF InWidth
    <3> QED
      BY <1>1, <3>1, <3>4 DEF Flag
  <2> QED
    BY <2>1, <2>2
<1>5. AsBv(t).v = d.v
  <2>1. CASE t.w = 0
    BY <1>1, <1>2, <2>1 DEF AsBv, Term, OfWidth
  <2>2. CASE t.w # 0
    <3>1. AsBv(t) = t
      BY <2>2 DEF AsBv
    <3> QED
      BY <1>1, <1>2, <3>1 DEF OfWidth
  <2> QED
    BY <2>1, <2>2
<1> QED
  BY <1>1, <1>2, <1>3, <1>4, <1>5

\* The text backend writes the same value.
LEMMA TextTells ==
    ASSUME NEW backend, NEW t, NEW z, OfWidth(t, z), NEW x, t.v = x
    PROVE  LET r == OfText(backend, t) IN r.v = x /\ (backend = "text" => r.w = z)
<1>1. IsTerm(t) /\ AsBv(t).w = z
  BY TermOfWidth
<1>2. AsBv(t).v = x
  BY DEF AsBv, Term
<1> QED
  BY <1>1, <1>2 DEF OfText

\* The term for a leaf has the leaf's value.
LEMMA LeafTells ==
    ASSUME NEW backend \in Backends, NEW D, NEW n, Arity(n) = 0, DeclaredRight(n, D),
           NodeSize(n, <<>>) # 0, NEW names, KnownNode(n, names), NEW u,
             \A k \in names : u[k] \in Nat
    PROVE  Tells(backend, EncodedNode(backend, n, <<>>, D, u), NodeSize(n, <<>>),
                 Computed(Grounded(n, u), <<>>))
<1>1. PICK t : t = EncodedNode(backend, n, <<>>, D, u)
  OBVIOUS
<1>2. PICK z, d : z = NodeSize(n, <<>>) /\ d = Computed(Grounded(n, u), <<>>)
  OBVIOUS
<1>3. OfWidth(t, z)
  BY <1>1, <1>2, LeafEncodes
<1>4. Valued(d, z)
  BY <1>2, LeafValued
<1>5. ~(\E k \in DOMAIN <<>> : ~IsTerm(<<>>[k]))
  OBVIOUS
<1>6. CASE n.op = "var"
  <2>1. /\ n.name[1] \in Registers /\ n.bits = Width[n.name[1]] /\ z = n.bits
        /\ n.name \in names /\ n.name \in DOMAIN D /\ D[n.name] = n.bits
    BY <1>2, <1>6, LeafSize DEF DeclaredRight, KnownNode, IsVar
  <2>2. PICK x, w : x = u[n.name] /\ w = n.bits
    OBVIOUS
  <2>3. x \in Nat /\ w \in Nat
    BY <2>1, <2>2, WidthsAssumption
  <2>4. t = Term(w, x % 2 ^ w)
    BY <1>1, <1>5, <1>6, <2>1, <2>2 DEF EncodedNode, Symbol
  <2>5. Grounded(n, u) = Literal(x % 2 ^ w, w)
    BY <1>6, <2>2 DEF Grounded, IsVar
  <2>6. PICK y : y = x % 2 ^ w
    OBVIOUS
  <2>7. y % 2 ^ w = y
    <3>1. InWidth(y, w)
      BY <2>3, <2>6, RemainderInWidth
    <3> QED
      BY <2>3, <3>1, WithinItsWidth
  <2>8. d = [w |-> w, v |-> y % 2 ^ w]
    BY <1>2, <2>5, <2>6, LeafSizes
  <2> QED
    BY <1>1, <1>2, <1>3, <1>4, <2>1, <2>2, <2>4, <2>6, <2>7, <2>8 DEF Tells, Term
<1>7. CASE n.op = "const"
  <2>1. z = n.bits
    BY <1>2, <1>7, LeafSize
  <2>2. t = Term(n.bits, n.value % 2 ^ n.bits)
    BY <1>1, <1>5, <1>7 DEF EncodedNode
  <2>3. Grounded(n, u) = n
    BY <1>7 DEF Grounded, IsVar
  <2>4. d = [w |-> n.bits, v |-> n.value % 2 ^ n.bits]
    BY <1>2, <1>7, <2>3 DEF Computed
  <2> QED
    BY <1>1, <1>2, <1>3, <1>4, <2>1, <2>2, <2>4 DEF Tells, Term
<1>8. CASE n.op = "unknown"
  <2>1. z = Widest
    BY <1>2, <1>8, LeafSize
  <2>2. t = Term(Widest, u[n.stands] % 2 ^ Widest)
    BY <1>1, <1>5, <1>8 DEF EncodedNode
  <2>3. Grounded(n, u) = Literal(u[n.stands], Widest)
    BY <1>8 DEF Grounded, IsVar
  <2>4. d = [w |-> Widest, v |-> u[n.stands] % 2 ^ Widest]
    BY <1>2, <2>3, LeafSizes
  <2> QED
    BY <1>1, <1>2, <1>3, <1>4, <2>1, <2>2, <2>4 DEF Tells, Term
<1> QED
  BY <1>6, <1>7, <1>8, LeafSize

\* The negation of a flag.
LEMMA ComplementFlag ==
    ASSUME NEW x, InWidth(x, 1)
    PROVE  1 - Flag(x # 0) = Flag(x = 0)
BY DEF Flag

\* The term for a node over one operand has the node's value.
LEMMA UnaryTells ==
    ASSUME NEW backend \in Backends, NEW D, NEW u, NEW n, Arity(n) = 1, NEW t, NEW z, NEW d,
           Tells(backend, t, z, d), NodeSize(n, <<z>>) # 0
    PROVE  Tells(backend, EncodedNode(backend, n, <<t>>, D, u), NodeSize(n, <<z>>),
             Computed(n, <<d>>))
<1>1. PICK r : r = EncodedNode(backend, n, <<t>>, D, u)
  OBVIOUS
<1>2. PICK y, c : y = NodeSize(n, <<z>>) /\ c = Computed(n, <<d>>)
  OBVIOUS
<1>3. OfWidth(r, y)
  BY <1>1, <1>2, UnaryEncodes DEF Tells
<1>4. Valued(c, y)
  BY <1>2, UnaryValued DEF Tells
<1>5. /\ IsTerm(t) /\ AsBv(t).w = z /\ AsBv(t).v = d.v /\ t.v = d.v
      /\ z \in Nat \ {0} /\ d = [w |-> z, v |-> d.v] /\ InWidth(d.v, z)
      /\ AsBool(t).v = Flag(d.v # 0)
  BY TellsIs
<1>6. DOMAIN <<t>> = {1} /\ <<t>>[1] = t
  OBVIOUS
<1>7. ~(\E k \in DOMAIN <<t>> : ~IsTerm(<<t>>[k]))
  BY <1>5, <1>6
<1>8. SUFFICES r.v = c.v /\ (backend = "text" => r.w = y)
  BY <1>1, <1>2, <1>3, <1>4 DEF Tells
<1>9. CASE n.op = "not"
  <2>1. y = 1 /\ z = 1
    BY <1>2, <1>9, UnarySize
  <2>2. PICK x : x = Term(0, 1 - AsBool(t).v)
    OBVIOUS
  <2>3. r = OfText(backend, x)
    BY <1>1, <1>6, <1>7, <1>9, <2>2 DEF EncodedNode
  <2>4. OfWidth(x, 1) /\ x.v = 1 - AsBool(t).v
    BY <2>2 DEF OfWidth, Term
  <2>5. r.v = x.v /\ (backend = "text" => r.w = 1)
    BY <2>3, <2>4, TextTells
  <2>6. c = [w |-> 1, v |-> Flag(d.v = 0)]
    BY <1>2, <1>9, NotSizes
  <2>7. 1 - Flag(d.v # 0) = Flag(d.v = 0)
    BY <1>5, <2>1, ComplementFlag
  <2> QED
    BY <1>5, <2>1, <2>4, <2>5, <2>6, <2>7
<1>10. CASE n.op = "extract"
  <2>1. n.lo \in 0..n.hi /\ n.hi \in 0..(z - 1) /\ y = n.hi - n.lo + 1
    BY <1>2, <1>10, UnarySize
  <2>2. ~(n.hi >= AsBv(t).w \/ n.lo > n.hi)
    BY <1>5, <2>1
  <2>3. r = Term(n.hi - n.lo + 1, Slice(t.v, n.hi, n.lo))
    BY <1>1, <1>6, <1>7, <1>10, <2>2 DEF EncodedNode
  <2>4. c = [w |-> n.hi - n.lo + 1, v |-> Slice(d.v, n.hi, n.lo)]
    BY <1>2, <1>10 DEF Computed
  <2> QED
    BY <1>5, <2>1, <2>3, <2>4 DEF Term
<1>11. CASE n.op = "zext"
  <2>1. y = n.to
    BY <1>2, <1>11, UnarySize
  <2>2. r = Fit(t, n.to)
    BY <1>1, <1>6, <1>7, <1>11 DEF EncodedNode
  <2>3. r = Term(n.to, AsBv(t).v % 2 ^ n.to)
    BY <1>5, <2>2 DEF Fit
  <2>4. c = [w |-> n.to, v |-> Resize(d.v, d.w, n.to, n.op = "sext")]
    BY <1>2, <1>11, ExtendSizes
  <2>5. Resize(d.v, d.w, n.to, n.op = "sext") = d.v % 2 ^ n.to
    BY <1>11 DEF Resize
  <2> QED
    BY <1>5, <2>1, <2>3, <2>4, <2>5 DEF Term
<1>12. CASE n.op = "sext"
  <2>1. y = n.to /\ n.to \in Nat /\ n.to >= z
    BY <1>2, <1>12, UnarySize
  <2>2. PICK b, to, x : b = AsBv(t) /\ to = n.to /\ x = d.v
    OBVIOUS
  <2>3. PICK g : g = Widen(b, to, TRUE)
    OBVIOUS
  <2>4. r = Fit(g, to)
    BY <1>1, <1>6, <1>7, <1>12, <2>2, <2>3 DEF EncodedNode
  <2>5. b.w = z /\ b.v = x /\ to \in Nat /\ to >= z /\ InWidth(x, z) /\ d.w = z
    BY <1>5, <2>1, <2>2
  <2>6. g.w = to /\ g.v = Resize(x, z, to, TRUE)
    <3>1. CASE z < to
      BY <2>3, <2>5, <3>1 DEF Widen, Term
    <3>2. CASE ~(z < to)
      <4>1. z = to /\ g = b
        BY <1>5, <2>3, <2>5, <3>2 DEF Widen
      <4>2. Resize(x, z, z, TRUE) = x
        BY <1>5, <2>5, ResizeToItself
      <4> QED
        BY <2>5, <4>1, <4>2
    <3> QED
      BY <3>1, <3>2
  <2>7. PICK s : s = Resize(x, z, to, TRUE)
    OBVIOUS
  <2>8. InWidth(s, to)
    BY <1>5, <2>5, <2>7, ResizeInWidth
  <2>9. s % 2 ^ to = s
    BY <2>5, <2>8, WithinItsWidth
  <2>10. to # 0
    BY <1>5, <2>5
  <2>11. r = Term(to, s % 2 ^ to)
    <3>1. g.w = to /\ g.v = s
      BY <2>6, <2>7
    <3>2. IsTerm(g) /\ AsBv(g) = g
      BY <2>5, <2>10, <3>1 DEF IsTerm, AsBv
    <3> QED
      BY <2>4, <3>1, <3>2 DEF Fit
  <2>12. c = [w |-> to, v |-> Resize(x, z, to, TRUE)]
    <3>1. c = [w |-> n.to, v |-> Resize(d.v, d.w, n.to, n.op = "sext")]
      BY <1>2, <1>12, ExtendSizes
    <3>2. Resize(d.v, d.w, n.to, n.op = "sext") = Resize(x, z, to, TRUE)
      BY <1>12, <2>2, <2>5 DEF Resize
    <3> QED
      BY <2>2, <3>1, <3>2
  <2> QED
    BY <2>1, <2>2, <2>7, <2>9, <2>11, <2>12 DEF Term
<1> QED
  BY <1>9, <1>10, <1>11, <1>12, UnarySize

\* A widened term has the resized value.
LEMMA WidensTo ==
    ASSUME NEW t, NEW z \in Nat, NEW w \in Nat, z <= w, NEW x, InWidth(x, z), t.w = z, t.v = x,
             NEW signed
    PROVE  Widen(t, w, signed).w = w /\ Widen(t, w, signed).v = Resize(x, z, w, signed)
<1>1. CASE z < w
  BY <1>1 DEF Widen, Term
<1>2. CASE ~(z < w)
  <2>1. z = w /\ Widen(t, w, signed) = t
    BY <1>2 DEF Widen
  <2>2. Resize(x, z, z, signed) = x
    BY ResizeToItself
  <2> QED
    BY <2>1, <2>2
<1> QED
  BY <1>1, <1>2

\* The operation on two terms is that on their values.
LEMMA MatchedTells ==
    ASSUME NEW p, NEW z, NEW a, NEW q, NEW y, NEW b, NEW n,
           z \in Nat \ {0}, y \in Nat \ {0}, InWidth(a.v, z), InWidth(b.v, y), a.w = z, b.w = y,
           p.w = z, p.v = a.v, q.w = y, q.v = b.v
    PROVE  Matched(n.op, p, q).v = Matching(n, a, b).v
<1>1. PICK l : l = Larger(z, y)
  OBVIOUS
<1>2. l \in Nat /\ l # 0 /\ z <= l /\ y <= l
  BY <1>1 DEF Larger
<1>3. PICK sign : sign = (n.op \in SignedOps)
  OBVIOUS
<1>4. PICK s, t : s = Widen(p, l, sign) /\ t = Widen(q, l, sign)
  OBVIOUS
<1>5. s.w = l /\ s.v = Resize(a.v, z, l, sign)
  <2>1. PICK x : x = a.v
    OBVIOUS
  <2>2. InWidth(x, z) /\ p.v = x
    BY <2>1
  <2>3. Widen(p, l, sign).w = l /\ Widen(p, l, sign).v = Resize(x, z, l, sign)
    BY <1>2, <2>2, WidensTo
  <2> QED
    BY <1>4, <2>1, <2>3
<1>6. t.w = l /\ t.v = Resize(b.v, y, l, sign)
  <2>1. PICK x : x = b.v
    OBVIOUS
  <2>2. InWidth(x, y) /\ q.v = x
    BY <2>1
  <2>3. Widen(q, l, sign).w = l /\ Widen(q, l, sign).v = Resize(x, y, l, sign)
    BY <1>2, <2>2, WidensTo
  <2> QED
    BY <1>4, <2>1, <2>3
<1>7. Matched(n.op, p, q) = Application(n.op, s, t)
  BY <1>1, <1>3, <1>4 DEF Matched
<1>8. Application(n.op, s, t)
        = IF n.op \in Relations THEN Term(0, Flag(Compares(n.op, s.v, t.v, l)))
                               ELSE Term(l, Arith(n.op, s.v, t.v, l))
  BY <1>2, <1>5, <1>6 DEF Application
<1>9. Matching(n, a, b) = IF n.op
        \in Relations THEN [w |-> 1, v |-> Flag(Compares(n.op, s.v, t.v, l))]
                         ELSE [w |-> l, v |-> Arith(n.op, s.v, t.v, l)]
  BY <1>1, <1>3, <1>5, <1>6 DEF Matching
<1> QED
  BY <1>7, <1>8, <1>9 DEF Term

\* The conjunction and the disjunction of flags.
LEMMA FlagsJoin ==
    ASSUME NEW x, NEW y
    PROVE  /\ Flag(x # 0) * Flag(y # 0) = Flag(x # 0 /\ y # 0)
           /\ Larger(Flag(x # 0), Flag(y # 0)) = Flag(x # 0 \/ y # 0)
BY DEF Flag, Larger

\* The term for a node over two operands has the node's value.
LEMMA BinaryTells ==
    ASSUME NEW backend \in Backends, NEW D, NEW v, NEW n, Arity(n) = 2,
           NEW t, NEW z, NEW d, Tells(backend, t, z, d), NEW u, NEW y, NEW c,
             Tells(backend, u, y, c),
           NodeSize(n, <<z, y>>) # 0
    PROVE  Tells(backend, EncodedNode(backend, n, <<t, u>>, D, v), NodeSize(n, <<z, y>>),
                 Computed(n, <<d, c>>))
<1>1. PICK r : r = EncodedNode(backend, n, <<t, u>>, D, v)
  OBVIOUS
<1>2. PICK x, e : x = NodeSize(n, <<z, y>>) /\ e = Computed(n, <<d, c>>)
  OBVIOUS
<1>3. OfWidth(t, z) /\ OfWidth(u, y) /\ Valued(d, z) /\ Valued(c, y)
  BY DEF Tells
<1>4. OfWidth(r, x)
  BY <1>1, <1>2, <1>3, BinaryEncodes
<1>5. Valued(e, x)
  BY <1>2, <1>3, BinaryValued
<1>6. /\ IsTerm(t) /\ AsBv(t).w = z /\ AsBv(t).v = d.v /\ t.v = d.v
      /\ z \in Nat \ {0} /\ d = [w |-> z, v |-> d.v] /\ InWidth(d.v, z)
      /\ AsBool(t).v = Flag(d.v # 0)
  BY TellsIs
<1>7. /\ IsTerm(u) /\ AsBv(u).w = y /\ AsBv(u).v = c.v /\ u.v = c.v
      /\ y \in Nat \ {0} /\ c = [w |-> y, v |-> c.v] /\ InWidth(c.v, y)
      /\ AsBool(u).v = Flag(c.v # 0)
  BY TellsIs
<1>8. DOMAIN <<t, u>> = {1, 2} /\ <<t, u>>[1] = t /\ <<t, u>>[2] = u
  OBVIOUS
<1>9. ~(\E k \in DOMAIN <<t, u>> : ~IsTerm(<<t, u>>[k]))
  BY <1>6, <1>7, <1>8
<1>10. SUFFICES r.v = e.v /\ (backend = "text" => r.w = x)
  BY <1>1, <1>2, <1>4, <1>5 DEF Tells
<1>11. CASE n.op \in {"booland", "boolor"}
  <2>1. x = 1
    BY <1>2, <1>11, BinarySize DEF Wrapping
  <2>2. PICK b : b = IF n.op = "booland" THEN AsBool(t).v * AsBool(u).v
               ELSE Larger(AsBool(t).v, AsBool(u).v)
    OBVIOUS
  <2>3. PICK g : g = Term(0, b)
    OBVIOUS
  <2>4. r = OfText(backend, g)
    BY <1>1, <1>8, <1>9, <1>11, <2>2, <2>3 DEF EncodedNode
  <2>5. OfWidth(g, 1) /\ g.v = b
    BY <2>3 DEF OfWidth, Term
  <2>6. r.v = b /\ (backend = "text" => r.w = 1)
    BY <2>4, <2>5, TextTells
  <2>7. /\ Flag(d.v # 0) * Flag(c.v # 0) = Flag(d.v # 0 /\ c.v # 0)
        /\ Larger(Flag(d.v # 0), Flag(c.v # 0)) = Flag(d.v # 0 \/ c.v # 0)
    BY FlagsJoin
  <2>8. /\ n.op = "booland" => e = [w |-> 1, v |-> Flag(d.v # 0 /\ c.v # 0)]
        /\ n.op = "boolor" => e = [w |-> 1, v |-> Flag(d.v # 0 \/ c.v # 0)]
    BY <1>2 DEF Computed
  <2> QED
    BY <1>6, <1>7, <1>11, <2>1, <2>2, <2>6, <2>7, <2>8
<1>12. CASE n.op \in Relations \cup Wrapping
  <2>1. PICK p, q : p = AsBv(t) /\ q = AsBv(u)
    OBVIOUS
  <2>2. PICK g : g = Matched(n.op, p, q)
    OBVIOUS
  <2>3. r = OfText(backend, g)
    BY <1>1, <1>8, <1>9, <1>12, <2>1, <2>2 DEF EncodedNode, Relations, Wrapping
  <2>4. e = Matching(n, d, c)
    BY <1>2, <1>12, BinaryForms
  <2>5. g.v = e.v
    <3>1. p.w = z /\ p.v = d.v /\ q.w = y /\ q.v = c.v /\ d.w = z /\ c.w = y
      BY <1>6, <1>7, <2>1
    <3>2. Matched(n.op, p, q).v = Matching(n, d, c).v
      BY <1>6, <1>7, <3>1, MatchedTells
    <3> QED
      BY <2>2, <2>4, <3>2
  <2>6. OfWidth(g, x)
    <3>1. OfWidth(g, IF n.op \in Relations THEN 1 ELSE Larger(z, y))
      BY <1>3, <2>1, <2>2, MatchedOfWidth
    <3>2. x = IF n.op \in Relations THEN 1 ELSE Larger(z, y)
      BY <1>2, <1>6, <1>7, <1>12, BinarySize DEF Wrapping, Relations, Larger
    <3> QED
      BY <3>1, <3>2
  <2> QED
    BY <2>3, <2>5, <2>6, TextTells
<1>13. CASE n.op = "ror"
  <2>1. x = z /\ y = z
    BY <1>2, <1>13, BinarySize DEF Wrapping, Relations
  <2>2. e = [w |-> z, v |-> Arith("ror", d.v, c.v, z)]
    <3>1. e = [w |-> d.w, v |-> Arith("ror", d.v, c.v, d.w)]
      BY <1>2, <1>13 DEF Computed
    <3>2. d.w = z
      BY <1>6
    <3> QED
      BY <3>1, <3>2
  <2>3. CASE backend = "text"
    <3>1. r = Term(t.w, Arith("ror", t.v, u.v, t.w))
      BY <1>1, <1>8, <1>9, <1>13, <2>3 DEF EncodedNode
    <3>2. t.w = z
      BY <2>3 DEF Tells
    <3> QED
      BY <1>6, <1>7, <2>1, <2>2, <3>1, <3>2 DEF Term
  <2>4. CASE backend # "text"
    <3>1. PICK p, q : p = AsBv(t) /\ q = AsBv(u)
      OBVIOUS
    <3>2. PICK g : g = Matched(n.op, p, q)
      OBVIOUS
    <3>3. r = OfText(backend, g)
      BY <1>1, <1>8, <1>9, <1>13, <2>4, <3>1, <3>2 DEF EncodedNode
    <3>4. r = g
      BY <2>4, <3>3 DEF OfText
    <3>5. p.w = z /\ p.v = d.v /\ q.w = y /\ q.v = c.v /\ d.w = z /\ c.w = y
      BY <1>6, <1>7, <3>1
    <3>6. g.v = Matching(n, d, c).v
      BY <1>6, <1>7, <3>2, <3>5, MatchedTells
    <3>7. Matching(n, d, c) = [w |-> z, v |-> Arith(n.op, d.v, c.v, z)]
      BY <1>3, <1>13, <2>1, Matches DEF Relations
    <3> QED
      BY <1>13, <2>2, <2>4, <3>4, <3>6, <3>7
  <2> QED
    BY <2>3, <2>4
<1>14. CASE n.op = "concat"
  <2>1. x = z + y
    BY <1>2, <1>14, BinarySize DEF Wrapping, Relations
  <2>2. r = Term(AsBv(t).w + AsBv(u).w, t.v * 2 ^ AsBv(u).w + u.v)
    BY <1>1, <1>8, <1>9, <1>14 DEF EncodedNode
  <2>3. e = [w |-> d.w + c.w, v |-> d.v * 2 ^ c.w + c.v]
    BY <1>2, <1>14 DEF Computed
  <2>4. d.w = z /\ c.w = y
    BY <1>6, <1>7
  <2> QED
    BY <1>6, <1>7, <2>1, <2>2, <2>3, <2>4 DEF Term
<1> QED
  BY <1>11, <1>12, <1>13, <1>14, BinarySize

\* The term for an ite has its value.
LEMMA IteTells ==
    ASSUME NEW backend \in Backends, NEW D, NEW v, NEW n, Arity(n) = 3,
           NEW g, NEW x, NEW f, Tells(backend, g, x, f), NEW t, NEW z, NEW d,
             Tells(backend, t, z, d),
           NEW u, NEW y, NEW c, Tells(backend, u, y, c), NodeSize(n, <<x, z, y>>) # 0
    PROVE  Tells(backend, EncodedNode(backend, n, <<g, t, u>>, D, v), NodeSize(n, <<x, z, y>>),
                 Computed(n, <<f, d, c>>))
<1>1. PICK r : r = EncodedNode(backend, n, <<g, t, u>>, D, v)
  OBVIOUS
<1>2. PICK s, e : s = NodeSize(n, <<x, z, y>>) /\ e = Computed(n, <<f, d, c>>)
  OBVIOUS
<1>3. /\ OfWidth(g, x) /\ OfWidth(t, z) /\ OfWidth(u, y)
      /\ Valued(f, x) /\ Valued(d, z) /\ Valued(c, y)
  BY DEF Tells
<1>4. OfWidth(r, s)
  BY <1>1, <1>2, <1>3, IteEncodes
<1>5. /\ Valued(e, s) /\ n.op = "ite" /\ z = y /\ s = z
      /\ e = [w |-> z, v |-> IF f.v # 0 THEN d.v ELSE c.v]
  BY <1>2, <1>3, IteValued
<1>6. /\ IsTerm(g) /\ AsBool(g).v = Flag(f.v # 0)
  BY TellsIs
<1>7. IsTerm(t) /\ AsBv(t).w = z /\ AsBv(t).v = d.v /\ z \in Nat \ {0}
  BY TellsIs
<1>8. IsTerm(u) /\ AsBv(u).w = y /\ AsBv(u).v = c.v
  BY TellsIs
<1>9. /\ DOMAIN <<g, t, u>> = {1, 2, 3}
      /\ <<g, t, u>>[1] = g /\ <<g, t, u>>[2] = t /\ <<g, t, u>>[3] = u
  OBVIOUS
<1>10. ~(\E k \in DOMAIN <<g, t, u>> : ~IsTerm(<<g, t, u>>[k]))
  BY <1>6, <1>7, <1>8, <1>9
<1>11. Larger(AsBv(t).w, AsBv(u).w) = z
  BY <1>5, <1>7, <1>8 DEF Larger
<1>12. r = Widen(IF AsBool(g).v = 1 THEN AsBv(t) ELSE AsBv(u), z, FALSE)
  BY <1>1, <1>5, <1>9, <1>10, <1>11 DEF EncodedNode
<1>13. PICK p : p = IF AsBool(g).v = 1 THEN AsBv(t) ELSE AsBv(u)
  OBVIOUS
<1>14. p.w = z /\ p.v = e.v
  BY <1>5, <1>6, <1>7, <1>8, <1>13 DEF Flag
<1>15. r = p
  <2>1. ~(p.w < z)
    BY <1>7, <1>14
  <2> QED
    BY <1>12, <1>13, <2>1 DEF Widen
<1>16. r.v = e.v /\ r.w = s
  BY <1>5, <1>14, <1>15
<1> QED
  BY <1>1, <1>2, <1>4, <1>5, <1>16 DEF Tells

\* What the encoder makes of an expression has the value of the expression.
THEOREM EncodedValue ==
    ASSUME NEW backend \in Backends, NEW D, NEW T, \A n \in T : DeclaredRight(n, D),
           NEW names, \A n \in T : KnownNode(n, names), NEW u, \A k \in names : u[k] \in Nat,
           NEW e \in Trees(T), Size(e) # 0
    PROVE  Tells(backend, Encode(backend, e, D, u), Size(e), Denote(e, u))
<1> DEFINE S == {f \in Trees(T) : Size(f) # 0
             => Tells(backend, Encode(backend, f, D, u), Size(f), Denote(f, u))}
<1>1. \A f \in Trees(T) : Yields(f, 1)
  BY TreesAre
<1>2. ASSUME NEW n \in T, Arity(n) = 0, <<n>> \in Trees(T) PROVE <<n>> \in S
  <2>1. Size(<<n>>) = NodeSize(n, <<>>)
    BY <1>2, Sizes
  <2>2. Encode(backend, <<n>>, D, u) = EncodedNode(backend, n, <<>>, D, u)
    BY <1>2, Encodes
  <2>3. Denote(<<n>>, u) = Computed(Grounded(n, u), <<>>)
    BY <1>2, Denotations
  <2>4. NodeSize(n, <<>>) # 0 => Tells(backend, EncodedNode(backend, n, <<>>, D, u),
          NodeSize(n, <<>>),
                                       Computed(Grounded(n, u), <<>>))
    BY <1>2, LeafTells
  <2> QED
    BY <1>2, <2>1, <2>2, <2>3, <2>4
<1>3. ASSUME NEW n \in T, Arity(n) = 1, NEW a \in S \cap Trees(T), Over(a, n) \in Trees(T)
      PROVE  Over(a, n) \in S
  <2>1. Yields(a, 1) /\ (Size(a) # 0
          => Tells(backend, Encode(backend, a, D, u), Size(a), Denote(a, u)))
    BY <1>1
  <2>2. Size(Over(a, n)) = NodeSize(n, <<Size(a)>>)
    BY <1>3, <2>1, Sizes
  <2>3. Encode(backend, Over(a, n), D, u)
          = EncodedNode(backend, n, <<Encode(backend, a, D, u)>>, D, u)
    BY <1>3, <2>1, Encodes
  <2>4. Denote(Over(a, n), u) = Computed(n, <<Denote(a, u)>>)
    BY <1>3, <2>1, Denotations
  <2>5. PICK t, z, d : t = Encode(backend, a, D, u) /\ z = Size(a) /\ d = Denote(a, u)
    OBVIOUS
  <2>6. NodeSize(n, <<z>>) # 0 => Tells(backend, EncodedNode(backend, n, <<t>>, D, u),
          NodeSize(n, <<z>>),
                                        Computed(n, <<d>>))
    <3> SUFFICES ASSUME NodeSize(n, <<z>>) # 0
                 PROVE  Tells(backend, EncodedNode(backend, n, <<t>>, D, u), NodeSize(n, <<z>>),
                           Computed(n, <<d>>))
      OBVIOUS
    <3>1. z # 0
      BY <1>3, UnarySize
    <3>2. Tells(backend, t, z, d)
      BY <2>1, <2>5, <3>1
    <3> QED
      BY <1>3, <3>2, UnaryTells
  <2> QED
    BY <1>3, <2>2, <2>3, <2>4, <2>5, <2>6
<1>4. ASSUME NEW n \in T, Arity(n) = 2, NEW a \in S \cap Trees(T), NEW b \in S \cap Trees(T),
             Over(Upon(a, b), n) \in Trees(T)
      PROVE  Over(Upon(a, b), n) \in S
  <2>1. /\ Yields(a, 1) /\ (Size(a) # 0
             => Tells(backend, Encode(backend, a, D, u), Size(a), Denote(a, u)))
        /\ Yields(b, 1) /\ (Size(b) # 0
             => Tells(backend, Encode(backend, b, D, u), Size(b), Denote(b, u)))
    BY <1>1
  <2>2. PICK g : g = Over(Upon(a, b), n)
    OBVIOUS
  <2>3. PICK t, z, d : t = Encode(backend, a, D, u) /\ z = Size(a) /\ d = Denote(a, u)
    OBVIOUS
  <2>4. PICK s, y, c : s = Encode(backend, b, D, u) /\ y = Size(b) /\ c = Denote(b, u)
    OBVIOUS
  <2>5. Size(g) = NodeSize(n, <<z, y>>)
    BY <1>4, <2>1, <2>2, <2>3, <2>4, Sizes
  <2>6. Encode(backend, g, D, u) = EncodedNode(backend, n, <<t, s>>, D, u)
    BY <1>4, <2>1, <2>2, <2>3, <2>4, Encodes
  <2>7. Denote(g, u) = Computed(n, <<d, c>>)
    BY <1>4, <2>1, <2>2, <2>3, <2>4, Denotations
  <2>8. ASSUME NodeSize(n, <<z, y>>) # 0
        PROVE  Tells(backend, EncodedNode(backend, n, <<t, s>>, D, u), NodeSize(n, <<z, y>>),
                  Computed(n, <<d, c>>))
    <3>1. z # 0 /\ y # 0
      BY <1>4, <2>8, BinarySize
    <3>2. Tells(backend, t, z, d) /\ Tells(backend, s, y, c)
      BY <2>1, <2>3, <2>4, <3>1
    <3> QED
      BY <1>4, <2>8, <3>2, BinaryTells
  <2> QED
    BY <1>4, <2>2, <2>5, <2>6, <2>7, <2>8
<1>5. ASSUME NEW n \in T, Arity(n) = 3, NEW a \in S \cap Trees(T), NEW b \in S \cap Trees(T),
             NEW c \in S \cap Trees(T), Over(Upon(Upon(a, b), c), n) \in Trees(T)
      PROVE  Over(Upon(Upon(a, b), c), n) \in S
  <2>1. /\ Yields(a, 1) /\ (Size(a) # 0
             => Tells(backend, Encode(backend, a, D, u), Size(a), Denote(a, u)))
        /\ Yields(b, 1) /\ (Size(b) # 0
             => Tells(backend, Encode(backend, b, D, u), Size(b), Denote(b, u)))
        /\ Yields(c, 1) /\ (Size(c) # 0
             => Tells(backend, Encode(backend, c, D, u), Size(c), Denote(c, u)))
    BY <1>1
  <2>2. PICK g : g = Over(Upon(Upon(a, b), c), n)
    OBVIOUS
  <2>3. PICK t, z, d : t = Encode(backend, a, D, u) /\ z = Size(a) /\ d = Denote(a, u)
    OBVIOUS
  <2>4. PICK s, y, h : s = Encode(backend, b, D, u) /\ y = Size(b) /\ h = Denote(b, u)
    OBVIOUS
  <2>5. PICK r, x, f : r = Encode(backend, c, D, u) /\ x = Size(c) /\ f = Denote(c, u)
    OBVIOUS
  <2>6. Size(g) = NodeSize(n, <<z, y, x>>)
    BY <1>5, <2>1, <2>2, <2>3, <2>4, <2>5, Sizes
  <2>7. Encode(backend, g, D, u) = EncodedNode(backend, n, <<t, s, r>>, D, u)
    BY <1>5, <2>1, <2>2, <2>3, <2>4, <2>5, Encodes
  <2>8. Denote(g, u) = Computed(n, <<d, h, f>>)
    BY <1>5, <2>1, <2>2, <2>3, <2>4, <2>5, Denotations
  <2>9. ASSUME NodeSize(n, <<z, y, x>>) # 0
        PROVE  Tells(backend, EncodedNode(backend, n, <<t, s, r>>, D, u), NodeSize(n, <<z, y, x>>),
                     Computed(n, <<d, h, f>>))
    <3>1. z # 0 /\ y # 0 /\ x # 0
      BY <1>5, <2>9, IteSize
    <3>2. Tells(backend, t, z, d) /\ Tells(backend, s, y, h) /\ Tells(backend, r, x, f)
      BY <2>1, <2>3, <2>4, <2>5, <3>1
    <3> QED
      BY <1>5, <2>9, <3>2, IteTells
  <2> QED
    BY <1>5, <2>2, <2>6, <2>7, <2>8, <2>9
<1> HIDE DEF S
<1>6. e \in S
  BY <1>2, <1>3, <1>4, <1>5, TreeInduction
<1> QED
  BY <1>6 DEF S

=============================================================================
