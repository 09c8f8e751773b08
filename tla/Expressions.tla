----------------------------- MODULE Expressions -----------------------------
(***************************************************************************)
(* The expressions of r2smt-ir over bit-vectors, and their simplification. *)
(*                                                                         *)
(* An expression is the sequence of the nodes of its tree, operands before *)
(* operators: a rename or a substitution of leaves is a map over nodes,    *)
(* and what recurses over the tree runs a stack along the sequence.  The   *)
(* floating-point nodes are left out: simplify_expr, the passes and the    *)
(* renamer only walk through them.                                         *)
(***************************************************************************)
EXTENDS Integers, Sequences

CONSTANT Widest    \* the width of a pointer, and of an Expr::Unknown

Variable(n, b) == [op |-> "var", name |-> n, bits |-> b]
Literal(v, b) == [op |-> "const", value |-> v, bits |-> b]
Var(n, b) == <<Variable(n, b)>>
Const(v, b) == <<Literal(v, b)>>
\* What the lifter cannot say; k names the value that the machine has there.
Unknown(k) == <<[op |-> "unknown", stands |-> k]>>
Not(e) == Append(e, [op |-> "not"])
Binary(op, a, b) == a \o b \o <<[op |-> op]>>
Ite(c, a, b) == c \o a \o b \o <<[op |-> "ite"]>>
Extract(e, hi, lo) == Append(e, [op |-> "extract", hi |-> hi, lo |-> lo])
ZeroExtend(e, b) == Append(e, [op |-> "zext", to |-> b])
SignExtend(e, b) == Append(e, [op |-> "sext", to |-> b])

Wrapping == {"add", "sub", "mul", "udiv", "urem", "sdiv", "srem",
             "and", "or", "xor", "shl", "lshr", "ashr"}
Relations == {"eq", "ne", "ult", "ule", "slt", "sle"}
SignedOps == {"sdiv", "srem", "slt", "sle"}
Leaves == {"var", "const", "unknown"}
Arity(n) ==
    CASE n.op \in Leaves -> 0
      [] n.op \in {"not", "extract", "zext", "sext"} -> 1
      [] n.op = "ite" -> 3
      [] OTHER -> 2

\* The nodes are those of one tree: each finds its operands, one value is left.
Proper(e) ==
    LET depth[i \in 0..Len(e)] == IF i = 0 THEN 0 ELSE depth[i - 1] - Arity(e[i]) + 1
    IN  /\ e \in Seq({e[i] : i \in DOMAIN e})
        /\ \A i \in DOMAIN e : Arity(e[i]) <= depth[i - 1]
        /\ depth[Len(e)] = 1

\* The value of a tree, from what Apply makes of a node and its operands.
Fold(e, Apply(_, _)) ==
    LET stack[i \in 0..Len(e)] ==
            IF i = 0 THEN <<>>
            ELSE LET below == stack[i - 1]
                     rest == Len(below) - Arity(e[i])
                 IN  Append(SubSeq(below, 1, rest),
                            Apply(e[i], SubSeq(below, rest + 1, Len(below))))
    IN  stack[Len(e)][1]

IsVar(n) == n.op = "var"
Reads(e) == {e[i].name : i \in {k \in DOMAIN e : IsVar(e[k])}}
\* The width of the first of the nodes that read n.
FirstWidth(e, n) ==
    e[CHOOSE i \in DOMAIN e : /\ IsVar(e[i]) /\ e[i].name = n
                              /\ \A k \in 1..(i - 1) : ~(IsVar(e[k]) /\ e[k].name = n)].bits
ContainsUnknown(e) == \E i \in DOMAIN e : e[i].op = "unknown"

----------------------------------------------------------------------------
\* Values: a number and its width.

Signed(x, w) == IF x >= 2 ^ (w - 1) THEN x - 2 ^ w ELSE x
Larger(m, n) == IF m >= n THEN m ELSE n
Resize(x, from, to, signed) == IF signed THEN Signed(x, from) % 2 ^ to ELSE x % 2 ^ to
Slice(x, hi, lo) == (x \div 2 ^ lo) % 2 ^ (hi - lo + 1)
Bit(x, i) == Slice(x, i, i)
Bitwise(op, x, y, w) ==
    LET bit(i) == CASE op = "and" -> Bit(x, i) * Bit(y, i)
                    [] op = "or" -> Larger(Bit(x, i), Bit(y, i))
                    [] op = "xor" -> (Bit(x, i) + Bit(y, i)) % 2
        sum[i \in 0..w] == IF i = 0 THEN 0 ELSE sum[i - 1] + bit(i - 1) * 2 ^ (i - 1)
    IN  sum[w]
Quotient(x, y) == LET q == (IF x < 0 THEN -x ELSE x) \div (IF y < 0 THEN -y ELSE y)
                  IN  IF (x < 0) = (y < 0) THEN q ELSE -q

\* The bit-vector operations of SMT-LIB on two values of w bits.
Arith(op, x, y, w) ==
    LET m == 2 ^ w
        sx == Signed(x, w)
        sy == Signed(y, w)
    IN  CASE op = "add" -> (x + y) % m
          [] op = "sub" -> (x - y) % m
          [] op = "mul" -> (x * y) % m
          [] op = "udiv" -> IF y = 0 THEN m - 1 ELSE x \div y
          [] op = "urem" -> IF y = 0 THEN x ELSE x % y
          [] op = "sdiv" -> IF y = 0 THEN (IF sx < 0 THEN 1 ELSE m - 1) ELSE Quotient(sx, sy) % m
          [] op = "srem" -> IF y = 0 THEN x ELSE (sx - sy * Quotient(sx, sy)) % m
          [] op = "shl" -> IF y >= w THEN 0 ELSE (x * 2 ^ y) % m
          [] op = "lshr" -> IF y >= w THEN 0 ELSE x \div 2 ^ y
          [] op = "ashr" -> (sx \div 2 ^ (IF y >= w THEN w ELSE y)) % m
          [] op = "ror" -> LET k == y % w IN (x \div 2 ^ k) + ((x * 2 ^ (w - k)) % m)
          [] OTHER -> Bitwise(op, x, y, w)
Compares(op, x, y, w) ==
    CASE op = "eq" -> x = y
      [] op = "ne" -> x # y
      [] op = "ult" -> x < y
      [] op = "ule" -> x <= y
      [] op = "slt" -> Signed(x, w) < Signed(y, w)
      [] op = "sle" -> Signed(x, w) <= Signed(y, w)
Flag(b) == IF b THEN 1 ELSE 0

\* The expression over the values of its leaves.
Ground(e, env) ==
    [i \in DOMAIN e |->
        IF IsVar(e[i]) THEN Literal(env[e[i].name] % 2 ^ e[i].bits, e[i].bits)
        ELSE IF e[i].op = "unknown" THEN Literal(env[e[i].stands], Widest)
        ELSE e[i]]

\* What a node over values comes to.  The narrower of two operands is extended.
Matching(n, a, b) ==
    LET w == Larger(a.w, b.w)
        x == Resize(a.v, a.w, w, n.op \in SignedOps)
        y == Resize(b.v, b.w, w, n.op \in SignedOps)
    IN  IF n.op \in Relations THEN [w |-> 1, v |-> Flag(Compares(n.op, x, y, w))]
        ELSE [w |-> w, v |-> Arith(n.op, x, y, w)]
Computed(n, a) ==
    CASE n.op = "const" -> [w |-> n.bits, v |-> n.value % 2 ^ n.bits]
      [] n.op = "not" -> [w |-> 1, v |-> Flag(a[1].v = 0)]
      [] n.op = "booland" -> [w |-> 1, v |-> Flag(a[1].v # 0 /\ a[2].v # 0)]
      [] n.op = "boolor" -> [w |-> 1, v |-> Flag(a[1].v # 0 \/ a[2].v # 0)]
      [] n.op = "ite" -> [w |-> Larger(a[2].w, a[3].w), v |-> IF a[1].v # 0 THEN a[2].v ELSE a[3].v]
      [] n.op = "extract" -> [w |-> n.hi - n.lo + 1, v |-> Slice(a[1].v, n.hi, n.lo)]
      [] n.op = "concat" -> [w |-> a[1].w + a[2].w, v |-> a[1].v * 2 ^ a[2].w + a[2].v]
      [] n.op \in {"zext", "sext"} -> [w |-> n.to, v |-> Resize(a[1].v, a[1].w, n.to, n.op = "sext")]
      [] n.op = "ror" -> [w |-> a[1].w, v |-> Arith("ror", a[1].v, a[2].v, a[1].w)]
      [] OTHER -> Matching(n, a[1], a[2])
Value(e) == Fold(e, Computed)
Denote(e, env) == Value(Ground(e, env))
\* As a value of b bits, and as a truth value.
DenoteAt(e, env, b) == Denote(e, env).v % 2 ^ b
Holds(e, env) == Denote(e, env).v # 0

----------------------------------------------------------------------------
\* simplify_expr.

\* expr_bits; 0 where it cannot tell.
NodeBits(n, a) ==
    CASE n.op \in {"var", "const"} -> n.bits
      [] n.op = "unknown" -> 0
      [] n.op \in Wrapping -> IF a[1] = 0 \/ a[2] = 0 THEN a[1] ELSE Larger(a[1], a[2])
      [] n.op = "ror" -> a[1]
      [] n.op = "ite" -> IF a[2] # 0 THEN a[2] ELSE a[3]
      [] n.op = "extract" -> n.hi - n.lo + 1
      [] n.op = "concat" -> IF a[1] = 0 \/ a[2] = 0 THEN 0 ELSE a[1] + a[2]
      [] n.op \in {"zext", "sext"} -> n.to
      [] OTHER -> 1
ExprBits(e) == Fold(e, NodeBits)

IsConst(e) == Len(e) = 1 /\ e[1].op = "const"
Is(e, v) == IsConst(e) /\ e[1].value = v
AllOnes(e) == IsConst(e) /\ e[1].value = 2 ^ e[1].bits - 1
Masked(e) == e[1].value % 2 ^ e[1].bits
\* An expression as the code compares it: one unknown looks like another.
Shown(e) == [i \in DOMAIN e |-> IF e[i].op = "unknown" THEN [op |-> "unknown"] ELSE e[i]]
Same(a, b) == Shown(a) = Shown(b) /\ ~ContainsUnknown(a)
Covers(a, b) == AllOnes(a) /\ ExprBits(b) # 0 /\ a[1].bits >= ExprBits(b)

FoldConstants(op, a, b) ==
    LET w == Larger(a[1].bits, b[1].bits)
    IN  IF op \in Relations THEN Const(Flag(Compares(op, Masked(a), Masked(b), w)), 1)
        ELSE Const(Arith(op, Masked(a), Masked(b), w), w)

FoldBinary(op, a, b) ==
    CASE IsConst(a) /\ IsConst(b) /\ op \in {"add", "sub", "mul", "and", "or", "xor", "eq", "ne"}
            -> FoldConstants(op, a, b)
      [] op \in {"add", "or", "xor"} /\ Is(a, 0) -> b
      [] op \in {"add", "sub", "or", "xor"} /\ Is(b, 0) -> a
      [] op \in {"mul", "and"} /\ Is(a, 0) -> a
      [] op \in {"mul", "and"} /\ Is(b, 0) -> b
      [] op = "mul" /\ Is(a, 1) -> b
      [] op = "mul" /\ Is(b, 1) -> a
      [] op = "or" /\ Covers(a, b) -> a
      [] op = "or" /\ Covers(b, a) -> b
      [] op \in {"and", "or"} /\ Same(a, b) -> a
      [] op \in {"sub", "xor"} /\ Same(a, b) /\ ExprBits(a) # 0 -> Const(0, ExprBits(a))
      [] op \in {"eq", "ne"} /\ Same(a, b) -> Const(Flag(op = "eq"), 1)
      [] OTHER -> Binary(op, a, b)

FoldNot(e) ==
    IF e[Len(e)].op = "not" THEN SubSeq(e, 1, Len(e) - 1)
    ELSE IF IsConst(e) THEN Const(Flag(e[1].value = 0), 1)
    ELSE Not(e)
FoldIte(c, a, b) == IF IsConst(c) THEN (IF c[1].value = 0 THEN b ELSE a) ELSE Ite(c, a, b)
FoldExtract(e, hi, lo) ==
    LET inner == SubSeq(e, 1, Len(e) - 1)
    IN  IF lo = 0 /\ hi + 1 = ExprBits(e) THEN e
        ELSE IF e[Len(e)].op = "zext" /\ hi < ExprBits(inner) THEN Extract(inner, hi, lo)
        ELSE Extract(e, hi, lo)
\* Mutant: an extension of something narrower is taken for none.
FoldExtendMutant(n, e) == IF ExprBits(e) <= n.to THEN e ELSE Append(e, n)
FoldExtend(n, e) == IF ExprBits(e) = n.to THEN e ELSE Append(e, n)

\* A node over operands that are simplified.
Rebuilt(n, a) ==
    CASE Arity(n) = 0 -> <<n>>
      [] n.op = "not" -> FoldNot(a[1])
      [] n.op = "ite" -> FoldIte(a[1], a[2], a[3])
      [] n.op = "extract" -> FoldExtract(a[1], n.hi, n.lo)
      [] n.op \in {"zext", "sext"} -> FoldExtend(n, a[1])
      [] OTHER -> FoldBinary(n.op, a[1], a[2])
Simplify(e) == Fold(e, Rebuilt)
=============================================================================
