------------------------------ MODULE Encodings ------------------------------
(***************************************************************************)
(* The formulas the solvers are asked about: the encoder of the Z3 backend *)
(* and the SMT-LIB text of the others.                                     *)
(*                                                                         *)
(* A term is its sort and its value under the valuation val of the symbols *)
(* (sort 0: Bool, w: BitVec w).  The terms are built by operators as       *)
(* strict as the solvers are: IllSorted is what Z3 aborts on and a parser  *)
(* rejects, Refused what the encoder declines by itself.                   *)
(***************************************************************************)
EXTENDS Optimise

CONSTANTS
    ByteBits,      \* 8 in the code
    StoreCap       \* MEM_BYTE_STORE_CAP, 4096 in the code

Backends == {"z3", "text"}
Term(w, v) == [w |-> w, v |-> v]
Refused == Term(-1, 0)
IllSorted == Term(-2, 0)
IsTerm(t) == t.w >= 0

AsBv(t) == IF t.w = 0 THEN Term(1, t.v) ELSE t
AsBool(t) == IF t.w > 0 THEN Term(0, Flag(t.v # 0)) ELSE t
\* coerce, coerce_bv, encode_as_bv_with_width.
Fit(t, w) == IF IsTerm(t) THEN Term(w, AsBv(t).v % 2 ^ w) ELSE t
Widen(t, w, signed) == IF t.w < w THEN Term(w, Resize(t.v, t.w, w, signed)) ELSE t
\* The function of the solver, on two terms of one sort.
Application(op, x, y) ==
    IF x.w # y.w \/ x.w = 0 THEN IllSorted
    ELSE IF op \in Relations THEN Term(0, Flag(Compares(op, x.v, y.v, x.w)))
    ELSE Term(x.w, Arith(op, x.v, y.v, x.w))
\* match_widths and the operation.
Matched(op, x, y) ==
    LET w == Larger(x.w, y.w)
    IN  Application(op, Widen(x, w, op \in SignedOps), Widen(y, w, op \in SignedOps))

\* A read of a symbol that is declared at d[name] bits.  Z3 takes the low
\* bits of a wider one.
Symbol(backend, n, d, v) ==
    IF n.name \notin DOMAIN d THEN IllSorted
    ELSE IF n.bits = d[n.name] \/ (backend = "z3" /\ n.bits < d[n.name])
         THEN Term(n.bits, v[n.name] % 2 ^ n.bits)
    ELSE Refused

\* encode_expr, render_expr: a node over terms.
OfText(backend, t) == IF backend = "text" /\ IsTerm(t) THEN AsBv(t) ELSE t
EncodedNode(backend, n, a, d, v) ==
    IF \E k \in DOMAIN a : ~IsTerm(a[k]) THEN a[CHOOSE k \in DOMAIN a : ~IsTerm(a[k])]
    ELSE CASE n.op = "var" -> Symbol(backend, n, d, v)
      [] n.op = "const" -> Term(n.bits, n.value % 2 ^ n.bits)
      [] n.op = "unknown" -> Term(Widest, v[n.stands] % 2 ^ Widest)
      [] n.op = "not" -> OfText(backend, Term(0, 1 - AsBool(a[1]).v))
      [] n.op = "booland" -> OfText(backend, Term(0, AsBool(a[1]).v * AsBool(a[2]).v))
      [] n.op = "boolor" -> OfText(backend, Term(0, Larger(AsBool(a[1]).v, AsBool(a[2]).v)))
      [] n.op = "ite" ->
            LET then == AsBv(a[2])
                else == AsBv(a[3])
                w == Larger(then.w, else.w)
            IN  Widen(IF AsBool(a[1]).v = 1 THEN then ELSE else, w, FALSE)
      [] n.op = "extract" ->
            IF n.hi >= AsBv(a[1]).w \/ n.lo > n.hi THEN Refused
            ELSE Term(n.hi - n.lo + 1, Slice(a[1].v, n.hi, n.lo))
      [] n.op = "concat" -> Term(AsBv(a[1]).w + AsBv(a[2]).w, a[1].v * 2 ^ AsBv(a[2]).w + a[2].v)
      [] n.op = "zext" -> Fit(a[1], n.to)
      [] n.op = "sext" -> Fit(Widen(AsBv(a[1]), n.to, TRUE), n.to)
      [] n.op = "ror" /\ backend = "text" -> Term(a[1].w, Arith("ror", a[1].v, a[2].v, a[1].w))
      [] OTHER -> OfText(backend, Matched(n.op, AsBv(a[1]), AsBv(a[2])))
Encode(backend, e, d, v) ==
    LET apply(n, a) == EncodedNode(backend, n, a, d, v)
    IN  Fold(e, apply)

\* What the text has no words for: a rotation by a register, and (the adapter
\* declines these before it renders) a value the lifter could not say.
HasNoText(e) ==
    \/ ContainsUnknown(e)
    \/ \E i \in DOMAIN e : e[i].op = "ror" /\ e[i - 1].op # "const"
Untextual ==
    \/ HasNoText(condition)
    \/ \E k \in DOMAIN statements : \E i \in DOMAIN statements[k].parts :
            HasNoText(statements[k].parts[i])

----------------------------------------------------------------------------
\* The state of an encoder: the symbols declared, the bytes stored, the loads
\* remembered, and what has become of the assertions so far.

Begun(backend) ==
    [declared |-> IF backend = "text" THEN inputs ELSE [n \in {} |-> 0],
     stores |-> <<>>, havoced |-> FALSE, memo |-> {},
     outcome |-> IF backend = "text" /\ Untextual THEN {"refused"} ELSE {}]

Declare(m, n, b) ==
    IF n \in DOMAIN m.declared
    THEN [m EXCEPT !.outcome = @ \cup (IF m.declared[n] = b THEN {} ELSE {"refused"})]
    ELSE [m EXCEPT !.declared = [x \in DOMAIN @ \cup {n} |-> IF x = n THEN b ELSE @[x]]]
\* The terms that did not come about.
Noted(m, terms) ==
    [m EXCEPT !.outcome = @ \cup {IF terms[i] = Refused THEN "refused" ELSE "illsorted" :
                                    i \in {k \in DOMAIN terms : ~IsTerm(terms[k])}}]
Asserted(m, n, v, t) ==
    [m EXCEPT !.outcome = @ \cup (IF v[n] % 2 ^ t.w = t.v THEN {} ELSE {"false"})]

\* The key of a remembered load: an address as it is displayed.
Displayed(e) == [i \in DOMAIN e |-> IF IsVar(e[i]) THEN [op |-> "var", name |-> e[i].name] ELSE Shown(e)[i]]
Bytes(b) == b \div ByteBits
ByteOf(x, i) == (x \div 2 ^ (ByteBits * (i - 1))) % 2 ^ ByteBits
OffsetBy(address, i) == (address + i - 1) % 2 ^ Widest

\* The byte at an address: the last store to it, or a symbol of its own, for
\* which the valuation has what the machine loaded.
ByteAt(m, address, free) ==
    LET stores == IF m.havoced THEN <<>> ELSE m.stores
        at == {k \in DOMAIN stores : stores[k].address = address}
    IN  IF at = {} THEN free ELSE stores[CHOOSE k \in at : \A j \in at : j <= k].byte

EncodeLoad(m, s, address, v) ==
    LET key == <<Displayed(s.parts[1]), s.bits>>
        known == {r \in m.memo : r.key = key}
        sum[i \in 0..Bytes(s.bits)] ==
            IF i = 0 THEN 0
            ELSE sum[i - 1] + 2 ^ (ByteBits * (i - 1)) * ByteAt(m, OffsetBy(address, i), ByteOf(v[s.dst], i))
        value == IF known = {} THEN sum[Bytes(s.bits)] ELSE (CHOOSE r \in known : TRUE).value
    IN  Asserted([m EXCEPT !.memo = @ \cup {[key |-> key, value |-> value]}], s.dst, v, Term(s.bits, value))

\* Mutant: the loads remembered outlive a store.
EncodeStoreMutant(m, s, address, x) ==
    [m EXCEPT !.stores = @ \o [i \in 1..Bytes(s.bits) |-> [address |-> OffsetBy(address, i), byte |-> ByteOf(x, i)]]]
EncodeStore(m, s, address, x) ==
    [m EXCEPT !.memo = {},
              !.stores = @ \o [i \in 1..Bytes(s.bits) |-> [address |-> OffsetBy(address, i), byte |-> ByteOf(x, i)]]]
Overflows(m, s) == s.kind = "store" /\ Len(m.stores) + Bytes(s.bits) > StoreCap

\* Z3 declares a symbol when it is first read; the text has declared the inputs.
EncodeStatement(backend, m, s, v) ==
    LET early == Defines(s) /\ (backend = "text" \/ s.kind = "load")
        before == IF early THEN Declare(m, s.dst, s.bits) ELSE m
        reading == IF backend = "z3" THEN [before EXCEPT !.declared = WithParts(@, s.parts, {})] ELSE before
        terms == [i \in DOMAIN s.parts |-> Fit(Encode(backend, s.parts[i], reading.declared, v), PartBits(s, i))]
        after == Noted(IF Defines(s) THEN Declare(reading, s.dst, s.bits) ELSE reading, terms)
    IN  IF Overflows(m, s) THEN [m EXCEPT !.memo = {}, !.stores = <<>>, !.havoced = TRUE]
        ELSE IF \E i \in DOMAIN terms : ~IsTerm(terms[i]) THEN after
        ELSE CASE s.kind = "assign" -> Asserted(after, s.dst, v, terms[1])
               [] s.kind = "load" -> EncodeLoad(after, s, terms[1].v, v)
               [] s.kind = "store" -> EncodeStore(after, s, terms[1].v, terms[2].v)
               [] OTHER -> after

\* encode, build_query: what becomes of the assertions, and the condition.
Formula(backend, v) ==
    LET upTo[k \in 0..Len(statements)] ==
            IF k = 0 THEN Begun(backend) ELSE EncodeStatement(backend, upTo[k - 1], statements[k], v)
        m == upTo[Len(statements)]
        declared == IF backend = "z3" THEN WithReads(m.declared, condition, {}) ELSE m.declared
        truth == Encode(backend, condition, declared, v)
    IN  [outcome |-> Noted(m, <<truth>>).outcome, condition |-> IsTerm(truth) /\ AsBool(truth).v = 1]
=============================================================================
