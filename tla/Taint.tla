-------------------------------- MODULE Taint --------------------------------
(***************************************************************************)
(* The may-taint pass over a slice in SSA form: from which of the sources  *)
(* every value may derive.  Memory is one cell.  The budget on the depth   *)
(* of an expression is left out, and slices are complete.                  *)
(***************************************************************************)
EXTENDS Optimise

\* build_seeds: every register named is a source of its own; with none named,
\* all inputs are one.
Seeds(sources) ==
    [n \in DOMAIN inputs |-> IF sources = {} THEN {"any input"} ELSE {n[1]} \cap sources]

TaintOf(taint, n) == IF n \in DOMAIN taint THEN taint[n] ELSE {}
TaintOfExpr(taint, e) == UNION {TaintOf(taint, n) : n \in Reads(e)}
Joined(taint, n, more) ==
    [m \in DOMAIN taint \cup {n} |-> TaintOf(taint, m) \cup (IF m = n THEN more ELSE {})]

\* The expressions the pass looks at: not the address of a store.
Visited(s) == IF s.kind = "store" THEN {s.parts[2]} ELSE {s.parts[i] : i \in DOMAIN s.parts}

\* Mutant: a load is tainted by its address only.
PropagateStatementMutant(p, s) ==
    LET flow == UNION {TaintOfExpr(p.taint, e) : e \in Visited(s)}
    IN  [taint |-> IF Defines(s) THEN Joined(p.taint, s.dst, flow) ELSE p.taint,
         memory |-> p.memory,
         opaque |-> p.opaque \/ s.kind = "unsupported" \/ \E e \in Visited(s) : ContainsUnknown(e)]
PropagateStatement(p, s) ==
    LET flow == UNION {TaintOfExpr(p.taint, e) : e \in Visited(s)}
    IN  [taint |-> CASE s.kind = "assign" -> Joined(p.taint, s.dst, flow)
                     [] s.kind = "load" -> Joined(p.taint, s.dst, flow \cup p.memory)
                     [] OTHER -> p.taint,
         memory |-> IF s.kind = "store" THEN p.memory \cup flow ELSE p.memory,
         opaque |-> p.opaque \/ s.kind = "unsupported" \/ \E e \in Visited(s) : ContainsUnknown(e)]
Propagate(sources) ==
    LET upTo[k \in 0..Len(statements)] ==
            IF k = 0 THEN [taint |-> Seeds(sources), memory |-> {}, opaque |-> FALSE]
            ELSE PropagateStatement(upTo[k - 1], statements[k])
    IN  upTo[Len(statements)]
=============================================================================
