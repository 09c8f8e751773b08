---------------------------- MODULE MCSliceMerge -----------------------------
(* The functions merged in the runs: a few graphs around a join, and a     *)
(* choice of instructions for every block.                                 *)
EXTENDS SliceMergeRun

FiveBlocks == {"top", "head", "left", "right", "join"}
InOrder == <<"a", "b">>
TwoNames  == {"a", "b"}

I(op, d, s) == [op |-> op, d |-> d, s |-> s]
A == Var("a")
B == Var("b")
MovR == I("mov", A, B)
MovB == I("mov", B, A)
Add  == I("add", A, Const(1))
AddR == I("add", B, A)
AddB == I("add", B, Const(1))
Cmp(x, n) == I("cmp", Var(x), Const(n))
Test == I("test", A, A)
Cmov == I("cmov", A, B)
Load == I("load", A, B)
Put(x, v) == I("store", x, v)
Invoke == I("call", A, A)
Odd  == I("odd", A, A)

Goes(b)    == [cond |-> "always", taken |-> b, fall |-> b]
If(c, t, f) == [cond |-> c, taken |-> t, fall |-> f]
SetB == I("mov", B, Const(1))
Mov(n) == I("mov", A, Const(n))

Code(top, head, left, right, join, term) ==
    [entry |-> "top", seed |-> "join", term |-> term,
     body |-> [top |-> top, head |-> head, left |-> left, right |-> right, join |-> join]]

\* The graphs, with the condition x of the branch that is merged, y of the
\* one sliced.  In the last there is nothing to merge.
Term(t, h, l, r, y) == [top |-> t, head |-> h, left |-> l, right |-> r, join |-> If(y, "out", "on")]

Diamond(x, y) == Term(Goes("head"), If(x, "left", "right"), Goes("join"), Goes("join"), y)
Triangle(x, y) == Term(Goes("head"), If(x, "join", "left"), Goes("right"), Goes("join"), y)
Chained(x, y) == Term(If("z", "left", "head"), If(x, "right", "join"), Goes("head"), Goes("join"), y)
Counted(x, y) == Term(Goes("head"), If(x, "head", "join"), Goes("out"), Goes("out"), y)
Skewed(x, y) == Term(Goes("head"), If(x, "left", "right"), If("z", "right", "join"), Goes("join"), y)

Around(terms, ts, hs, ls, rs, js) ==
    {Code(t, h, l, r, j, x) : t \in ts, h \in hs, l \in ls, r \in rs, j \in js, x \in terms}

Arms == {<<>>, <<Mov(1)>>, <<MovR>>, <<MovB, Add>>, <<Cmp("b", 1)>>, <<Cmov>>,
         <<Put(B, Const(1))>>, <<Put(B, Const(1)), Put(A, Const(2))>>, <<Put(Const(1), B), AddR>>, <<Load>>, <<Invoke>>}
Joins == {<<>>, <<Cmp("a", 2)>>, <<Load, Cmp("a", 1)>>}
Heads == {<<Cmp("a", 1)>>, <<Mov(2), Cmp("b", 1)>>, <<Mov(1), Cmp("a", 1), MovR>>,
          <<Put(B, Const(1)), Load, Cmp("a", 1)>>, <<Odd, Cmp("b", 2)>>}
Writers == {<<SetB>> \o is : is \in {<<>>, <<Put(Const(1), Const(2))>>, <<Put(A, Const(1))>>,
                                    <<Put(A, Const(2)), Put(Const(1), B)>>}}

MergeCodes ==
    Around({Diamond("z", "nz"), Diamond("b", "nz"), Diamond("be", "b")},
           {<<>>}, Heads, Arms, Arms, Joins)
    \cup Around({Triangle("nz", "z"), Triangle("b", "ae"), Skewed("z", "z")},
                {<<>>, <<Mov(1)>>}, Heads, Arms, {<<>>, <<Add>>, <<MovB>>}, Joins)
    \cup Around({Diamond("z", "nz"), Diamond("nz", "z")}, {<<>>},
                {<<Put(Const(1), Const(1)), Cmp("a", 1)>>}, Writers, Writers, {<<Load, Cmp("a", 1)>>})
    \cup Around({Chained("z", "nz"), Chained("a", "z")},
                {<<Cmp("b", 1)>>, <<Mov(1), Cmp("a", 2)>>}, Heads \ {<<Odd, Cmp("b", 2)>>},
                Arms, {<<MovR>>, <<Add>>, <<Load>>, <<Put(A, B)>>}, Joins)
    \cup Around({Counted(x, "z") : x \in {"b", "nz", "be"}},
                {<<Mov(0)>>, <<Mov(0), Invoke>>, <<Mov(3), Mov(1)>>, <<MovR>>, <<Mov(2), Cmp("a", 2)>>},
                {is \o <<Cmp("a", 1)>> : is \in {<<Add>>, <<AddB>>, <<>>}}
                \cup {<<I("add", A, Const(2)), Cmp("a", 3)>>, <<Add, Cmp("a", 3), Test>>,
                      <<Cmp("a", 2), Add>>, <<Add, Put(A, B), Cmp("a", 3)>>},
                {<<>>}, {<<>>}, {<<Cmp("a", n)>> : n \in Val})

\* A head that tests the carry, and arms that step the register or leave it.
CarryCodes ==
    Around({Diamond(x, "nz") : x \in {"z", "b"}}, {<<>>}, {<<Cmp("a", 1)>>},
           {<<>>, <<Add>>}, {<<>>, <<Add>>, <<Mov(1)>>}, {<<>>})

=============================================================================
