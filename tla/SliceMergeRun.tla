---------------------------- MODULE SliceMergeRun ----------------------------
(***************************************************************************)
(* What a slice with merges says of its branch, and what the branch does.  *)
(* The slice is lowered as lift_slice does it, merges in their places, and *)
(* the formula it becomes has an answer for every value of its inputs; the *)
(* function is executed from every state of the registers and flags.       *)
(***************************************************************************)
EXTENDS SliceMerge

\* Stores of an arm are told apart by their addresses as written.
Folded == [defs |-> <<>>, stores |-> <<>>, whole |-> TRUE]

\* fold_arm: every definition in terms of what holds at the end of the head.
FoldStatement(f, s) ==
    CASE s.kind = "set" -> [f EXCEPT !.defs = (s.d :> Subst(s.e, f.defs)) @@ @]
      [] s.kind = "load" -> [f EXCEPT !.whole = FALSE]
      [] s.kind = "store" ->
            LET a == Subst(s.a, f.defs)
            IN  [f EXCEPT !.stores = Append(SelectSeq(@, LAMBDA w : w.a # a),
                                            [a |-> a, e |-> Subst(s.e, f.defs)])]
FoldArm(is) == FoldLeft(FoldStatement, Folded, LiftAll(is))

Choice(c, x, y) == <<"ite", Condition(c), x, y>>
Value(f, x) == IF x \in DOMAIN f.defs THEN f.defs[x] ELSE Var(x)
Addresses(f) == {f.stores[n].a : n \in DOMAIN f.stores}
Stored(f, a) == (CHOOSE w \in Range(f.stores) : w.a = a).e

\* The order of addresses as they are printed: sums, numbers, registers.
Rank(a) == CASE a[1] = "const" -> 1 + a[2]
             [] a[1] = "var" -> 100 + CHOOSE n \in DOMAIN Sorted : Sorted[n] = a[2]
             [] OTHER -> 0

\* A merged name is what the arm taken makes of it.
Definitions(m, t, o) ==
    [n \in DOMAIN m.names |->
        Set(m.names[n], Choice(m.cond, Value(t, m.names[n]), Value(o, m.names[n])))]

\* lower_merge_memory: an address that one arm alone writes is read first, and
\* the other path stores back what was there.
ConditionalStores(m, t, o) ==
    LET all == SetToSortSeq(Addresses(t) \cup Addresses(o), LAMBDA a, b : Rank(a) < Rank(b))
        keep(n) == "keep" \o ToString(n)
        value(f, n) == IF all[n] \in Addresses(f) THEN Stored(f, all[n]) ELSE Var(keep(n))
        oneSided(n) == all[n] \notin Addresses(t) \/ all[n] \notin Addresses(o)
    IN  FlattenSeq([n \in DOMAIN all |-> IF oneSided(n) THEN <<Read(keep(n), all[n])>> ELSE <<>>])
        \o [n \in DOMAIN all |-> Write(all[n], Choice(m.cond, value(t, n), value(o, n)))]

Top(m) == [n \in 1..Cardinality(m.top) |-> code.body[m.head][SetToSortSeq(m.top, <)[n]]]

LowerArms(m, t, o) ==
    IF t.whole /\ o.whole
    THEN LiftAll(Top(m)) \o Definitions(m, t, o) \o ConditionalStores(m, t, o)
    ELSE <<>>
LowerMerge(m) == LowerArms(m, FoldArm(m.taken), FoldArm(m.other))

\* The kept instructions in the order they execute.
SlicedInsns ==
    synth \o [n \in 1..Cardinality(kept) |->
                LET site == walked[SetToSortSeq(kept, >)[n]] IN code.body[site[1]][site[2]]]

\* lift_slice: a merge goes before the instructions kept when it was found,
\* of two in one place the upper one first.
MergesAt(n, total) == SelectSeq(Reverse(merges), LAMBDA m : total - m.tail + 1 = n)
LiftSlice(is) ==
    FlattenSeq([n \in 1..(Len(is) + 1) |->
        FlattenSeq([k \in DOMAIN MergesAt(n, Len(is)) |-> LowerMerge(MergesAt(n, Len(is))[k])])
            \o IF n > Len(is) THEN <<>> ELSE Lift(is[n])])

-----------------------------------------------------------------------------
(* The formula has an answer for every state of the registers and flags it *)
(* is started from; so has the function.  Memory is a function of the      *)
(* addresses met so far: a cell first read has any value, and keeps it.    *)

States == {[env |-> e, mem |-> <<>>] : e \in {f \in [Names -> Val] : \A x \in ToSet(Flags) : f[x] < 2}}

Performs(st, s) ==
    CASE s.kind = "set" -> {[st EXCEPT !.env = (s.d :> Eval(s.e, st.env)) @@ @]}
      [] s.kind = "store" ->
            {[st EXCEPT !.mem = (Eval(s.a, st.env) :> Eval(s.e, st.env)) @@ @]}
      [] s.kind = "load" ->
            LET a == Eval(s.a, st.env)
            IN  {[env |-> (s.d :> v) @@ st.env, mem |-> (a :> v) @@ st.mem] :
                    v \in IF a \in DOMAIN st.mem THEN {st.mem[a]} ELSE Val}

PerformAll(S, stmts) ==
    FoldLeft(LAMBDA T, s : UNION {Performs(st, s) : st \in T}, S, stmts)

Decided(S, b) == {Eval(Condition(code.term[b].cond), st.env) : st \in S}

\* The answers of the formula to the condition of the branch.
Answers == Decided(PerformAll(States, LiftSlice(SlicedInsns)), code.seed)

\* What is left by a call, or an instruction the lifter does not know, is
\* anything.
Executes(S, is) ==
    FoldLeft(LAMBDA T, i : IF i.op \in {"call", "odd"} THEN States ELSE PerformAll(T, Lift(i)),
             S, is)

Going(S, b, v) == {st \in S : Eval(Condition(code.term[b].cond), st.env) = v}

\* What the branch does, at the end of executions of at most Fuel blocks.
RECURSIVE OutcomesFrom(_, _, _)
OutcomesFrom(b, S, fuel) ==
    LET Out(T) == IF b = code.seed THEN Decided(T, b)
                  ELSE OutcomesFrom(code.term[b].taken, Going(T, b, 1), fuel - 1)
                        \cup OutcomesFrom(code.term[b].fall, Going(T, b, 0), fuel - 1)
    IN  IF S = {} \/ fuel = 0 THEN {} ELSE Out(Executes(S, code.body[b]))

Outcomes == OutcomesFrom(code.entry, States, Fuel)

-----------------------------------------------------------------------------
(* Where a merge is not what it stands for.                                *)

Solved == status = "complete" \/ (status = "truncated" /\ treat)

ReadBy(s) == CASE s.kind = "set" -> Reads(s.e)
               [] s.kind = "load" -> Reads(s.a)
               [] s.kind = "store" -> Reads(s.a) \cup Reads(s.e)

\* The definitions of a merge are put one after the other: one of them, or a
\* store, reads a name that an earlier one has just changed.
Rereads(m) ==
    LET stmts == LowerMerge(m)
        own == (Len(LiftAll(Top(m))) + 1)..Len(stmts)
    IN  \E p, q \in own :
            p < q /\ stmts[p].kind = "set" /\ stmts[p].d \in ReadBy(stmts[q])

\* The blocks that lead to those of S.
RECURSIVE Above(_)
Above(S) == LET T == S \cup UNION {Preds(b) : b \in S}
            IN  IF T = S THEN S ELSE Above(T)

InsnsIn(S) == UNION {{<<b, n>> : n \in DOMAIN code.body[b]} : b \in S}
Changes(site) ==
    LET i == code.body[site[1]][site[2]]
    IN  IF i.op \in {"call", "odd"} THEN Names \cup {"mem"}
        ELSE {IF s.kind = "store" THEN "mem" ELSE s.d : s \in ToSet(Lift(i))}

TopSites(m) == {<<m.head, n>> : n \in m.top}
Sliced == {walked[k] : k \in kept} \cup UNION {TopSites(m) : m \in ToSet(merges)}
Upper(m) == {u \in ToSet(merges) : u.head # m.head /\ u.head \in Above({m.head})}

\* The names that the slice defines above the definitions of m.
DefinedAbove(m) ==
    UNION {Changes(s) : s \in Sliced \cap InsnsIn(Above({m.head}))}
        \cup UNION {ToSet(u.names) : u \in Upper(m)}
        \cup UNION {Reads(i.d) : i \in ToSet(synth)}

\* Nothing looks for the definition of a name the arms start from: the one
\* that executes last before the arms is not in the slice.
Lost(m, x) ==
    LET inHead == {n \in DOMAIN code.body[m.head] : x \in Changes(<<m.head, n>>)}
    IN  IF inHead # {} THEN \E k \in inHead \ m.top : \A n \in inHead : n <= k
        ELSE \E s \in InsnsIn(Above({m.head})) \ Sliced :
                /\ x \in Changes(s)
                /\ \A u \in Upper(m) : x \notin ToSet(u.names)
LostIn(m) == {x \in UNION {ReadBy(s) : s \in ToSet(LowerMerge(m))} \cap Names : Lost(m, x)}

\* ... and an older one is, which the name is taken to have.
StaleRead(m) == LostIn(m) \cap DefinedAbove(m) # {}

\* An arm with a load: the merge is left out, and what it stood for is taken
\* to have the value an older definition gave it.
Dropped(m) == ~FoldArm(m.taken).whole \/ ~FoldArm(m.other).whole
DropsDefinition(m) ==
    Dropped(m) /\ (ToSet(m.names) \cup {"mem"}) \cap DefinedAbove(m) # {}

\* Two addresses an arm writes may be one: the stores are not in the order
\* of the program, and a value stored back may undo one.
MayAlias(m) ==
    \E a, b \in Addresses(FoldArm(m.taken)) \cup Addresses(FoldArm(m.other)) :
        a # b /\ ~(a[1] = "const" /\ b[1] = "const")

\* The loop leaves the counter at another value: something besides the
\* comparison sets the flags, or what is between the move into the counter
\* and the loop may change it.
Miscounts ==
    /\ synth # <<>>
    /\ LET b == Sole(block)
       IN  \/ Positions(code.body[b], "test") # {}
           \/ \E s \in InsnsIn(Preds(b) \ {b}) : code.body[s[1]][s[2]].op \in {"call", "odd"}

Misstated ==
    \/ Miscounts
    \/ \E m \in ToSet(merges) :
        Rereads(m) \/ StaleRead(m) \/ DropsDefinition(m) \/ MayAlias(m)

-----------------------------------------------------------------------------
(* Properties. *)

\* slice.rs, of the merge and of the free inputs it falls back to: "never a
\* fabricated AlwaysX".  Whatever the branch does, the formula allows.
NeverFabricates == Solved => Outcomes \subseteq Answers

\* ... where the merges and the count are not of the five kinds above.
MergeIsSound == Solved /\ ~Misstated => Outcomes \subseteq Answers

\* "The recovery only ever adds precision": a merge below the entry, all of
\* whose inputs are tracked, leaves the branch exactly its answers.
MergeIsExact ==
    /\ status = "complete" /\ ~Misstated /\ merges # <<>>
    /\ Last(merges).head = code.entry
    /\ \A m \in ToSet(merges) : ~Dropped(m) /\ LostIn(m) = {} /\ HeadSlice(m.head).complete
    => Answers \subseteq Outcomes

=============================================================================
