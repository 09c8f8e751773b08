----------------------------- MODULE SliceMerge ------------------------------
(***************************************************************************)
(* The walk of SliceWalk with allow_join_merge on: a join of two paths     *)
(* that part at one conditional branch is replaced by if-then-else         *)
(* definitions (slice/merge_detect.rs, lift/merge.rs), a counted loop by   *)
(* the value its counter ends with (slice/loop_unroll.rs).                 *)
(*                                                                         *)
(* Here instructions compute: registers hold integers of Width bits, of    *)
(* the flags the two that the conditions read are kept.  What the lifter   *)
(* makes of one instruction is taken to be what it does (LiftRun); the     *)
(* question here is what the statements of a whole slice say when they     *)
(* are put one after the other.                                            *)
(***************************************************************************)
EXTENDS SliceWalk, SequencesExt

CONSTANTS
    Codes,        \* the functions, with what their instructions compute;
                  \* they take the place of Programs
    Width,        \* bits of a register
    MaxArm,       \* MERGE_ARM_MAX_INSTRUCTIONS
    MaxUnroll,    \* MAX_UNROLL
    Sorted,       \* the registers in the order of their names
    Fuel          \* bound on the blocks an execution enters

VARIABLES
    code,         \* the function: prog is what analyze sees of it
    merges,       \* the merges found, nearest to the branch first
    synth         \* the `mov counter, value` of an unrolled loop, in a sequence

mergeVars == <<vars, code, merges, synth>>

Val   == 0..(2 ^ Width - 1)
Flags == <<"CF", "ZF">>
Names == Regs \cup ToSet(Flags)
NoBlock == "none"

Const(n) == <<"const", n>>
Var(x)   == <<"var", x>>

RECURSIVE Reads(_)
Reads(e) == CASE e[1] = "const" -> {}
              [] e[1] = "var"   -> {e[2]}
              [] OTHER          -> UNION {Reads(e[n]) : n \in 2..Len(e)}

\* Operands d and s are registers or numbers; d of a store is its address.
Effects(i) ==
    LET known(d, u, m) == [kind |-> "known", defs |-> d, uses |-> u, mem |-> m,
                           modellable |-> TRUE, fpu |-> "none"]
        d == Reads(i.d)
        s == Reads(i.s)
    IN  CASE i.op = "mov"   -> known(d, s, "none")
          [] i.op = "add"   -> known(d \cup {"flags"}, d \cup s, "none")
          [] i.op \in {"cmp", "test"} -> known({"flags"}, d \cup s, "none")
          [] i.op = "cmov"  -> known(d, d \cup s \cup {"flags"}, "none")
          [] i.op = "load"  -> known(d, s, "load")
          [] i.op = "store" -> known({}, d \cup s, "store")
          [] i.op = "call"  -> [known({}, {}, "none") EXCEPT !.kind = "call"]
          [] i.op = "odd"   -> [known({}, {}, "none") EXCEPT !.kind = "unknown"]

\* A block ends in a branch on cond, or goes on to `taken` whatever happens.
Successors(c, b) == {c.term[b].taken, c.term[b].fall} \cap Blocks
TwoWay(c, b) == c.term[b].cond # "always" /\ c.term[b].taken # c.term[b].fall

ProgOf(c) ==
    [entry |-> c.entry, seed |-> c.seed, cond |-> {"flags"},
     succ |-> [b \in Blocks |-> Successors(c, b)],
     body |-> [b \in Blocks |-> [n \in DOMAIN c.body[b] |-> Effects(c.body[b][n])]]]

ASSUME CodesAssumption == \A c \in Codes : ProgOf(c) \in Program
ASSUME WidthAssumption == Width \in Nat \ {0} /\ MaxArm \in Nat /\ MaxUnroll \in Nat

-----------------------------------------------------------------------------
(* Expressions and statements. *)

RECURSIVE Eval(_, _)
Eval(e, env) ==
    CASE e[1] = "const" -> e[2]
      [] e[1] = "var"   -> env[e[2]]
      [] e[1] = "add"   -> (Eval(e[2], env) + Eval(e[3], env)) % 2 ^ Width
      [] e[1] = "carry" -> (Eval(e[2], env) + Eval(e[3], env)) \div 2 ^ Width
      [] e[1] = "eq"    -> IF Eval(e[2], env) = Eval(e[3], env) THEN 1 ELSE 0
      [] e[1] = "below" -> IF Eval(e[2], env) < Eval(e[3], env) THEN 1 ELSE 0
      [] e[1] = "not"   -> 1 - Eval(e[2], env)
      [] e[1] = "or"    -> IF Eval(e[2], env) + Eval(e[3], env) > 0 THEN 1 ELSE 0
      [] e[1] = "ite"   -> IF Eval(e[2], env) = 1 THEN Eval(e[3], env) ELSE Eval(e[4], env)

RECURSIVE Subst(_, _)
Subst(e, defs) ==
    CASE e[1] = "const" -> e
      [] e[1] = "var"   -> IF e[2] \in DOMAIN defs THEN defs[e[2]] ELSE e
      [] OTHER          -> [n \in DOMAIN e |-> IF n = 1 THEN e[1] ELSE Subst(e[n], defs)]

\* lift_branch_condition.
Condition(c) ==
    CASE c = "z"  -> Var("ZF")
      [] c = "nz" -> <<"not", Var("ZF")>>
      [] c = "b"  -> Var("CF")
      [] c = "ae" -> <<"not", Var("CF")>>
      [] c = "be" -> <<"or", Var("CF"), Var("ZF")>>
      [] c = "a"  -> <<"not", <<"or", Var("CF"), Var("ZF")>>>>
      [] c = "always" -> Const(1)

Set(x, e)   == [kind |-> "set", d |-> x, e |-> e]
Read(x, a)  == [kind |-> "load", d |-> x, a |-> a]
Write(a, e) == [kind |-> "store", a |-> a, e |-> e]

Lift(i) ==
    LET d == i.d
        s == i.s
        x == i.d[2]
            IN  CASE i.op = "mov"  -> <<Set(x, s)>>
          [] i.op = "add"  -> <<Set("CF", <<"carry", d, s>>),
                                Set("ZF", <<"eq", <<"add", d, s>>, Const(0)>>),
                                Set(x, <<"add", d, s>>)>>
          [] i.op = "cmp"  -> <<Set("CF", <<"below", d, s>>), Set("ZF", <<"eq", d, s>>)>>
          [] i.op = "test" -> <<Set("CF", Const(0)), Set("ZF", <<"eq", d, Const(0)>>)>>
          [] i.op = "cmov" -> <<Set(x, <<"ite", Var("ZF"), s, d>>)>>
          [] i.op = "load" -> <<Read(x, s)>>
          [] i.op = "store" -> <<Write(d, s)>>
          [] OTHER         -> <<>>

LiftAll(is) == FlattenSeq([n \in DOMAIN is |-> Lift(is[n])])

-----------------------------------------------------------------------------
(* Detection. *)

Sole(b) == IF Cardinality(Preds(b)) = 1 THEN CHOOSE p \in Preds(b) : TRUE ELSE NoBlock

\* head_above: up the lone predecessors to a two-way branch.
RECURSIVE HeadAbove(_, _)
HeadAbove(b, seen) ==
    IF b \in seen \cup {NoBlock} THEN NoBlock
    ELSE IF TwoWay(code, b) THEN b
    ELSE IF Cardinality(seen) >= MaxArm THEN NoBlock
    ELSE HeadAbove(Sole(b), seen \cup {b})

Mergeable(i) == Effects(i).kind = "known"

\* resolve_arm_edge: the instructions from an edge of the head to the join,
\* and the predecessor of the join it arrives by; NoArm when the path is no
\* straight line, is too long, or has a call or an unsupported instruction.
NoArm == [insns |-> <<>>, from |-> NoBlock]

RECURSIVE Chain(_, _, _, _)
Chain(join, above, b, insns) ==
    LET all  == insns \o code.body[b]
        next == code.term[b].taken
    IN  IF \/ Sole(b) # above
           \/ \E n \in DOMAIN all : ~Mergeable(all[n])
           \/ Len(all) > MaxArm
           \/ code.term[b].cond # "always"
        THEN NoArm
        ELSE IF next = join THEN [insns |-> all, from |-> b]
        ELSE Chain(join, b, next, all)

Arm(head, join, edge) ==
    IF edge = join THEN [insns |-> <<>>, from |-> head]
    ELSE IF edge = head THEN NoArm
    ELSE Chain(join, head, edge, <<>>)

\* slice_branch on the branch of the head, in its block only: what defines
\* its condition, the roots left, and whether the walk got to the top.
RECURSIVE HeadWalk(_, _, _, _)
HeadWalk(b, n, want, at) ==
    LET x == Effects(code.body[b][n])
    IN  IF n = 0 THEN [at |-> at, roots |-> want, complete |-> "flags" \notin want]
        ELSE IF want = {} THEN [at |-> at, roots |-> {}, complete |-> TRUE]
        ELSE IF x.kind # "known" THEN [at |-> at, roots |-> want, complete |-> FALSE]
        ELSE IF x.defs \cap want = {} /\ x.mem = "none" THEN HeadWalk(b, n - 1, want, at)
        ELSE HeadWalk(b, n - 1, (want \ x.defs) \cup x.uses, at \cup {n})

HeadSlice(b) == HeadWalk(b, Len(code.body[b]), {"flags"}, {})

NoMerge == [head |-> NoBlock]

\* Mutant: the flags are not among the names merged.
MergedNamesMutant == SelectSeq(Sorted, LAMBDA r : r \in pending)

\* The names merged, in the order they are sorted.
MergedNames ==
    (IF "flags" \in pending THEN Flags ELSE <<>>)
        \o SelectSeq(Sorted, LAMBDA r : r \in pending)

\* try_build_diamond_merge.
DiamondMerge ==
    LET heads == {HeadAbove(p, {}) : p \in Preds(block)} \ {NoBlock}
        Of(h) ==
            LET t == code.term[h]
                taken == Arm(h, block, t.taken)
                other == Arm(h, block, t.fall)
                top   == HeadSlice(h).at
            IN  IF /\ {taken.from, other.from} = Preds(block)
                   /\ Cardinality(top) <= MaxArm
                THEN [head |-> h, cond |-> t.cond, top |-> top,
                      taken |-> taken.insns, other |-> other.insns,
                      names |-> MergedNames, tail |-> Cardinality(kept)]
                ELSE NoMerge
    IN  IF pending = {} \/ Cardinality(Preds(block)) # 2 \/ heads = {} THEN NoMerge
        ELSE Of(CHOOSE h \in heads : TRUE)

\* try_unroll_counted_loop.
Positions(is, op) == {n \in DOMAIN is : is[n].op = op}
Only(S) == CHOOSE x \in S : TRUE

\* Mutant: the comparison may come before the step.
CountedBodyMutant(b, x) ==
    LET is == code.body[b]
        steps == Positions(is, "add")
        compares == Positions(is, "cmp")
    IN  /\ \A n \in DOMAIN is : is[n].op \in {"add", "cmp", "test"}
        /\ \A n \in steps \cup compares : is[n].d = Var(x) /\ is[n].s[1] = "const"
        /\ Cardinality(steps) = 1 /\ Cardinality(compares) = 1

\* analyse_body: one step of the counter, then one comparison of it.
CountedBody(b, x) ==
    LET is == code.body[b]
        steps == Positions(is, "add")
        compares == Positions(is, "cmp")
    IN  /\ \A n \in DOMAIN is : is[n].op \in {"add", "cmp", "test"}
        /\ \A n \in steps \cup compares : is[n].d = Var(x) /\ is[n].s[1] = "const"
        /\ Cardinality(steps) = 1 /\ Cardinality(compares) = 1
        /\ Only(steps) < Only(compares)

\* concrete_init: every instruction above the loop that defines the counter
\* is a move of a number; the last one gives its value.
Inits(b, x) == {n \in DOMAIN code.body[b] : x \in Effects(code.body[b][n]).defs}

\* simulate: step, then test, until the test fails.
RECURSIVE Simulate(_, _, _, _, _)
Simulate(v, step, cond, bound, iterations) ==
    LET w == (v + step) % 2 ^ Width
        again == Eval(Condition(cond),
                      [CF |-> IF w < bound THEN 1 ELSE 0, ZF |-> IF w = bound THEN 1 ELSE 0])
    IN  IF again = 0 THEN <<w>>
        ELSE IF iterations + 1 >= MaxUnroll THEN <<>>
        ELSE Simulate(w, step, cond, bound, iterations + 1)

\* The synthetic instruction, in a sequence; none when the loop above is not
\* of the counted shape.
Unrolled ==
    LET b == Sole(block)
        x == Only(pending)
        above == Preds(b) \ {b}
        e == Only(above)
        is == code.body[b]
        of(op) == is[Only(Positions(is, op))].s[2]
        inits == Inits(e, x)
        exit == Simulate(code.body[e][CHOOSE n \in inits : \A m \in inits : m <= n].s[2],
                         of("add"), code.term[b].cond, of("cmp"), 0)
    IN  IF /\ b # NoBlock
           /\ "flags" \notin pending /\ Cardinality(pending) = 1
           /\ TwoWay(code, b) /\ code.term[b].taken = b
           /\ CountedBody(b, x)
           /\ Cardinality(above) = 1
           /\ inits # {}
           /\ \A n \in inits : code.body[e][n].op = "mov" /\ code.body[e][n].s[1] = "const"
           /\ exit # <<>>
        THEN <<[op |-> "mov", d |-> Var(x), s |-> Const(exit[1])]>>
        ELSE <<>>

-----------------------------------------------------------------------------
(* resolve_block_entry. *)

MergeInit ==
    /\ code \in Codes
    /\ prog = ProgOf(code)
    /\ Begin
    /\ merges = <<>> /\ synth = <<>>

Unroll ==
    /\ AtBlockEntry
    /\ Unrolled # <<>>
    /\ synth' = Unrolled
    /\ pending' = {}
    /\ status' = "walked"
    /\ UNCHANGED <<prog, treat, block, pos, kept, walked, blocks_visited, visited,
                   code, merges>>

AtJoin == AtBlockEntry /\ Cardinality(Preds(block)) > 1

\* The merge stands for what is pending; the walk goes on above the head with
\* what the condition of the head needs.
Resumes(h) ==
    /\ HeadSlice(h).complete /\ HeadSlice(h).roots # {}
    /\ blocks_visited < MaxBasicBlocks
    /\ h \notin visited

Join ==
    /\ AtJoin
    /\ DiamondMerge # NoMerge
    /\ merges' = Append(merges, DiamondMerge)
    /\ LET h == DiamondMerge.head
       IN  IF Resumes(h)
           THEN /\ block' = h /\ pos' = 0
                /\ pending' = HeadSlice(h).roots
                /\ visited' = visited \cup {h}
                /\ blocks_visited' = blocks_visited + 1
                /\ UNCHANGED status
           ELSE /\ pending' = {}
                /\ status' = "walked"
                /\ UNCHANGED <<block, pos, visited, blocks_visited>>
    /\ UNCHANGED <<prog, treat, kept, walked, code, synth>>

\* Any other join: what is pending is free.
Boundary ==
    /\ AtJoin
    /\ DiamondMerge = NoMerge
    /\ IF "flags" \in pending THEN status' = "truncated" /\ treat' = TRUE
                              ELSE status' = "walked" /\ UNCHANGED treat
    /\ UNCHANGED <<prog, block, pos, pending, kept, walked, blocks_visited, visited,
                   code, merges, synth>>

Straight ==
    /\ \/ InstructionLimit \/ Call \/ UnmodellableMemory \/ Other \/ Skip \/ Keep
       \/ RejectUnpinnedRoundingMode
       \/ ~AtJoin /\ Unrolled = <<>> /\ (Follow \/ Finalize)
    /\ UNCHANGED <<code, merges, synth>>

MergeNext == Straight \/ Unroll \/ Join \/ Boundary

MergeSpec == MergeInit /\ [][MergeNext]_mergeVars

=============================================================================
