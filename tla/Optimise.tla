------------------------------- MODULE Optimise -------------------------------
(***************************************************************************)
(* optimize_slice: passes that fold, propagate leaves and drop what nobody *)
(* reads, until one changes nothing or there were MaxPasses of them, then  *)
(* the definitions and inputs of what is left.                             *)
(***************************************************************************)
EXTENDS SsaConvert, SequencesExt

CONSTANT MaxPasses       \* 16 in the code

VARIABLES passes, stage  \* stage: "converting", "optimising", "done"
optimiser == <<passes, stage>>

Simplified(s) == [s EXCEPT !.parts = [i \in DOMAIN @ |-> Simplify(@[i])]]

\* build_inline_map: the definitions that are a variable or a constant.
Copies(ss) == {ss[k] : k \in {i \in DOMAIN ss : /\ ss[i].kind = "assign"
                                                /\ Len(ss[i].parts[1]) = 1
                                                /\ ss[i].parts[1][1].op \in {"var", "const"}}}
Inlined(ss) == [n \in {s.dst : s \in Copies(ss)} |-> (CHOOSE s \in Copies(ss) : s.dst = n).parts[1][1]]
\* One level; a chain of copies takes as many passes as it has links.
Substitute(e, map) ==
    [i \in DOMAIN e |-> IF IsVar(e[i]) /\ e[i].name \in DOMAIN map THEN map[e[i].name] ELSE e[i]]
Propagated(s, map) == [s EXCEPT !.parts = [i \in DOMAIN @ |-> Substitute(@[i], map)]]

StatementReads(s) == UNION {Reads(s.parts[i]) : i \in DOMAIN s.parts}
Stored(ss) == UNION {StatementReads(ss[k]) : k \in {i \in DOMAIN ss : ss[i].kind = "store"}}
\* live_names: what the condition and the stores need, and what that needs.
LiveNames(ss, c) ==
    LET needs[n \in 0..Len(ss)] ==
            IF n = 0 THEN Reads(c) \cup Stored(ss)
            ELSE LET live == needs[n - 1]
                 IN  live \cup UNION {StatementReads(ss[k]) :
                                        k \in {i \in DOMAIN ss : Defines(ss[i]) /\ ss[i].dst \in live}}
    IN  needs[Len(ss)]
\* The elements at some positions of a sequence.
Selected(ss, at) ==
    LET upTo[k \in 0..Len(ss)] ==
            IF k = 0 THEN <<>>
            ELSE IF k \in at THEN Append(upTo[k - 1], ss[k]) ELSE upTo[k - 1]
    IN  upTo[Len(ss)]
IsLive(s, live) == IF Defines(s) THEN s.dst \in live ELSE s.kind # "nop"

Pass ==
    /\ stage = "optimising" /\ passes < MaxPasses
    /\ LET folded == [k \in DOMAIN statements |-> Simplified(statements[k])]
           map == Inlined(folded)
           propagated == [k \in DOMAIN folded |-> Propagated(folded[k], map)]
           reduced == Substitute(Simplify(condition), map)
           live == LiveNames(propagated, reduced)
       IN  /\ statements' = Selected(propagated, {k \in DOMAIN propagated : IsLive(propagated[k], live)})
           /\ condition' = reduced
    /\ stage' = IF statements' = statements /\ condition' = condition THEN "settled" ELSE stage
    /\ passes' = passes + 1
    /\ UNCHANGED <<latest, inputs, defs, machine>>

\* recompute_defs_inputs.
Recompute ==
    /\ stage = "settled" \/ (stage = "optimising" /\ passes = MaxPasses)
    /\ LET defined == Selected(statements, {k \in DOMAIN statements : Defines(statements[k])})
           known == {defined[k].dst : k \in DOMAIN defined}
           upTo[k \in 0..Len(statements)] ==
               IF k = 0 THEN [n \in {} |-> 0]
               ELSE WithParts(upTo[k - 1], statements[k].parts, known)
       IN  /\ defs' = [k \in DOMAIN defined |-> [name |-> defined[k].dst, bits |-> defined[k].bits]]
           /\ inputs' = WithReads(upTo[Len(statements)], condition, known)
    /\ stage' = "done"
    /\ UNCHANGED <<latest, statements, condition, machine, passes>>
=============================================================================
