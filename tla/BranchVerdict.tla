---------------------------- MODULE BranchVerdict ----------------------------
(***************************************************************************)
(* From a branch to a decision to rewrite it: the branches of a request    *)
(* are sliced, solved by one backend or by the portfolio of three, turned  *)
(* into findings and, at last, into the operations of a patch plan.  A     *)
(* branch that radare2 has folded to one successor is derived again from a *)
(* block of its own, and the two answers are reconciled.                   *)
(*                                                                         *)
(* What a slice says of its condition is abstracted to sat, the set of     *)
(* outcomes of the branch for which its formula has a solution.  truth is  *)
(* what executions of the branch do; only the properties read it.          *)
(***************************************************************************)
EXTENDS Integers, Sequences, FiniteSets

CONSTANTS
    Requests,         \* what may be asked: see RequestAssumption
    MaxInstructions,  \* the slicing budget, in instructions
    Budgetless,       \* usize::MAX, where a multiplied budget saturates
    Costs             \* how many instructions a slice may need

ASSUME BudgetAssumption ==
    /\ MaxInstructions \in Nat
    /\ Budgetless \in Nat
    /\ MaxInstructions <= Budgetless
    /\ Costs \subseteq Nat

Solvers == {"z3", "cvc5", "bitwuzla", "portfolio"}
Backends == Solvers \ {"portfolio"}

\* How many branches are asked for, with which solver, whether a truncated
\* slice is widened to free inputs, and which backends may lie: of a portfolio
\* all but one, and not the one that is asked alone.
ASSUME RequestAssumption ==
    \A r \in Requests :
        /\ r.branches \in Nat \ {0}
        /\ r.solver \in Solvers
        /\ r.widen \in BOOLEAN
        /\ r.faulty \subseteq Backends
        /\ IF r.solver = "portfolio" THEN r.faulty # Backends
           ELSE r.solver \notin r.faulty

Directions == {"taken", "not_taken"}
Definitive == {"AlwaysTrue", "AlwaysFalse", "BothPossible"}
Actionable == {"OpaquePredicate", "DeadBranch", "ConstantCondition"}
\* In the order of the enumeration: a larger number is less trusted.
Confidences == {"High", "Medium", "Low", "Unknown"}
Distrust == [High |-> 0, Medium |-> 1, Low |-> 2, Unknown |-> 3]
Folds == Directions \cup {"none", "elsewhere"}
Nobody == [lives |-> FALSE, fed |-> FALSE, said |-> "nothing"]
None == [status |-> "none"]

VARIABLES
    truth,     \* what each branch does, over all executions
    fold,      \* the successor radare2 left the branch under analysis
    request,   \* the solver, the treatment of truncation, the faulty backends
    at,        \* the branch under analysis
    pc,        \* what the analyzer does next
    folded,    \* is it deriving a folded branch again
    slice,     \* the SSA slice
    answers,   \* the outcomes of the queries to the current backend
    verdicts,  \* the verdicts of the backends that have answered
    child,     \* the solver process, if one runs
    findings,  \* the findings so far
    plan       \* the operations of the patch plan

vars == <<truth, fold, request, at, pc, folded, slice, answers,
          verdicts, child, findings, plan>>
branch == <<truth, fold, request, at>>

Slices == [status : {"complete", "truncated"}, hole : BOOLEAN,
           unknowns : 0..1, form : {"plain", "unportable", "conflicting"},
           sat : SUBSET Directions]

Branches == 1..request.branches

Order == IF request.solver = "portfolio" THEN <<"z3", "cvc5", "bitwuzla">>
         ELSE <<request.solver>>
Backend == Order[Len(verdicts) + 1]
Polarity == IF answers = <<>> THEN "taken" ELSE "not_taken"

\* The slice has every definition it needs, or free inputs in their place.
Widened(s) == s.status = "complete" \/ request.widen

-----------------------------------------------------------------------------
(* Slicing *)

\* Whatever executes is a solution of the formula of a slice that is whole or
\* widened and has no hole; of any other nothing is known.
SliceOf(b, status) ==
    {s \in Slices : /\ s.status = status
                    /\ s.sat # {}
                    /\ (Widened(s) /\ ~s.hole) => truth[b] \subseteq s.sat}

\* The walk is stopped by its budget or by an instruction it cannot pass.
StatusAt(budget, need, wall) ==
    IF wall <= budget /\ wall < need THEN "structural"
    ELSE IF need > budget THEN "budget"
    ELSE "complete"

Escalated == IF 8 * MaxInstructions > Budgetless THEN Budgetless
             ELSE 8 * MaxInstructions

\* The first slice, and the single retry with eight times the budget.
PrepareSsa ==
    /\ pc = "slice"
    /\ \E need, wall \in Costs :
          LET first == StatusAt(MaxInstructions, need, wall)
              status == IF first = "budget" THEN StatusAt(Escalated, need, wall)
                        ELSE first
          IN slice' \in SliceOf(at, IF status = "complete" THEN status
                                    ELSE "truncated")
    /\ pc' = "solve"
    /\ verdicts' = <<>>
    /\ answers' = <<>>
    /\ UNCHANGED <<branch, folded, child, findings, plan>>

-----------------------------------------------------------------------------
(* Solving *)

\* What a query may answer: a backend that is not faulty may give up, but it
\* does not lie.
Replies(b, s, polarity) ==
    {r \in {"sat", "unsat", "unknown"} :
        \/ b \in request.faulty
        \/ r = "unknown"
        \/ (r = "sat") = (polarity \in s.sat)}

Combine(taken, not_taken) ==
    IF "unknown" \in {taken, not_taken} THEN "Timeout"
    ELSE IF taken = "sat" /\ not_taken = "unsat" THEN "AlwaysTrue"
    ELSE IF taken = "unsat" /\ not_taken = "sat" THEN "AlwaysFalse"
    ELSE IF taken = "sat" THEN "BothPossible"
    ELSE "Unsound"

\* A truncated slice is solved only where its roots were widened.
Refused(s) == ~Widened(s)

\* Mutant: Two votes of three are taken for a proof.
ConsensusMutant(vs) ==
    IF Len(vs) = 1 THEN vs[1]
    ELSE IF vs[1] \in {vs[2], vs[3]} THEN vs[1]
    ELSE IF vs[2] = vs[3] THEN vs[2] ELSE "Unsound"

\* The verdicts of all the backends that were asked, or nothing.
Consensus(vs) == IF \A i \in DOMAIN vs : vs[i] = vs[1] THEN vs[1] ELSE "Unsound"

Answered(v) ==
    /\ verdicts' = Append(verdicts, v)
    /\ answers' = <<>>
    /\ pc' = IF Len(verdicts) + 1 = Len(Order) THEN "classify" ELSE "solve"

\* Z3 runs in the process of the analyzer: two queries on one encoding.
SolveZ3 ==
    /\ pc = "solve"
    /\ Backend = "z3"
    /\ \E taken \in Replies("z3", slice, "taken"),
          not_taken \in Replies("z3", slice, "not_taken") :
          Answered(IF Refused(slice) \/ slice.form = "conflicting" THEN "Unsound"
                   ELSE Combine(taken, not_taken))
    /\ UNCHANGED <<branch, folded, slice, child, findings, plan>>

\* The text renderer has no sound form of an unknown, of a symbol of two
\* widths and of some floating-point shapes: the backend is not asked.
Unrendered(s) == Refused(s) \/ s.unknowns > 0 \/ s.form # "plain"

Decline ==
    /\ pc = "solve"
    /\ Backend # "z3"
    /\ Unrendered(slice)
    /\ Answered("Unsound")
    /\ UNCHANGED <<branch, folded, slice, child, findings, plan>>

\* An error of any backend ends the analysis, whatever was found before.
Abort ==
    /\ pc' = "failed"
    /\ findings' = <<>>
    /\ child' = Nobody
    /\ UNCHANGED <<branch, folded, slice, answers, verdicts, plan>>

Spawn ==
    /\ pc = "solve"
    /\ Backend # "z3"
    /\ ~Unrendered(slice)
    /\ child' = [lives |-> TRUE, fed |-> FALSE, said |-> "nothing"]
    /\ pc' = "feed"
    /\ UNCHANGED <<branch, folded, slice, answers, verdicts, findings, plan>>

SpawnFails ==
    /\ pc = "solve"
    /\ Backend # "z3"
    /\ ~Unrendered(slice)
    /\ Abort

\* The whole script is written before anything is read; a process that has
\* gone breaks the pipe.
Feed ==
    /\ pc = "feed"
    /\ \/ /\ child.lives
          /\ child' = [child EXCEPT !.fed = TRUE]
          /\ pc' = "collect"
          /\ UNCHANGED <<branch, folded, slice, answers, verdicts, findings, plan>>
       \/ /\ ~child.lives
          /\ Abort

\* Mutant: The output of a process that went without an answer is waited for.
CollectMutant ==
    /\ pc = "collect"
    /\ ~child.lives /\ child.said # "nothing"
    /\ child' = Nobody
    /\ \/ answers = <<>> /\ answers' = <<child.said>> /\ pc' = "solve" /\ UNCHANGED verdicts
       \/ answers # <<>> /\ Answered(Combine(answers[1], child.said))
    /\ UNCHANGED <<branch, folded, slice, findings, plan>>

\* wait_with_output returns when the process has gone; the last line that is
\* an answer counts, the exit status does not.
Collect ==
    /\ pc = "collect"
    /\ ~child.lives
    /\ \/ /\ child.said = "nothing"
          /\ Abort
       \/ /\ child.said # "nothing"
          /\ child' = Nobody
          /\ \/ /\ answers = <<>>
                /\ answers' = <<child.said>>
                /\ pc' = "solve"
                /\ UNCHANGED verdicts
             \/ /\ answers # <<>>
                /\ Answered(Combine(answers[1], child.said))
          /\ UNCHANGED <<branch, folded, slice, findings, plan>>

\* The solver process: it answers within its own time limit and exits, or it
\* goes at any time, with or without having answered.
ChildAnswers ==
    /\ child.lives /\ child.fed
    /\ \E r \in Replies(Backend, slice, Polarity) :
          child' = [child EXCEPT !.said = r, !.lives = FALSE]
    /\ UNCHANGED <<branch, pc, folded, slice, answers, verdicts, findings, plan>>

ChildDies ==
    /\ child.lives
    /\ child' = [child EXCEPT !.lives = FALSE]
    /\ UNCHANGED <<branch, pc, folded, slice, answers, verdicts, findings, plan>>

-----------------------------------------------------------------------------
(* Findings *)

\* Mutant: A verdict without a proof is a dead branch.
KindForMutant(verdict, has_inputs) ==
    IF verdict = "AlwaysTrue" THEN "OpaquePredicate"
    ELSE IF verdict = "BothPossible" THEN "RealBranch" ELSE "DeadBranch"

KindFor(verdict, has_inputs) ==
    CASE verdict \in {"AlwaysTrue", "AlwaysFalse"} /\ ~has_inputs -> "ConstantCondition"
      [] verdict = "AlwaysTrue" /\ has_inputs -> "OpaquePredicate"
      [] verdict = "AlwaysFalse" /\ has_inputs -> "DeadBranch"
      [] verdict = "BothPossible" -> "RealBranch"
      [] OTHER -> "SuspiciousButUnknown"

ConfidenceFor(verdict, s) ==
    IF verdict \notin Definitive \/ ~Widened(s) THEN "Unknown"
    ELSE IF s.status = "complete" /\ s.unknowns = 0 THEN "High"
    ELSE "Medium"

\* A condition on a flag that an unknown may stand for is worth less.
Downgrade(confidence, on_unmodeled_flag, unknowns) ==
    IF unknowns > 0 /\ on_unmodeled_flag /\ confidence \in {"High", "Medium"}
    THEN "Low" ELSE confidence

ClassifyFinding(s, verdict, has_inputs, on_unmodeled_flag) ==
    [branch |-> at, verdict |-> verdict, origin |-> "smt",
     kind |-> IF s.hole THEN "SuspiciousButUnknown" ELSE KindFor(verdict, has_inputs),
     confidence |-> Downgrade(IF s.hole THEN "Unknown" ELSE ConfidenceFor(verdict, s),
                              on_unmodeled_flag, s.unknowns)]

NoFinding == [origin |-> "none"]

ClassifyLoweredUpstream(to) ==
    IF to \notin Directions THEN NoFinding
    ELSE [branch |-> at, origin |-> "cfg", kind |-> "ConstantCondition",
          confidence |-> "High",
          verdict |-> IF to = "taken" THEN "AlwaysTrue" ELSE "AlwaysFalse"]

\* Mutant: The CFG shortcut goes first.
ReconcileFoldedMutant(rederived, shortcut) ==
    IF shortcut # NoFinding THEN shortcut ELSE rederived

\* A proof goes before the opinion of the CFG, and that before no answer.
ReconcileFolded(rederived, shortcut) ==
    IF rederived # NoFinding /\ rederived.confidence # "Unknown" THEN rederived
    ELSE IF shortcut # NoFinding THEN shortcut
    ELSE rederived

\* Record a finding, or go on without one, with the next branch.
NextBranch(f) ==
    /\ findings' = IF f = NoFinding THEN findings ELSE Append(findings, f)
    /\ at' = at + 1
    /\ pc' = IF at = request.branches THEN "plan" ELSE "begin"
    /\ slice' = None
    /\ verdicts' = <<>>
    /\ folded' = FALSE
    /\ fold' \in (IF at = request.branches THEN {"none"} ELSE Folds)

Classify ==
    /\ pc = "classify"
    /\ \E has_inputs, on_unmodeled_flag \in BOOLEAN :
          LET f == ClassifyFinding(slice, Consensus(verdicts), has_inputs,
                                   on_unmodeled_flag)
          IN NextBranch(IF folded
                        THEN ReconcileFolded(f, ClassifyLoweredUpstream(fold))
                        ELSE f)
    /\ UNCHANGED <<truth, request, answers, child, plan>>

\* A branch that was not folded is sliced in its function.
Begin ==
    /\ pc = "begin"
    /\ fold = "none"
    /\ pc' = "slice"
    /\ UNCHANGED <<branch, folded, slice, answers, verdicts, child, findings, plan>>

\* A folded one is sliced in a block loaded at its address.
Rederive ==
    /\ pc = "begin"
    /\ fold # "none"
    /\ folded' = TRUE
    /\ pc' = "slice"
    /\ UNCHANGED <<branch, slice, answers, verdicts, child, findings, plan>>

\* Mutant: A folded branch with no answer at all is passed over.
NoBlockMutant ==
    /\ pc = "begin"
    /\ fold # "none"
    /\ NextBranch(ReconcileFolded(NoFinding, ClassifyLoweredUpstream(fold)))
    /\ UNCHANGED <<truth, request, answers, child, plan>>

\* Where there is no such block, or no branch in it, radare2's answer is all
\* there is; and where that matches no edge, the function is sliced after all.
NoBlock ==
    /\ pc = "begin"
    /\ fold # "none"
    /\ LET f == ReconcileFolded(NoFinding, ClassifyLoweredUpstream(fold))
       IN \/ /\ f # NoFinding
             /\ NextBranch(f)
             /\ UNCHANGED <<truth, request, answers, child, plan>>
          \/ /\ f = NoFinding
             /\ pc' = "slice"
             /\ UNCHANGED <<branch, folded, slice, answers, verdicts, child,
                            findings, plan>>

-----------------------------------------------------------------------------
(* Planning *)

\* The findings consider_finding takes: actionable and trusted enough.  A
\* finding may also be skipped for its size or its bytes.
Considered(min) ==
    {f \in {findings[i] : i \in DOMAIN findings} :
        /\ f.kind \in Actionable
        /\ Distrust[f.confidence] <= Distrust[min]}

\* Only a definitive verdict drives a rewrite; another is an error, and the
\* whole plan is lost.
BuildPlan ==
    /\ pc = "plan"
    /\ \E min \in Confidences :
          \/ /\ \A f \in Considered(min) : f.verdict \in {"AlwaysTrue", "AlwaysFalse"}
             /\ plan' \in SUBSET Considered(min)
             /\ pc' = "done"
          \/ /\ \E f \in Considered(min) : f.verdict \notin {"AlwaysTrue", "AlwaysFalse"}
             /\ pc' = "unplanned"
             /\ UNCHANGED plan
    /\ UNCHANGED <<branch, folded, slice, answers, verdicts, child, findings>>

-----------------------------------------------------------------------------
Init ==
    /\ request \in Requests
    /\ truth \in [Branches -> (SUBSET Directions) \ {{}}]
    /\ fold \in Folds
    /\ at = 1
    /\ pc = "begin"
    /\ folded = FALSE
    /\ slice = None
    /\ answers = <<>>
    /\ verdicts = <<>>
    /\ child = Nobody
    /\ findings = <<>>
    /\ plan = {}

Analyzer ==
    \/ Begin \/ Rederive \/ NoBlock \/ PrepareSsa
    \/ SolveZ3 \/ Decline \/ Spawn \/ SpawnFails \/ Feed \/ Collect
    \/ Classify \/ BuildPlan

Child == ChildAnswers \/ ChildDies

Next == Analyzer \/ Child

Spec == Init /\ [][Next]_vars

FairSpec == Spec /\ WF_vars(Analyzer) /\ WF_vars(Child)
-----------------------------------------------------------------------------

\* What the branch does where a rewrite pins it.
Pinned(f) == IF f.verdict = "AlwaysTrue" THEN {"taken"} ELSE {"not_taken"}

\* A branch that is rewritten on the word of the solvers goes, in every
\* execution, the way the rewrite pins it: whatever is truncated, unmodelled,
\* unknown or unportable in its slice, at every confidence the user may ask
\* for, and with a portfolio of which one backend only can be trusted.
RewritesAreSound ==
    \A f \in plan : f.origin = "smt" => truth[f.branch] = Pinned(f)

\* Every branch of a request that ends well has its finding, in the order of
\* the request: none is lost between the folded path and the ordinary one.
EveryBranchFound ==
    pc \in {"plan", "done"} =>
        /\ Len(findings) = request.branches
        /\ \A i \in Branches : findings[i].branch = i

\* No finding the analyzer can produce makes the planner give the whole plan
\* up: what is actionable has a verdict that drives a rewrite.
PlanIsBuilt == pc # "unplanned"

\* A verdict that a sound slice supports is what is recorded, whatever
\* radare2 made of the branch.
ProofPrevails ==
    [][/\ pc = "classify"
       /\ Consensus(verdicts) \in Definitive
       /\ Widened(slice) /\ ~slice.hole
       => findings'[Len(findings')].verdict = Consensus(verdicts)]_vars

\* An analysis ends, with its findings or with an error, whatever becomes of
\* the solver processes.
AnalysisEnds == <>(pc \in {"done", "failed", "unplanned"})

=============================================================================
