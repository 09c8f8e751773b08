---------------------------- MODULE VerdictProofs ----------------------------
(* From the answers of the solvers to the plan: what is rewritten is so, for *)
(* every request, of any number of branches, and whatever the solver         *)
(* processes, the untrusted backends and radare2 do.                         *)
EXTENDS BranchVerdict, TLAPS

Solving  == {"solve", "feed", "collect"}
Deciding == {"begin", "slice", "classify"} \cup Solving
Verdicts == {"AlwaysTrue", "AlwaysFalse", "BothPossible", "Timeout", "Unsound"}
Constant == {"AlwaysTrue", "AlwaysFalse"}
Findings ==
    [branch : Nat, verdict : Verdicts, origin : {"smt", "cfg"},
     kind : Actionable \cup {"RealBranch", "SuspiciousButUnknown"},
     confidence : Confidences]

\* Where the analysis is.
Position ==
    /\ request \in Requests
    /\ truth \in [Branches -> (SUBSET Directions) \ {{}}]
    /\ pc \in Deciding \cup {"plan", "done", "failed", "unplanned"}
    /\ at \in Nat
    /\ pc \in Deciding => at \in Branches
    /\ verdicts \in Seq(Verdicts)
    /\ pc \in Solving => Len(verdicts) < Len(Order)
    /\ pc = "classify" => Len(verdicts) = Len(Order)
    /\ child \in [lives : BOOLEAN, fed : BOOLEAN,
                  said : {"nothing", "sat", "unsat", "unknown"}]

\* The slice under analysis is one of the branch under analysis, and what a
\* solver process has said is an answer to what it was asked.
Asked ==
    /\ pc \in Solving \cup {"classify"} => slice \in SliceOf(at, slice.status)
    /\ pc \notin {"feed", "collect"} => child = Nobody
    /\ pc \in {"feed", "collect"} =>
          /\ ~Unrendered(slice)
          /\ child.said # "nothing" => child.said \in Replies(Backend, slice, Polarity)
    /\ pc \in Solving /\ answers # <<>> =>
          ~Unrendered(slice) /\ answers[1] \in Replies(Backend, slice, "taken")

\* The verdict of a backend that does not lie is one on the formula.
Pins(v) == IF v = "AlwaysTrue" THEN {"taken"} ELSE {"not_taken"}
Trusted ==
    pc \in Solving \cup {"classify"} =>
        \A i \in DOMAIN verdicts :
            Order[i] \notin request.faulty /\ verdicts[i] \in Constant =>
                Widened(slice) /\ slice.sat = Pins(verdicts[i])

\* What has been found is in order, and what may be rewritten is true.
Sound(f) ==
    f.kind \in Actionable =>
        /\ f.verdict \in Constant
        /\ f.origin = "smt" => truth[f.branch] = Pinned(f)
Found ==
    /\ findings \in Seq(Findings)
    /\ \A i \in DOMAIN findings : Sound(findings[i])
    /\ pc # "failed" => /\ Len(findings) = at - 1
                        /\ \A i \in DOMAIN findings : findings[i].branch = i
    /\ pc \in {"plan", "done", "unplanned"} => at = request.branches + 1
    /\ PlanIsBuilt
    /\ \A f \in plan : Sound(f) /\ f.kind \in Actionable

IInv == Position /\ Asked /\ Trusted /\ Found

\* Someone in the order can be trusted.
LEMMA SomeoneTrusted ==
    ASSUME request \in Requests
    PROVE  /\ Order \in Seq(Backends) /\ Len(Order) \in Nat \ {0}
           /\ \E i \in 1..Len(Order) : Order[i] \notin request.faulty
<1>1. request.faulty \subseteq Backends /\ request.solver \in Solvers
  BY RequestAssumption
<1>2. CASE request.solver = "portfolio"
  <2>0. request.faulty # Backends
    BY <1>2, RequestAssumption
  <2>1. PICK b \in Backends : b \notin request.faulty
    BY <1>1, <2>0
  <2>2. Order = <<"z3", "cvc5", "bitwuzla">>
    BY <1>2 DEF Order
  <2>3. b \in {"z3", "cvc5", "bitwuzla"}
    BY <2>1 DEF Backends, Solvers
  <2>4. \E i \in 1..3 : Order[i] = b
    BY <2>2, <2>3
  <2>5. QED
    BY <2>1, <2>2, <2>4 DEF Backends, Solvers
<1>3. CASE request.solver # "portfolio"
  BY <1>1, <1>3, RequestAssumption DEF Order, Backends
<1>4. QED
  BY <1>2, <1>3

\* Two answers to one formula.
LEMMA CombinedVerdict ==
    ASSUME NEW b, NEW s \in Slices, NEW taken \in Replies(b, s, "taken"),
           NEW not_taken \in Replies(b, s, "not_taken")
    PROVE  /\ Combine(taken, not_taken) \in Verdicts
           /\ b \notin request.faulty /\ Combine(taken, not_taken) \in Constant =>
                 s.sat = Pins(Combine(taken, not_taken))
<1>1. s.sat \subseteq Directions
  BY DEF Slices
<1>2. /\ taken \in {"sat", "unsat", "unknown"} /\ not_taken \in {"sat", "unsat", "unknown"}
      /\ b \notin request.faulty =>
            /\ taken # "unknown" => ((taken = "sat") <=> ("taken" \in s.sat))
            /\ not_taken # "unknown" => ((not_taken = "sat") <=> ("not_taken" \in s.sat))
  BY DEF Replies
<1>3. Combine(taken, not_taken) \in Verdicts
  BY <1>2 DEF Combine, Verdicts
<1>4. ASSUME b \notin request.faulty, Combine(taken, not_taken) = "AlwaysTrue"
      PROVE  s.sat = {"taken"}
  <2>1. taken = "sat" /\ not_taken = "unsat"
    BY <1>2, <1>4 DEF Combine
  <2>2. QED
    BY <1>1, <1>2, <1>4, <2>1 DEF Directions
<1>5. ASSUME b \notin request.faulty, Combine(taken, not_taken) = "AlwaysFalse"
      PROVE  s.sat = {"not_taken"}
  <2>1. taken = "unsat" /\ not_taken = "sat"
    BY <1>2, <1>5 DEF Combine
  <2>2. QED
    BY <1>1, <1>2, <1>5, <2>1 DEF Directions
<1>6. QED
  BY <1>3, <1>4, <1>5 DEF Constant, Pins

-----------------------------------------------------------------------------
(* Slicing and solving. *)

LEMMA BeginKeeps == IInv /\ (Begin \/ Rederive) => IInv'
BY DEF IInv, Position, Asked, Trusted, Found, Sound, PlanIsBuilt, Branches, Order,
   Begin, Rederive, branch, Deciding, Solving, Pinned

LEMMA SliceKeeps == IInv /\ PrepareSsa => IInv'
<1> SUFFICES ASSUME IInv, PrepareSsa PROVE IInv'
  OBVIOUS
<1> USE DEF PrepareSsa, branch
<1>1. PICK st : slice' \in SliceOf(at, st)
  OBVIOUS
<1>2. slice'.status = st
  BY <1>1 DEF SliceOf
<1>3. Position'
  BY SomeoneTrusted DEF IInv, Position, Branches, Order, Deciding, Solving
<1>4. Asked'
  BY <1>1, <1>2 DEF IInv, Asked, SliceOf, Widened, Solving
<1>5. Trusted'
  BY DEF Trusted
<1>6. Found'
  BY DEF IInv, Found, Sound, PlanIsBuilt, Pinned
<1>7. QED
  BY <1>3, <1>4, <1>5, <1>6 DEF IInv

\* A backend has answered: the next one is asked, or all of them have.
LEMMA AnsweredKeeps ==
    ASSUME IInv, pc \in Solving, NEW v \in Verdicts, Answered(v), child' = Nobody,
           Backend \notin request.faulty /\ v \in Constant =>
               Widened(slice) /\ slice.sat = Pins(v),
           UNCHANGED <<branch, folded, slice, findings, plan>>
    PROVE  IInv'
<1> USE DEF branch
<1>1. /\ verdicts' = Append(verdicts, v) /\ answers' = <<>>
      /\ pc' = IF Len(verdicts) + 1 = Len(Order) THEN "classify" ELSE "solve"
  BY DEF Answered
<1>2. /\ request \in Requests /\ verdicts \in Seq(Verdicts)
      /\ Len(verdicts) < Len(Order) /\ at \in Branches
  BY DEF IInv, Position, Deciding
<1>3. /\ Len(verdicts') = Len(verdicts) + 1
      /\ verdicts' \in Seq(Verdicts)
      /\ DOMAIN verdicts' = 1..(Len(verdicts) + 1)
      /\ \A i \in DOMAIN verdicts : verdicts'[i] = verdicts[i]
      /\ verdicts'[Len(verdicts) + 1] = v
  BY <1>1, <1>2
<1>4. Order' = Order /\ Branches' = Branches /\ Len(Order) \in Nat
  BY <1>2, SomeoneTrusted DEF Order, Branches
<1>5. Position'
  BY <1>1, <1>2, <1>3, <1>4 DEF IInv, Position, Nobody, Deciding, Solving
<1>6. Asked'
  BY <1>1 DEF IInv, Asked, SliceOf, Widened, Solving
<1>7. Trusted'
  <2>1. \A i \in DOMAIN verdicts' : i \in DOMAIN verdicts \/ i = Len(verdicts) + 1
    BY <1>2, <1>3
  <2>2. Widened(slice)' = Widened(slice)
    BY DEF Widened
  <2>3. QED
    BY <1>1, <1>3, <1>4, <2>1, <2>2 DEF IInv, Trusted, Backend, Solving
<1>8. Found'
  BY <1>1 DEF IInv, Found, Sound, PlanIsBuilt, Pinned, Solving
<1>9. QED
  BY <1>5, <1>6, <1>7, <1>8 DEF IInv

\* Z3 answers at once, and whoever is not asked says that it cannot say.
LEMMA SolveKeeps == IInv /\ (SolveZ3 \/ Decline) => IInv'
<1> SUFFICES ASSUME IInv, SolveZ3 \/ Decline PROVE IInv'
  OBVIOUS
<1> USE DEF branch, Solving
<1>0. /\ pc = "solve" /\ child = Nobody /\ slice \in Slices
      /\ "Unsound" \in Verdicts /\ "Unsound" \notin Constant
  BY DEF IInv, Asked, SliceOf, SolveZ3, Decline, Verdicts, Constant
<1>1. CASE SolveZ3
  <2>1. PICK taken \in Replies("z3", slice, "taken"),
             not_taken \in Replies("z3", slice, "not_taken") :
          Answered(IF Refused(slice) \/ slice.form = "conflicting" THEN "Unsound"
                   ELSE Combine(taken, not_taken))
    BY <1>1 DEF SolveZ3
  <2> DEFINE v == IF Refused(slice) \/ slice.form = "conflicting" THEN "Unsound"
                  ELSE Combine(taken, not_taken)
  <2>2. v \in Verdicts
    BY <1>0, CombinedVerdict
  <2>3. Backend \notin request.faulty /\ v \in Constant =>
            Widened(slice) /\ slice.sat = Pins(v)
    BY <1>0, <1>1, CombinedVerdict DEF SolveZ3, Refused
  <2>4. Answered(v)
    BY <2>1
  <2> HIDE DEF v
  <2>5. QED
    BY <1>0, <1>1, <2>2, <2>3, <2>4, AnsweredKeeps DEF SolveZ3
<1>2. CASE Decline
  BY <1>0, <1>2, AnsweredKeeps DEF Decline
<1>3. QED
  BY <1>1, <1>2

\* A solver process: it is started, fed and, once it has gone, read.
LEMMA ProcessKeeps == IInv /\ (Spawn \/ Feed \/ Collect \/ Child) => IInv'
<1> SUFFICES ASSUME IInv, Spawn \/ Feed \/ Collect \/ Child PROVE IInv'
  OBVIOUS
<1> USE DEF branch
<1>0. Nobody.said = "nothing" /\ Nobody.lives = FALSE
  BY DEF Nobody
<1>1. ASSUME Abort, pc \in Deciding PROVE IInv'
  <2>1. Position'
    BY <1>1 DEF Abort, IInv, Position, Nobody, Branches, Order, Deciding, Solving
  <2>2. QED
    BY <1>1, <2>1 DEF Abort, IInv, Asked, Trusted, Found, Sound, PlanIsBuilt,
       Pinned, Solving
<1>2. CASE Spawn
  BY <1>0, <1>2 DEF Spawn, IInv, Position, Asked, Trusted, Found, Sound, PlanIsBuilt,
     Pinned, Branches, Order, Backend, Polarity, SliceOf, Widened, Refused, Unrendered,
     Replies, Deciding, Solving
<1>3. CASE Feed
  <2>1. CASE Abort
    BY <1>1, <1>3, <2>1 DEF Feed, Deciding, Solving
  <2>2. CASE ~Abort
    <3>1. /\ pc = "feed" /\ pc' = "collect" /\ child' = [child EXCEPT !.fed = TRUE]
          /\ UNCHANGED <<branch, folded, slice, answers, verdicts, findings, plan>>
      BY <1>3, <2>2 DEF Feed
    <3>2. QED
      BY <3>1 DEF IInv, Position, Asked, Trusted, Found, Sound, PlanIsBuilt,
         Pinned, Branches, Order, Backend, Polarity, SliceOf, Widened, Refused,
         Unrendered, Replies, Deciding, Solving
  <2>3. QED
    BY <2>1, <2>2
<1>4. CASE Collect
  <2>0. pc = "collect"
    BY <1>4 DEF Collect
  <2>1. CASE Abort
    BY <1>1, <2>0, <2>1 DEF Deciding, Solving
  <2>2. CASE ~Abort
    <3>1. /\ child.said # "nothing" /\ child' = Nobody
          /\ UNCHANGED <<branch, folded, slice, findings, plan>>
          /\ \/ /\ answers = <<>> /\ answers' = <<child.said>>
                /\ pc' = "solve" /\ verdicts' = verdicts
             \/ answers # <<>> /\ Answered(Combine(answers[1], child.said))
      BY <1>4, <2>2 DEF Collect
    <3>2. /\ child.said \in Replies(Backend, slice, Polarity)
          /\ ~Unrendered(slice) /\ slice \in Slices
      BY <2>0, <3>1 DEF IInv, Asked, SliceOf, Solving
    <3>3. CASE answers = <<>>
      <4>1. child.said \in Replies(Backend, slice, "taken")
        BY <3>2, <3>3 DEF Polarity
      <4>2. /\ answers' = <<child.said>> /\ pc' = "solve" /\ verdicts' = verdicts
        BY <3>1, <3>3
      <4>3. answers'[1] \in Replies(Backend, slice, "taken")
        BY <4>1, <4>2
      <4>4. Asked'
        BY <2>0, <3>1, <3>2, <4>2, <4>3 DEF IInv, Asked, SliceOf, Widened, Refused,
           Unrendered, Replies, Backend, Order, Solving
      <4>5. QED
        BY <2>0, <3>1, <4>2, <4>4 DEF IInv, Position, Nobody, Trusted, Found, Sound, PlanIsBuilt,
           Pinned, Branches, Order, Widened, Deciding, Solving
    <3>4. CASE answers # <<>>
      <4>1. /\ answers[1] \in Replies(Backend, slice, "taken")
            /\ child.said \in Replies(Backend, slice, "not_taken")
        BY <2>0, <3>2, <3>4 DEF IInv, Asked, Polarity, Solving
      <4>2. /\ Combine(answers[1], child.said) \in Verdicts
            /\ Backend \notin request.faulty /\ Combine(answers[1], child.said) \in Constant =>
                  slice.sat = Pins(Combine(answers[1], child.said))
        BY <3>2, <4>1, CombinedVerdict
      <4>3. Widened(slice)
        BY <3>2 DEF Unrendered, Refused
      <4>4. QED
        BY <2>0, <3>1, <3>4, <4>2, <4>3, AnsweredKeeps DEF Solving
    <3>5. QED
      BY <3>3, <3>4
  <2>3. QED
    BY <2>1, <2>2
<1>5. CASE Child
  <2>1. /\ UNCHANGED <<branch, pc, folded, slice, answers, verdicts, findings, plan>>
        /\ child.lives
        /\ child' \in [lives : BOOLEAN, fed : BOOLEAN,
                       said : {"nothing", "sat", "unsat", "unknown"}]
        /\ child'.said = child.said \/ child'.said \in Replies(Backend, slice, Polarity)
    BY <1>5 DEF Child, ChildAnswers, ChildDies, IInv, Position, Replies
  <2>2. pc \in {"feed", "collect"}
    BY <1>0, <2>1 DEF IInv, Asked
  <2>3. QED
    BY <2>1, <2>2 DEF IInv, Position, Asked, Trusted, Found, Sound, PlanIsBuilt,
       Pinned, Branches, Order, Backend, Polarity, SliceOf, Widened, Refused,
       Unrendered, Replies, Deciding, Solving
<1>6. QED
  BY <1>2, <1>3, <1>4, <1>5

\* An analysis that fails has no findings.
LEMMA FailureKeeps == IInv /\ SpawnFails => IInv'
<1> SUFFICES ASSUME IInv, SpawnFails PROVE IInv'
  OBVIOUS
<1>1. /\ pc' = "failed" /\ findings' = <<>> /\ child' = Nobody
      /\ UNCHANGED <<branch, folded, slice, answers, verdicts, plan>>
  BY DEF SpawnFails, Abort
<1>2. Position'
  BY <1>1 DEF IInv, Position, Nobody, branch, Branches, Order, Deciding, Solving
<1>3. QED
  BY <1>1, <1>2 DEF IInv, Asked, Trusted, Found, Sound, PlanIsBuilt, Pinned,
     Solving, branch

-----------------------------------------------------------------------------
(* Findings. *)

\* One more finding, of the branch under analysis.
LEMMA NextKeeps ==
    ASSUME IInv, pc \in Deciding \ {"feed", "collect"}, NEW f \in Findings,
           f.branch = at, Sound(f), NextBranch(f),
           UNCHANGED <<truth, request, answers, child, plan>>
    PROVE  IInv'
<1>1. f # NoFinding
  BY DEF Findings, NoFinding
<1>2. /\ findings' = Append(findings, f) /\ at' = at + 1 /\ verdicts' = <<>>
      /\ pc' = IF at = request.branches THEN "plan" ELSE "begin"
  BY <1>1 DEF NextBranch
<1>3. /\ request \in Requests /\ request.branches \in Nat /\ at \in 1..request.branches
      /\ findings \in Seq(Findings) /\ Len(findings) = at - 1
  BY RequestAssumption DEF IInv, Position, Found, Branches, Deciding, Solving
<1>4. /\ findings' \in Seq(Findings) /\ Len(findings') = at
      /\ DOMAIN findings' = 1..at
      /\ \A i \in DOMAIN findings : findings'[i] = findings[i]
      /\ findings'[at] = f
      /\ DOMAIN findings = 1..(at - 1)
  BY <1>2, <1>3
<1>5. child = Nobody
  BY DEF IInv, Asked
<1>6. Position'
  BY <1>2, <1>3 DEF IInv, Position, Branches, Order, Deciding, Solving
<1>7. Asked' /\ Trusted'
  BY <1>2, <1>5 DEF Asked, Trusted, Solving
<1>8. Found'
  <2>1. \A g : Sound(g)' = Sound(g)
    BY DEF Sound, Pinned
  <2>2. \A i \in DOMAIN findings' : i = at \/ i \in DOMAIN findings
    BY <1>3, <1>4
  <2>3. \A i \in DOMAIN findings' : Sound(findings'[i]) /\ findings'[i].branch = i
    BY <1>4, <2>2 DEF IInv, Found, Deciding, Solving
  <2>4. QED
    BY <1>2, <1>3, <1>4, <2>1, <2>3 DEF IInv, Found, PlanIsBuilt
<1>9. QED
  BY <1>6, <1>7, <1>8 DEF IInv

\* What all the backends say, one of them says who can be trusted.
LEMMA ConsensusTrue ==
    ASSUME IInv, pc = "classify"
    PROVE  /\ Consensus(verdicts) \in Verdicts
           /\ Consensus(verdicts) \in Constant =>
                 /\ Widened(slice) /\ slice.sat = Pins(Consensus(verdicts))
<1>1. /\ verdicts \in Seq(Verdicts) /\ Len(verdicts) = Len(Order)
      /\ request \in Requests
  BY DEF IInv, Position
<1>2. PICK i \in 1..Len(Order) : Order[i] \notin request.faulty
  BY <1>1, SomeoneTrusted
<1>3. Len(Order) \in Nat \ {0}
  BY <1>1, SomeoneTrusted
<1>4. i \in DOMAIN verdicts /\ 1 \in DOMAIN verdicts
  BY <1>1, <1>2, <1>3
<1>5. Consensus(verdicts) \in Verdicts
  BY <1>1, <1>4 DEF Consensus, Verdicts
<1>6. Consensus(verdicts) \in Constant => verdicts[i] = Consensus(verdicts)
  BY <1>4 DEF Consensus, Constant
<1>7. QED
  BY <1>2, <1>4, <1>5, <1>6 DEF IInv, Trusted

\* What is classified as constant is so in every execution.
LEMMA ClassifiedSound ==
    ASSUME IInv, pc = "classify", NEW has_inputs \in BOOLEAN, NEW on_flag \in BOOLEAN,
           NEW f, f = ClassifyFinding(slice, Consensus(verdicts), has_inputs, on_flag)
    PROVE  f \in Findings /\ f.branch = at /\ f.origin = "smt" /\ Sound(f)
<1> DEFINE v == Consensus(verdicts)
<1>1. v \in Verdicts /\ (v \in Constant => Widened(slice) /\ slice.sat = Pins(v))
  BY ConsensusTrue
<1>2. /\ slice.hole \in BOOLEAN
      /\ Widened(slice) /\ ~slice.hole => truth[at] \subseteq slice.sat
  BY DEF IInv, Asked, SliceOf, Slices, Solving
<1>3. truth[at] # {} /\ at \in Nat
  BY DEF IInv, Position, Deciding
<1> HIDE DEF v
<1>4. /\ f.branch = at /\ f.verdict = v /\ f.origin = "smt"
      /\ f.kind = IF slice.hole THEN "SuspiciousButUnknown" ELSE KindFor(v, has_inputs)
      /\ f.confidence = Downgrade(IF slice.hole THEN "Unknown" ELSE ConfidenceFor(v, slice),
                                  on_flag, slice.unknowns)
      /\ f = [branch |-> at, verdict |-> v, origin |-> "smt", kind |-> f.kind,
              confidence |-> f.confidence]
  BY DEF ClassifyFinding, v
<1>5. f.kind \in Actionable => ~slice.hole /\ v \in Constant
  BY <1>1, <1>2, <1>4 DEF KindFor, Actionable, Verdicts, Constant
<1>6. f.kind \in Actionable \cup {"RealBranch", "SuspiciousButUnknown"}
  BY <1>1, <1>2, <1>4 DEF KindFor, Actionable, Verdicts
<1>7. f.confidence \in Confidences
  BY <1>4 DEF Downgrade, ConfidenceFor, Confidences
<1>8. f \in Findings
  BY <1>1, <1>3, <1>4, <1>6, <1>7 DEF Findings
<1>9. f.kind \in Actionable => truth[at] = Pins(v)
  BY <1>1, <1>2, <1>3, <1>5 DEF Pins
<1>10. Sound(f)
  BY <1>4, <1>5, <1>9 DEF Sound, Pinned, Pins
<1>11. QED
  BY <1>4, <1>8, <1>10

\* The answer of radare2 is one that a rewrite can follow.
LEMMA LoweredSound ==
    ASSUME IInv, pc \in Deciding, NEW f, f = ClassifyLoweredUpstream(fold), f # NoFinding
    PROVE  f \in Findings /\ f.branch = at /\ f.origin = "cfg" /\ Sound(f)
<1>1. f = [branch |-> at, origin |-> "cfg", kind |-> "ConstantCondition",
           confidence |-> "High",
           verdict |-> IF fold = "taken" THEN "AlwaysTrue" ELSE "AlwaysFalse"]
  BY DEF ClassifyLoweredUpstream
<1>2. at \in Nat
  BY DEF IInv, Position
<1>3. f \in Findings
  BY <1>1, <1>2 DEF Findings, Verdicts, Actionable, Confidences
<1>4. QED
  BY <1>1, <1>3 DEF Sound, Constant

LEMMA ClassifyKeeps == IInv /\ Classify => IInv'
<1> SUFFICES ASSUME IInv, Classify PROVE IInv'
  OBVIOUS
<1>1. PICK has_inputs \in BOOLEAN, on_flag \in BOOLEAN :
        LET f == ClassifyFinding(slice, Consensus(verdicts), has_inputs, on_flag)
        IN  NextBranch(IF folded
                       THEN ReconcileFolded(f, ClassifyLoweredUpstream(fold))
                       ELSE f)
  BY DEF Classify
<1> DEFINE f == ClassifyFinding(slice, Consensus(verdicts), has_inputs, on_flag)
           c == ClassifyLoweredUpstream(fold)
           g == IF folded THEN ReconcileFolded(f, c) ELSE f
<1>2. pc = "classify" /\ pc \in Deciding \ {"feed", "collect"}
  BY DEF Classify, Deciding
<1>3. f \in Findings /\ f.branch = at /\ Sound(f)
  BY <1>2, ClassifiedSound
<1>4. c # NoFinding => c \in Findings /\ c.branch = at /\ Sound(c)
  BY <1>2, LoweredSound
<1>5. NextBranch(g)
  BY <1>1
<1> HIDE DEF f, c
<1>6. g \in Findings /\ g.branch = at /\ Sound(g)
  BY <1>3, <1>4 DEF ReconcileFolded
<1> HIDE DEF g
<1>7. QED
  BY <1>2, <1>5, <1>6, NextKeeps DEF Classify

LEMMA NoBlockKeeps == IInv /\ NoBlock => IInv'
<1> SUFFICES ASSUME IInv, NoBlock PROVE IInv'
  OBVIOUS
<1> DEFINE f == ReconcileFolded(NoFinding, ClassifyLoweredUpstream(fold))
<1>1. f = ClassifyLoweredUpstream(fold)
  BY DEF ReconcileFolded
<1>2. pc = "begin" /\ pc \in Deciding \ {"feed", "collect"}
  BY DEF NoBlock, Deciding
<1>3. \/ /\ f # NoFinding /\ NextBranch(f)
         /\ UNCHANGED <<truth, request, answers, child, plan>>
      \/ /\ pc' = "slice"
         /\ UNCHANGED <<branch, folded, slice, answers, verdicts, child, findings, plan>>
  BY DEF NoBlock
<1> HIDE DEF f
<1>4. CASE f # NoFinding /\ NextBranch(f) /\ UNCHANGED <<truth, request, answers, child, plan>>
  <2>1. f \in Findings /\ f.branch = at /\ Sound(f)
    BY <1>1, <1>2, <1>4, LoweredSound
  <2>2. QED
    BY <1>2, <1>4, <2>1, NextKeeps
<1>5. CASE /\ pc' = "slice"
           /\ UNCHANGED <<branch, folded, slice, answers, verdicts, child, findings, plan>>
  BY <1>2, <1>5 DEF IInv, Position, Asked, Trusted, Found, Sound, PlanIsBuilt,
     Branches, Order, branch, Deciding, Solving, Pinned
<1>6. QED
  BY <1>3, <1>4, <1>5

\* Only what is sound is planned, and there is nothing else to give up on.
LEMMA PlanKeeps == IInv /\ BuildPlan => IInv'
<1> SUFFICES ASSUME IInv, BuildPlan PROVE IInv'
  OBVIOUS
<1> USE DEF branch
<1>1. PICK min \in Confidences :
        \/ plan' \in SUBSET Considered(min) /\ pc' = "done"
        \/ /\ \E f \in Considered(min) : f.verdict \notin {"AlwaysTrue", "AlwaysFalse"}
           /\ pc' = "unplanned" /\ UNCHANGED plan
  BY DEF BuildPlan
<1>2. \A f \in Considered(min) : Sound(f) /\ f.kind \in Actionable
  BY DEF IInv, Found, Considered
<1>3. pc = "plan" /\ pc' = "done" /\ \A f \in plan' : f \in Considered(min)
  BY <1>1, <1>2 DEF BuildPlan, Sound, Constant
<1>4. Position' /\ Asked' /\ Trusted'
  BY <1>3 DEF BuildPlan, IInv, Position, Asked, Trusted, Branches, Order, Deciding,
     Solving
<1>5. \A f : Sound(f)' = Sound(f)
  BY DEF BuildPlan, Sound, Pinned
<1>6. Found'
  BY <1>2, <1>3, <1>5 DEF BuildPlan, IInv, Found, PlanIsBuilt
<1>7. QED
  BY <1>4, <1>6 DEF IInv

-----------------------------------------------------------------------------
(* The results. *)

LEMMA InitInv == Init => IInv
<1> SUFFICES ASSUME Init PROVE IInv
  OBVIOUS
<1>1. request \in Requests /\ request.branches \in Nat \ {0}
  BY RequestAssumption DEF Init
<1>2. 1 \in Branches
  BY <1>1 DEF Branches
<1>3. QED
  BY <1>1, <1>2 DEF Init, IInv, Position, Asked, Trusted, Found, PlanIsBuilt,
     Deciding, Solving, Nobody

LEMMA NextInv == IInv /\ [Next]_vars => IInv'
<1> SUFFICES ASSUME IInv, [Next]_vars PROVE IInv'
  OBVIOUS
<1>1. CASE UNCHANGED vars
  BY <1>1 DEF vars, branch, IInv, Position, Asked, Trusted, Found, Sound, PlanIsBuilt,
     Pinned, Branches, Order, Backend, Polarity, SliceOf, Widened, Refused, Unrendered,
     Replies
<1>2. CASE Next
  BY <1>2, BeginKeeps, SliceKeeps, SolveKeeps, ProcessKeeps, FailureKeeps, ClassifyKeeps,
     NoBlockKeeps, PlanKeeps DEF Next, Analyzer
<1>3. QED
  BY <1>1, <1>2

\* What is rewritten on the word of the solvers is constant in every
\* execution, the way it is rewritten.
THEOREM RewritesSound == Spec => []RewritesAreSound
<1>1. IInv => RewritesAreSound
  BY DEF IInv, Found, Sound, RewritesAreSound
<1>2. QED
  BY <1>1, InitInv, NextInv, PTL DEF Spec

\* A request that ends well has a finding for every branch, in order.
THEOREM NoBranchLost == Spec => []EveryBranchFound
<1>1. IInv => EveryBranchFound
  <2> SUFFICES ASSUME IInv, pc \in {"plan", "done"}
               PROVE  /\ Len(findings) = request.branches
                      /\ \A i \in Branches : findings[i].branch = i
    BY DEF EveryBranchFound
  <2>1. request.branches \in Nat
    BY RequestAssumption DEF IInv, Position
  <2>2. /\ findings \in Seq(Findings) /\ at = request.branches + 1
        /\ Len(findings) = at - 1
        /\ \A i \in DOMAIN findings : findings[i].branch = i
    BY DEF IInv, Found
  <2>3. QED
    BY <2>1, <2>2 DEF Branches
<1>2. QED
  BY <1>1, InitInv, NextInv, PTL DEF Spec

\* The planner never has to give a plan up.
THEOREM AlwaysPlanned == Spec => []PlanIsBuilt
<1>1. IInv => PlanIsBuilt
  BY DEF IInv, Found
<1>2. QED
  BY <1>1, InitInv, NextInv, PTL DEF Spec

\* A verdict that a sound slice supports is recorded, whatever radare2 made
\* of the branch.
THEOREM ProofGoesFirst == Spec => ProofPrevails
<1> DEFINE v == Consensus(verdicts)
           Prevails == /\ pc = "classify"
                       /\ v \in Definitive
                       /\ Widened(slice) /\ ~slice.hole
                       => findings'[Len(findings')].verdict = v
<1>1. IInv /\ Next => Prevails
  <2> SUFFICES ASSUME IInv, Next, pc = "classify", v \in Definitive,
                      Widened(slice), ~slice.hole
               PROVE  findings'[Len(findings')].verdict = v
    OBVIOUS
  <2>1. Classify
    <3>1. child = Nobody /\ ~child.lives
      BY DEF IInv, Asked, Nobody
    <3>2. ~Child
      BY <3>1 DEF Child, ChildAnswers, ChildDies
    <3>3. /\ ~Begin /\ ~Rederive /\ ~NoBlock /\ ~PrepareSsa /\ ~BuildPlan
          /\ ~Feed /\ ~Collect
      BY DEF Begin, Rederive, NoBlock, PrepareSsa, BuildPlan, Feed, Collect
    <3>4. ~SolveZ3 /\ ~Decline /\ ~Spawn /\ ~SpawnFails
      BY DEF SolveZ3, Decline, Spawn, SpawnFails
    <3>5. QED
      BY <3>2, <3>3, <3>4 DEF Next, Analyzer
  <2>2. PICK has_inputs \in BOOLEAN, on_flag \in BOOLEAN :
          LET f == ClassifyFinding(slice, v, has_inputs, on_flag)
          IN  NextBranch(IF folded
                         THEN ReconcileFolded(f, ClassifyLoweredUpstream(fold))
                         ELSE f)
    BY <2>1 DEF Classify
  <2> DEFINE f == ClassifyFinding(slice, v, has_inputs, on_flag)
  <2>3. f \in Findings
    BY ClassifiedSound
  <2>4. f.verdict = v
    BY DEF ClassifyFinding
  <2>5. f.confidence # "Unknown"
    BY DEF ClassifyFinding, Downgrade, ConfidenceFor
  <2> HIDE DEF f
  <2>6. f # NoFinding /\ NextBranch(f)
    BY <2>2, <2>3, <2>5 DEF ReconcileFolded, NoFinding, Findings, f
  <2>7. findings' = Append(findings, f) /\ findings \in Seq(Findings)
    BY <2>6 DEF NextBranch, IInv, Found
  <2>8. findings'[Len(findings')] = f
    BY <2>3, <2>7
  <2>9. QED
    BY <2>4, <2>8
<1>2. IInv /\ [Next]_vars => [Prevails]_vars
  BY <1>1
<1>3. QED
  BY <1>2, InitInv, NextInv, PTL DEF Spec, ProofPrevails

=============================================================================
