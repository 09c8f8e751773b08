------------------------------ MODULE SliceRun -------------------------------
(***************************************************************************)
(* What a slice is for.  After the walk of SliceWalk the function is       *)
(* executed: it is entered at its entry and takes any successor, and each  *)
(* time it reaches the branch, the values the slice computes must be those *)
(* the processor has.  The slice is solved when it is complete, or when it *)
(* is truncated and treat_truncation_as_inputs is set (solve_branch of     *)
(* crates/r2smt-smt/src/solver.rs).                                        *)
(***************************************************************************)
EXTENDS SliceWalk

CONSTANT MaxPath   \* bound on the blocks a run executes

ASSUME PathAssumption == MaxPath \in Nat

VARIABLES
    path,          \* the blocks executed so far, the most recent first
    trace          \* the instructions executed so far, the most recent first

runVars == <<vars, path, trace>>

RunInit == Init /\ path = <<>> /\ trace = <<>>

Slicing == Next /\ UNCHANGED <<path, trace>>

\* The instructions of a block, the last one first.
Upwards(b) ==
    [i \in 1..Len(prog.body[b]) |-> <<b, Len(prog.body[b]) + 1 - i>>]

Execute(b) == path' = <<b>> \o path /\ trace' = Upwards(b) \o trace

Enter ==
    /\ status \in {"complete", "truncated"}
    /\ path = <<>>
    /\ Execute(prog.entry)
    /\ UNCHANGED vars

Advance ==
    /\ path # <<>>
    /\ Len(path) < MaxPath
    /\ \E b \in prog.succ[Head(path)] : Execute(b)
    /\ UNCHANGED vars

RunNext == Slicing \/ Enter \/ Advance

RunSpec == RunInit /\ [][RunNext]_runVars

-----------------------------------------------------------------------------

\* solve_branch refuses an incomplete slice unless its roots are inputs.
Solved == status = "complete" \/ (status = "truncated" /\ treat)

AtBranch == path # <<>> /\ Head(path) = prog.seed

\* Where the value reader k has for l was written: the position of the
\* nearest instruction above k that writes it, Outside when there is none.
Outside == -1
Nearest(S) == IF S = {} THEN Outside ELSE CHOOSE n \in S : \A m \in S : n <= m

SliceSource(k, l) == Nearest({d \in kept : d > k /\ l \in WrittenAt(d)})
RealSource(k, l) ==
    Nearest({d \in DOMAIN trace : d > k /\ l \in Writes(InsnAt(trace[d]))})

\* "Introducing free symbolic variables can only widen an AlwaysX to
\* BothPossible, never fabricate a verdict": on every path that reaches the
\* branch, the kept instructions are the ones executed, a read the slice
\* resolves has the definition it really has, and two reads that share one
\* free input of the slice have one value.
SliceFaithful ==
    Solved /\ AtBranch =>
        /\ \A k \in kept : k \in DOMAIN trace /\ trace[k] = walked[k]
        /\ \A k \in Readers : \A l \in ReadAt(k) :
             \/ /\ SliceSource(k, l) # Outside
                /\ RealSource(k, l) = SliceSource(k, l)
             \/ /\ SliceSource(k, l) = Outside
                /\ \A j \in Readers :
                     l \in ReadAt(j) /\ SliceSource(j, l) = Outside =>
                        RealSource(j, l) = RealSource(k, l)

\* The functions SliceFaithful is about: the entry has no lone predecessor but
\* the block of the branch itself.  walk_backwards takes the lone predecessor
\* of a block for the only way into it, the entry included, which a function
\* is entered at from outside.
EntryAlone ==
    \A f \in Programs : \A b \in Blocks :
        {p \in Blocks : f.entry \in f.succ[p]} = {b} => b = f.seed

\* The slice assumes the rounding mode the function was entered with, and no
\* instruction executed before has reprogrammed it.
ModeHolds ==
    \A k \in kept : InsnAt(walked[k]).fpu = "pins" =>
        \A d \in DOMAIN trace : d > k => InsnAt(trace[d]).fpu # "writes"

\* reject_unpinned_rounding_mode: a complete slice assumes a rounding mode
\* only where every path to the branch has it.
RoundingPinned == status = "complete" /\ AtBranch => ModeHolds

=============================================================================
