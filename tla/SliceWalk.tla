------------------------------ MODULE SliceWalk ------------------------------
(***************************************************************************)
(* The backward data-flow walk of the slicer: slice_branch and             *)
(* walk_backwards of crates/r2smt-slicer/src/slice.rs, with                *)
(* allow_join_merge off (the default).                                     *)
(*                                                                         *)
(* The walk starts above the branch and goes up, instruction by            *)
(* instruction and then through lone predecessors, keeping what defines a  *)
(* pending location.  An instruction is its InstructionEffect.  `live` and *)
(* `needs_flags` of the code are one set, pending: the flags are a         *)
(* location like the registers.                                            *)
(***************************************************************************)
EXTENDS Integers, Sequences, FiniteSets

CONSTANTS
    Regs,                 \* canonical parent registers
    Blocks,               \* addresses of basic blocks
    Programs,             \* the functions, each with the branch to slice for
    MaxInstructions,      \* SliceLimits
    MaxBasicBlocks,
    AllowMemory,
    AllowCalls,
    UnknownsOnTruncation

Locs == Regs \cup {"flags"}

\* InstructionEffect.  "harmless" and "unknown" are the instructions of kind
\* Other that SIDE_EFFECT_FREE_OTHER lists and the others (other_effect
\* records no definition for either); fpu tells those that assume a rounding
\* mode from those that reprogram it.
Effect == [kind : {"known", "call", "harmless", "unknown"},
           defs : SUBSET Locs, uses : SUBSET Locs,
           mem : {"none", "load", "store"}, modellable : BOOLEAN,
           fpu : {"none", "pins", "writes"}]

Insn == {i \in Effect :
            /\ i.kind \in {"harmless", "unknown"} => i.defs = {} /\ i.uses = {}
            /\ i.kind = "harmless" => i.mem # "store"}

\* seed is the block the branch ends; cond what its condition reads: the
\* flags, or the compare_register of cbz and its family.
Program == [entry : Blocks, seed : Blocks, cond : SUBSET Locs,
            succ : [Blocks -> SUBSET Blocks], body : [Blocks -> Seq(Insn)]]

ASSUME ProgramsAssumption == Programs \subseteq Program
ASSUME RegsAssumption == "flags" \notin Regs /\ "mem" \notin Regs
ASSUME LimitsAssumption ==
    /\ MaxInstructions \in Nat /\ MaxBasicBlocks \in Nat
    /\ {AllowMemory, AllowCalls, UnknownsOnTruncation} \subseteq BOOLEAN

VARIABLES
    prog,            \* the function and the branch
    status,          \* "walked" is Complete before the rounding check
    treat,           \* treat_truncation_as_inputs
    block, pos,      \* current_block, and how much of it is still above
    pending,         \* live, and "flags" when needs_flags
    kept,            \* positions in `walked` of the kept instructions
    walked,          \* history: the instructions passed, nearest first
    blocks_visited,
    visited

vars == <<prog, status, treat, block, pos, pending, kept, walked,
          blocks_visited, visited>>

-----------------------------------------------------------------------------

Sites == Blocks \X (Nat \ {0})
InsnAt(s) == prog.body[s[1]][s[2]]
Here == <<block, pos>>
This == InsnAt(Here)

Walking == status = "walking" /\ pos > 0
AtBlockEntry == status = "walking" /\ pos = 0
LimitReached == Cardinality(kept) >= MaxInstructions
Unmodellable ==
    This.mem # "none" /\ ~This.modellable /\ ~AllowMemory

\* predecessors_of: the blocks that list this one as a successor.
Preds(b) == {p \in Blocks : b \in prog.succ[p]}

Truncate ==
    /\ status' = "truncated"
    /\ treat' = UnknownsOnTruncation
    /\ UNCHANGED <<prog, block, pos, pending, kept, walked, blocks_visited,
                   visited>>

Complete ==
    /\ status' = "walked"
    /\ UNCHANGED <<prog, treat, block, pos, pending, kept, walked,
                   blocks_visited, visited>>

\* Pass one instruction.
Pass == /\ pos' = pos - 1
        /\ walked' = Append(walked, Here)
        /\ UNCHANGED <<prog, treat, block, blocks_visited, visited>>

\* WalkState::new.
Begin ==
    /\ status = "walking" /\ treat = FALSE
    /\ block = prog.seed /\ pos = Len(prog.body[prog.seed])
    /\ pending = prog.cond
    /\ kept = {} /\ walked = <<>>
    /\ blocks_visited = 1 /\ visited = {prog.seed}

Init == prog \in Programs /\ Begin

-----------------------------------------------------------------------------
(* walk_block: one action per way an instruction is dealt with, in the     *)
(* order the code tests for them.                                          *)

InstructionLimit == Walking /\ LimitReached /\ Truncate

\* A permitted call is a barrier for values and no definition of the flags.
Call ==
    /\ Walking /\ ~LimitReached
    /\ This.kind = "call"
    /\ \/ (~AllowCalls \/ "flags" \in pending) /\ Truncate
       \/ AllowCalls /\ "flags" \notin pending /\ Complete

UnmodellableMemory ==
    /\ Walking /\ ~LimitReached
    /\ This.kind # "call"
    /\ Unmodellable
    /\ Truncate

Other ==
    /\ Walking /\ ~LimitReached
    /\ This.kind \in {"harmless", "unknown"} /\ ~Unmodellable
    /\ \/ /\ This.kind = "unknown" /\ pending # {}
          /\ Truncate
       \/ /\ This.kind = "harmless" \/ pending = {}
          /\ Pass
          /\ UNCHANGED <<status, pending, kept>>

\* Mutant: a store that defines nothing pending is dropped.
WantedMutant == This.defs \cap pending # {}

\* touches_flags, touches_live, or a memory access.
Wanted == This.defs \cap pending # {} \/ This.mem # "none"

Skip ==
    /\ Walking /\ ~LimitReached
    /\ This.kind = "known" /\ ~Unmodellable
    /\ ~Wanted
    /\ Pass
    /\ UNCHANGED <<status, pending, kept>>

\* Mutant: the instruction recorded is the one kept before.
KeepMutant ==
    /\ Walking /\ ~LimitReached
    /\ This.kind = "known" /\ ~Unmodellable
    /\ Wanted
    /\ Pass
    /\ kept' = kept \cup {Len(walked)}
    /\ pending' = (pending \ This.defs) \cup This.uses
    /\ status' = IF pending' = {} THEN "walked" ELSE status

Keep ==
    /\ Walking /\ ~LimitReached
    /\ This.kind = "known" /\ ~Unmodellable
    /\ Wanted
    /\ Pass
    /\ kept' = kept \cup {Len(walked) + 1}
    /\ pending' = (pending \ This.defs) \cup This.uses
    /\ status' = IF pending' = {} THEN "walked" ELSE status

-----------------------------------------------------------------------------
(* resolve_block_entry, and the check on the finished slice.               *)

CanFollow(p) ==
    /\ Preds(block) = {p}
    /\ p \notin visited
    /\ blocks_visited < MaxBasicBlocks

\* Mutant: at a join the walk goes on into one of the predecessors.
FollowMutant ==
    /\ AtBlockEntry
    /\ \E p \in Preds(block) :
         /\ p \notin visited
         /\ blocks_visited < MaxBasicBlocks
         /\ block' = p
         /\ pos' = Len(prog.body[p])
         /\ visited' = visited \cup {p}
    /\ blocks_visited' = blocks_visited + 1
    /\ UNCHANGED <<prog, status, treat, pending, kept, walked>>

\* resolve_single_predecessor: into the end of the lone predecessor.
Follow ==
    /\ AtBlockEntry
    /\ \E p \in Blocks : /\ CanFollow(p)
                         /\ block' = p
                         /\ pos' = Len(prog.body[p])
                         /\ visited' = visited \cup {p}
    /\ blocks_visited' = blocks_visited + 1
    /\ UNCHANGED <<prog, status, treat, pending, kept, walked>>

\* finalize_at_block_entry: no predecessor, a join, a cycle or the budget.
Finalize ==
    /\ AtBlockEntry
    /\ \A p \in Blocks : ~CanFollow(p)
    /\ IF "flags" \in pending THEN Truncate ELSE Complete

\* Mutant: the guard is left out.
RejectUnpinnedRoundingModeMutant ==
    /\ status = "walked"
    /\ status' = "complete"
    /\ UNCHANGED <<prog, treat, block, pos, pending, kept, walked,
                   blocks_visited, visited>>

\* A complete slice that assumes a rounding mode is truncated when anything
\* in the function reprograms it.
RejectUnpinnedRoundingMode ==
    /\ status = "walked"
    /\ status' = IF /\ \E k \in kept : InsnAt(walked[k]).fpu = "pins"
                    /\ \E b \in Blocks : \E i \in DOMAIN prog.body[b] :
                         prog.body[b][i].fpu = "writes"
                 THEN "truncated" ELSE "complete"
    /\ UNCHANGED <<prog, treat, block, pos, pending, kept, walked,
                   blocks_visited, visited>>

Next == \/ InstructionLimit \/ Call \/ UnmodellableMemory \/ Other
        \/ Skip \/ Keep \/ Follow \/ Finalize
        \/ RejectUnpinnedRoundingMode

Spec == Init /\ [][Next]_vars

-----------------------------------------------------------------------------
(* Properties. *)

\* The types of the variables.
TypeOK ==
    /\ prog \in Program
    /\ status \in {"walking", "walked", "complete", "truncated"}
    /\ treat \in BOOLEAN
    /\ block \in Blocks
    /\ pos \in 0..Len(prog.body[block])
    /\ pending \subseteq Locs
    /\ walked \in Seq(Sites)
    /\ kept \subseteq DOMAIN walked
    /\ blocks_visited \in Nat
    /\ visited \subseteq Blocks

\* Position 0 stands for the branch.
Readers == {0} \cup kept

\* What a reader reads, and what an instruction writes over.
ReadAt(k) ==
    IF k = 0 THEN prog.cond
    ELSE InsnAt(walked[k]).uses
            \cup IF InsnAt(walked[k]).mem = "load" THEN {"mem"} ELSE {}

Writes(i) ==
    IF i.kind \in {"call", "unknown"} THEN Locs \cup {"mem"}
    ELSE i.defs \cup IF i.mem = "store" THEN {"mem"} ELSE {}

WrittenAt(k) == Writes(InsnAt(walked[k]))

\* No instruction the walk passed between position k and position n writes l.
Unwritten(l, k, n) == \A j \in (k + 1)..n : l \notin WrittenAt(j)

\* The walk never binds a read to the wrong definition: whatever the branch
\* or a kept instruction reads, the nearest instruction above it that writes
\* it, a store, a call or an unsupported instruction included, is itself in
\* the slice, and what nobody wrote so far is still pending, so that it ends
\* up a root of the slice and a free input of the solver.
SliceClosed ==
    /\ \A k \in Readers, d \in DOMAIN walked :
         k < d => \A l \in ReadAt(k) \cap WrittenAt(d) :
                    Unwritten(l, k, d - 1) => d \in kept
    /\ \A k \in Readers : \A l \in ReadAt(k) \ {"mem"} :
         Unwritten(l, k, Len(walked)) => l \in pending

\* The walk is over once nothing is pending: this, with SliceClosed, is
\* inductive, because an unsupported instruction is stepped over only when
\* nothing is pending.
DoneWhenResolved == status = "walking" /\ pending = {} => kept = {}

=============================================================================
