------------------------------ MODULE SsaConvert ------------------------------
(***************************************************************************)
(* ssa_convert: the statements of a lifted slice, renamed one after the    *)
(* other so that every definition has a name of its own.                   *)
(*                                                                         *)
(* A name is a register and a version; the name that a slice reads before  *)
(* it has defined it has no version.  Beside the converter the machine     *)
(* runs the lifted statements: env holds what its registers hold, val what *)
(* every renamed definition came to be, and an emitted statement remembers *)
(* in seen what its expressions came to.  What a load brings is the        *)
(* caller's to say.                                                        *)
(***************************************************************************)
EXTENDS Expressions

CONSTANTS
    Registers,     \* registers, flags and temporaries of the lifter
    Hidden,        \* the values an Expr::Unknown may stand for
    Statements,    \* the statements a lifter may emit
    Conditions,    \* the conditions of branches
    Starts         \* what the registers may hold at the start of the slice

VARIABLES
    latest,        \* the version of every register
    statements, condition, inputs, defs,    \* the slice in SSA form
    env, val, taken                         \* the machine
slice == <<statements, condition, inputs, defs>>
machine == <<env, val, taken>>
vars == <<latest, slice, machine>>

None == -1
Plain(x) == <<x, None>>
Named(x) == <<x, latest[x]>>
\* Mutant: a second definition of a register gets the version of the first.
FreshMutant(x) == <<x, 0>>
Fresh(x) == <<x, latest[x] + 1>>
PlainNames == {Plain(x) : x \in Registers \cup Hidden}
Versions == Registers \X Nat

\* IrStmt: a kind, the destination and the width of the access, and the
\* expressions: a value, an address, or an address and a value.
Assign(x, b, e) == [kind |-> "assign", dst |-> x, bits |-> b, parts |-> <<e>>]
Load(x, a, b) == [kind |-> "load", dst |-> x, bits |-> b, parts |-> <<a>>]
Store(a, e, b) == [kind |-> "store", bits |-> b, parts |-> <<a, e>>]
Unsupported == [kind |-> "unsupported", parts |-> <<>>]
Nop == [kind |-> "nop", parts |-> <<>>]
Defines(s) == s.kind \in {"assign", "load"}
\* An address has the width of a pointer, a value that of the access.
PartBits(s, i) == IF s.kind = "assign" \/ i = 2 THEN s.bits ELSE Widest
Denotes(s, e) == [i \in DOMAIN s.parts |-> DenoteAt(s.parts[i], e, PartBits(s, i))]

\* What the lifter hands over is over plain names.
Lifted(e) ==
    \A i \in DOMAIN e :
        /\ IsVar(e[i]) => e[i] \in {Variable(Plain(x), e[i].bits) : x \in Registers}
        /\ e[i].op = "unknown" => e[i].stands \in {Plain(k) : k \in Hidden}
ASSUME ConstantsAssumption ==
    /\ Registers \cap Hidden = {}
    /\ Starts \subseteq [PlainNames -> Nat]
    /\ \A s \in Statements :
         /\ \/ Defines(s) /\ s.dst \in Registers /\ s.parts = <<s.parts[1]>>
            \/ s.kind = "store" /\ s.parts = <<s.parts[1], s.parts[2]>>
            \/ s \in {Unsupported, Nop}
         /\ \A i \in DOMAIN s.parts : Lifted(s.parts[i]) /\ Proper(s.parts[i])
    /\ \A c \in Conditions : Lifted(c) /\ Proper(c)

----------------------------------------------------------------------------
\* rename_reads.
Rename(e) ==
    [i \in DOMAIN e |-> IF IsVar(e[i]) THEN Variable(Named(e[i].name[1]), e[i].bits) ELSE e[i]]
Renamed(s) == [i \in DOMAIN s.parts |-> Rename(s.parts[i])]
\* What is read of e and not among the names known becomes an input, at the
\* width it is first read at.
WithReads(ins, e, known) ==
    [n \in DOMAIN ins \cup (Reads(e) \ known) |-> IF n \in DOMAIN ins THEN ins[n] ELSE FirstWidth(e, n)]
WithParts(ins, parts, known) ==
    LET upTo[i \in 0..Len(parts)] ==
            IF i = 0 THEN ins ELSE WithReads(upTo[i - 1], parts[i], known)
    IN  upTo[Len(parts)]

Init ==
    /\ latest = [x \in Registers |-> None]
    /\ statements = <<>> /\ condition = <<>> /\ defs = <<>>
    /\ inputs = [n \in {} |-> 0]
    /\ env \in Starts
    /\ val = env
    /\ taken = FALSE

Define(s, v) ==
    /\ statements' = Append(statements, [kind |-> s.kind, dst |-> Fresh(s.dst), bits |-> s.bits,
                                         parts |-> Renamed(s), seen |-> Denotes(s, env)])
    /\ inputs' = WithParts(inputs, Renamed(s), Versions)
    /\ latest' = [latest EXCEPT ![s.dst] = @ + 1]
    /\ defs' = Append(defs, [name |-> Fresh(s.dst), bits |-> s.bits])
    /\ env' = [env EXCEPT ![Plain(s.dst)] = v]
    /\ val' = [n \in DOMAIN val \cup {Fresh(s.dst)} |-> IF n = Fresh(s.dst) THEN v ELSE val[n]]
    /\ UNCHANGED <<condition, taken>>

RenameAssign(s) == s.kind = "assign" /\ Define(s, Denotes(s, env)[1])
RenameLoad(s, v) == s.kind = "load" /\ Define(s, v)
RenameStore(s) ==
    /\ s.kind = "store"
    /\ statements' = Append(statements, [kind |-> "store", bits |-> s.bits,
                                         parts |-> Renamed(s), seen |-> Denotes(s, env)])
    /\ inputs' = WithParts(inputs, Renamed(s), Versions)
    /\ UNCHANGED <<latest, condition, defs, machine>>
Keep(s) ==
    /\ s.kind \in {"unsupported", "nop"}
    /\ statements' = Append(statements, s)
    /\ UNCHANGED <<latest, condition, inputs, defs, machine>>
RenameCondition(c) ==
    /\ condition' = Rename(c)
    /\ inputs' = WithReads(inputs, Rename(c), Versions)
    /\ taken' = Holds(c, env)
    /\ UNCHANGED <<latest, statements, defs, env, val>>

Converting == condition = <<>>
Next ==
    /\ Converting
    /\ \/ \E s \in Statements : \/ RenameAssign(s)
                                \/ \E v \in 0..(2 ^ s.bits - 1) : RenameLoad(s, v)
                                \/ RenameStore(s)
                                \/ Keep(s)
       \/ \E c \in Conditions : RenameCondition(c)
Spec == Init /\ [][Next]_vars

----------------------------------------------------------------------------
\* What a statement of the slice says is so of what the machine did.
Satisfied(s) ==
    /\ s.kind \in {"assign", "load", "store"} => s.seen = Denotes(s, val)
    /\ s.kind = "assign" => val[s.dst] = Denotes(s, val)[1]

\* Whatever the machine does with the instructions of the slice satisfies all
\* of the slice at once, however often a register is written: the statements,
\* where they read and write memory, and the way the branch goes (convert.rs
\* renames, optimize.rs keeps what it has renamed true).
SliceIsTrue ==
    /\ \A k \in DOMAIN statements : Satisfied(statements[k])
    /\ ~Converting => (taken <=> Holds(condition, val))
=============================================================================
