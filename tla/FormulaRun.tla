------------------------------ MODULE FormulaRun ------------------------------
(***************************************************************************)
(* From the lifted statements to the formulas: the slice is converted      *)
(* while the machine runs it over its memory, optimised pass by pass, and  *)
(* encoded for every backend.  The machine's run is one model of what the  *)
(* solver is asked about, and one of those the taint pass is about.        *)
(***************************************************************************)
EXTENDS Encodings, Taint

CONSTANTS
    Width,            \* the width of every register, flag and temporary
    Memory,           \* the bytes of the machine's memory at the start
    MaxStatements     \* bound on the statements of a slice

VARIABLES
    memory,
    formulas          \* what became of the formula of every backend
runVars == <<vars, optimiser, memory, formulas>>

RunInit == Init /\ passes = 0 /\ stage = "converting" /\ memory = Memory /\ formulas = <<>>

\* The width of an expression as a lifter makes one, 0 of any other: registers
\* are read at their width, literals fit theirs, and the two operands of an
\* operation have one (read_operand_at, coerce_to_width).
NodeSize(n, a) ==
    IF \E k \in DOMAIN a : a[k] = 0 THEN 0
    ELSE CASE n.op = "var" /\ n.name[1] \in Registers /\ n.bits = Width[n.name[1]] -> n.bits
      [] n.op = "const" /\ n.bits \in Nat /\ n.value \in 0..(2 ^ n.bits - 1) -> n.bits
      [] n.op = "unknown" /\ n.stands[1] \in Hidden -> Widest
      [] n.op = "not" /\ a[1] = 1 -> 1
      [] n.op \in Relations \cup {"booland", "boolor"} -> 1
      [] n.op \in Wrapping \cup {"ror"} /\ a[1] = a[2] -> a[1]
      [] n.op = "ite" /\ a[2] = a[3] -> a[2]
      [] n.op = "extract" /\ n.lo \in 0..n.hi /\ n.hi \in 0..(a[1] - 1) -> n.hi - n.lo + 1
      [] n.op = "concat" -> a[1] + a[2]
      [] n.op \in {"zext", "sext"} /\ n.to \in Nat /\ n.to >= a[1] -> n.to
      [] OTHER -> 0
Size(e) == Fold(e, NodeSize)
\* A register is assigned a value of its width, or what the lifter cannot say.
Sized(s) ==
    /\ \A i \in DOMAIN s.parts : Size(s.parts[i]) # 0
    /\ s.kind = "assign" => \/ s.bits = Size(s.parts[1])
                            \/ Len(s.parts[1]) = 1 /\ ContainsUnknown(s.parts[1])
    /\ s.kind = "store" => s.bits \in Nat /\ Bytes(s.bits) <= 2 ^ Widest
ASSUME WidthsAssumption ==
    /\ Widest \in Nat \ {0} /\ ByteBits \in Nat \ {0}
    /\ Width \in [Registers -> Nat \ {0}]
    /\ Memory \in [0..(2 ^ Widest - 1) -> 0..(2 ^ ByteBits - 1)]
    /\ \A s \in Statements : Sized(s) /\ (Defines(s) => s.bits = Width[s.dst])
    /\ \A c \in Conditions : Size(c) # 0
\* A load is lifted where its address can be said, and declined where not.
ASSUME AddressesAssumption ==
    \A s \in Statements : s.kind = "load" => ~ContainsUnknown(s.parts[1])

Word(mem, address, b) ==
    LET sum[i \in 0..Bytes(b)] ==
            IF i = 0 THEN 0 ELSE sum[i - 1] + 2 ^ (ByteBits * (i - 1)) * mem[OffsetBy(address, i)]
    IN  sum[Bytes(b)]
Written(mem, address, x, b) ==
    [p \in DOMAIN mem |->
        IF \E i \in 1..Bytes(b) : OffsetBy(address, i) = p
        THEN ByteOf(x, CHOOSE i \in 1..Bytes(b) : OffsetBy(address, i) = p) ELSE mem[p]]

Convert(s) ==
    /\ stage = "converting" /\ Converting /\ Len(statements) < MaxStatements
    /\ LET at == Denotes(s, env)
       IN  \/ (RenameAssign(s) \/ Keep(s)) /\ UNCHANGED memory
           \/ RenameLoad(s, Word(memory, at[1], s.bits)) /\ UNCHANGED memory
           \/ RenameStore(s) /\ memory' = Written(memory, at[1], at[2], s.bits)
    /\ UNCHANGED <<optimiser, formulas>>

Conclude(c) ==
    /\ stage = "converting" /\ Converting /\ RenameCondition(c)
    /\ stage' = "optimising"
    /\ UNCHANGED <<passes, memory, formulas>>

EncodeSlice ==
    /\ stage = "done" /\ formulas = <<>>
    /\ formulas' = [backend \in Backends |-> Formula(backend, val)]
    /\ UNCHANGED <<vars, optimiser, memory>>

RunNext ==
    \/ \E s \in Statements : Convert(s)
    \/ \E c \in Conditions : Conclude(c)
    \/ Pass /\ UNCHANGED <<memory, formulas>>
    \/ Recompute /\ UNCHANGED <<memory, formulas>>
    \/ EncodeSlice
RunSpec == RunInit /\ [][RunNext]_runVars

----------------------------------------------------------------------------
\* Whatever the machine does is a model of the formula: once the slice is
\* encoded, no assertion contradicts a run of it, and the condition is what
\* the branch of that run tests.  A formula that leaves such a run out proves
\* a branch dead that the program takes.  Nor is a backend handed a script
\* that it cannot parse.
FormulaHolds ==
    \A backend \in DOMAIN formulas :
        LET f == formulas[backend]
        IN  /\ "illsorted" \notin f.outcome
            /\ "refused" \notin f.outcome => "false" \notin f.outcome /\ f.condition = taken

\* Of a slice whose registers the lifter reads at one width, whatever the
\* passes have made of it, Z3 declines nothing and the text declines an
\* unknown or a rotation by a register and nothing else (encoder.rs calls
\* the conflict unreachable, an argument and not a fact).
NoWidthConflict ==
    \A backend \in DOMAIN formulas :
        "refused" \in formulas[backend].outcome => backend = "text" /\ Untextual

\* The slice run by the machine from another start.
RerunStatement(r, s) ==
    LET at == Denotes(s, r.val)
        set(v) == [n \in DOMAIN r.val \cup {s.dst} |-> IF n = s.dst THEN v ELSE r.val[n]]
    IN  CASE s.kind = "assign" -> [val |-> set(at[1]), mem |-> r.mem]
          [] s.kind = "load" -> [val |-> set(Word(r.mem, at[1], s.bits)), mem |-> r.mem]
          [] s.kind = "store" -> [val |-> r.val, mem |-> Written(r.mem, at[1], at[2], s.bits)]
          [] OTHER -> r
Rerun(start) ==
    LET upTo[k \in 0..Len(statements)] ==
            IF k = 0 THEN [val |-> start, mem |-> Memory]
            ELSE RerunStatement(upTo[k - 1], statements[k])
    IN  upTo[Len(statements)].val
\* Another start, of the same values but for those of some names.
Varied(names, start) == [n \in PlainNames |-> IF n \in names THEN start[n] ELSE val[n]]
Hiding == {Plain(k) : k \in Hidden}
\* The pass looks at no address of a store: where that derives from a source,
\* or is unknown, a load may bring what the source decides.
StoresBlindly(p) ==
    \E k \in DOMAIN statements :
        /\ statements[k].kind = "store"
        /\ \/ TaintOfExpr(p.taint, statements[k].parts[1]) # {}
           \/ ContainsUnknown(statements[k].parts[1])
Independent(p, source, start) ==
    ~p.opaque /\ ~StoresBlindly(p) =>
        \A k \in DOMAIN defs :
            LET n == defs[k].name IN source \notin TaintOf(p.taint, n) => Rerun(start)[n] = val[n]

\* What the pass reports free of a source is so, through registers, memory and
\* conditions: whatever the source holds, and whatever the lifter could not
\* say, the value stays what it is.  One exception is named, StoresBlindly.
TaintIsSound ==
    stage = "done" /\ formulas = <<>> =>
        \A start \in Starts :
            /\ \A x \in Registers : Independent(Propagate(Registers), x, Varied({Plain(x)} \cup Hiding, start))
            /\ Independent(Propagate({}), "any input", start)
=============================================================================
