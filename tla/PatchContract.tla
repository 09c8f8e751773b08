---------------------------- MODULE PatchContract ----------------------------
(***************************************************************************)
(* What the patch transaction promises about the two files a user cares    *)
(* for: the target of the patch and the one the original is kept in (the   *)
(* backup of a patch in place, the input of a patch to a sibling file).    *)
(* Plans, temporary files, manifests and digests do not appear.            *)
(***************************************************************************)
EXTENDS Naturals, TLAPS

CONSTANTS Slots

VARIABLES
    target,    \* the file that is patched
    reserve,   \* the file the original is kept in
    approved,  \* the binary the user agreed to have patched
    phase,     \* what the running command may do to them
    edited     \* another program has written to the target

vars == <<target, reserve, approved, phase, edited>>

Absent   == [s \in Slots |-> "missing"]
Partial  == [s \in Slots |-> "cut"]
Original == [s \in Slots |-> "orig"]
Patched(f, S) == [s \in Slots |-> IF s \in S THEN "patched" ELSE f[s]]

Init ==
    /\ \/ target = Original /\ reserve = Absent
       \/ target = Absent /\ reserve = Original
    /\ approved = Absent
    /\ phase = "idle"
    /\ edited = FALSE

Approve ==
    /\ phase = "idle"
    /\ approved' \in {target, reserve} \ {Absent, Partial}
    /\ UNCHANGED <<target, reserve, phase, edited>>

Start ==
    /\ phase = "idle"
    /\ \/ approved # Absent /\ phase' = "applying"
       \/ phase' = "unwinding"
    /\ UNCHANGED <<target, reserve, approved, edited>>

\* A command returns, fails or is killed; what it wrote stays.
Stop ==
    /\ phase # "idle"
    /\ phase' = "idle"
    /\ UNCHANGED <<target, reserve, approved, edited>>

Fail ==
    /\ phase = "applying"
    /\ phase' = "failing"
    /\ UNCHANGED <<target, reserve, approved, edited>>

\* The reserve is made once, of the target, before the commit.
MakeReserve ==
    /\ phase = "applying"
    /\ \/ reserve = Absent /\ reserve' = Partial
       \/ reserve = Partial /\ reserve' = target
    /\ UNCHANGED <<target, approved, phase, edited>>

\* One step: the approved binary with at least one slot patched, while the
\* binary itself is in reserve.
Commit ==
    /\ phase = "applying"
    /\ edited \/ reserve = approved
    /\ \E S \in (SUBSET Slots) \ {{}} : target' = Patched(approved, S)
    /\ phase' = "committed"
    /\ UNCHANGED <<reserve, approved, edited>>

\* A commit that cannot be recorded is taken back.
Undo ==
    /\ phase = "committed"
    /\ \/ target' = Absent /\ phase' = "failing"
       \/ target' = Partial /\ phase' = "undoing"
    /\ UNCHANGED <<reserve, approved, edited>>
Restore ==
    /\ phase = "undoing"
    /\ target' = reserve
    /\ phase' = "failing"
    /\ UNCHANGED <<reserve, approved, edited>>

\* A rollback writes over patched bytes, one slot at a time, and over no other.
Unwind ==
    /\ phase = "unwinding"
    /\ phase' \in {"unwinding", "idle"}
    /\ \E s \in Slots :
          /\ target[s] = "patched"
          /\ \E f \in [Slots -> {"orig", "patched", "foreign", "cut", "missing"}] :
                target' = [target EXCEPT ![s] = f[s]]
    /\ UNCHANGED <<reserve, approved, edited>>

\* The user clears a finished transaction away, and keeps the original.
Tidy ==
    /\ phase = "idle"
    /\ target' \in {target, Absent}
    /\ reserve' \in {reserve, Absent}
    /\ edited \/ Original \in {target', reserve'}
    /\ UNCHANGED <<approved, phase, edited>>

Edit ==
    /\ edited' = TRUE
    /\ \E s \in Slots : target' = [target EXCEPT ![s] = "foreign"]
    /\ UNCHANGED <<reserve, approved, phase>>

Next ==
    \/ Approve \/ Start \/ Stop \/ Fail \/ MakeReserve \/ Commit
    \/ Undo \/ Restore \/ Unwind \/ Tidy \/ Edit

Spec == Init /\ [][Next]_vars

\* The original is whole in one of the two files.
Kept == edited \/ Original \in {target, reserve}

-----------------------------------------------------------------------------
\* What follows from the contract alone.

\* The inductive form of Kept: the reserve holds nothing, an unfinished copy
\* or the original, and the last from the commit on.
KeptSafe ==
    ~edited =>
        /\ Original \in {target, reserve}
        /\ reserve \in {Absent, Partial, Original}
        /\ phase \in {"committed", "undoing"} => reserve = Original
        /\ phase = "applying" => approved \notin {Absent, Partial}

\* The three files the contract names are different ones.
LEMMA Files ==
    ASSUME Slots # {}
    PROVE  Absent # Original /\ Partial # Original /\ Absent # Partial
<1>1. PICK s : s \in Slots
  OBVIOUS
<1>2. Absent[s] = "missing" /\ Partial[s] = "cut" /\ Original[s] = "orig"
  BY <1>1 DEF Absent, Partial, Original
<1>3. QED
  BY <1>2

\* The approved binary is one the user has seen.
LEMMA ApprovedStep ==
    approved # Partial /\ [Next]_vars => approved' # Partial
BY DEF Next, vars, Approve, Start, Stop, Fail, MakeReserve, Commit, Undo,
       Restore, Unwind, Tidy, Edit

\* Every step keeps the original.
LEMMA KeptStep ==
    ASSUME Slots # {}, KeptSafe, approved # Partial, [Next]_vars
    PROVE  KeptSafe'
<1> USE Files DEF KeptSafe
<1>0. CASE UNCHANGED vars
  BY <1>0 DEF vars, Absent, Partial, Original
<1>a. /\ Absent' = Absent /\ Partial' = Partial /\ Original' = Original
  BY DEF Absent, Partial, Original
<1>1. CASE Approve
  BY <1>1, <1>a DEF Approve
<1>2. CASE Start
  BY <1>2, <1>a DEF Start
<1>3. CASE Stop \/ Fail
  BY <1>3, <1>a DEF Stop, Fail
<1>4. CASE MakeReserve
  BY <1>4, <1>a DEF MakeReserve
<1>5. CASE Commit
  BY <1>5, <1>a DEF Commit
<1>6. CASE Undo \/ Restore
  BY <1>6, <1>a DEF Undo, Restore
<1>7. CASE Unwind
  <2>1. target # Original /\ edited' = edited /\ reserve' = reserve
        /\ phase' \in {"unwinding", "idle"}
    BY <1>7 DEF Unwind, Original
  <2>2. QED
    BY <2>1, <1>a
<1>8. CASE Tidy
  BY <1>8, <1>a DEF Tidy
<1>9. CASE Edit
  BY <1>9, <1>a DEF Edit
<1>10. QED
  BY <1>0, <1>1, <1>2, <1>3, <1>4, <1>5, <1>6, <1>7, <1>8, <1>9 DEF Next

\* Whoever keeps the contract keeps the original: until another program
\* writes to the target, the original binary is whole in one of the two files.
THEOREM ContractKeeps ==
    ASSUME Slots # {}
    PROVE  Spec => []Kept
<1>1. Init => KeptSafe /\ approved # Partial
  BY Files DEF Init, KeptSafe
<1>2. KeptSafe /\ approved # Partial /\ [Next]_vars
        => KeptSafe' /\ (approved # Partial)'
  <2>1. Partial' = Partial
    BY DEF Partial
  <2>2. QED
    BY <2>1, KeptStep, ApprovedStep
<1>3. KeptSafe => Kept
  BY DEF KeptSafe, Kept
<1>4. QED
  BY <1>1, <1>2, <1>3, PTL DEF Spec

=============================================================================
