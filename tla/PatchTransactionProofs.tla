----------------------- MODULE PatchTransactionProofs -----------------------
(* Proofs about the patch transaction, for every set of slots, in both     *)
(* modes and for all bounds: the original binary is never lost, the        *)
(* transaction implements PatchContract, and what it leaves on the disk.   *)
EXTENDS PatchTransaction, FiniteSetTheorems, TLAPS

\* A plan is a sequence of slots.
LEMMA PlansAreSequences == PatchPlans \subseteq Seq(Slots)
<1>1. Cardinality(Slots) \in Nat
  BY SlotsAssumption, FS_CardinalityType
<1>2. SUFFICES ASSUME NEW p \in PatchPlans
               PROVE  p \in Seq(Slots)
  OBVIOUS
<1>3. PICK n \in 1..Cardinality(Slots) : p \in [1..n -> Slots]
  BY DEF PatchPlans
<1>4. n \in Nat
  BY <1>1
<1>5. QED
  BY <1>3, <1>4

\* The files a command can meet are images, and no two of the absent, the
\* torn and the original one are the same.
LEMMA Images ==
    /\ Absent \in Image /\ Partial \in Image /\ Original \in Image
    /\ Absent # Original /\ Partial # Original /\ Absent # Partial
<1>1. PICK s : s \in Slots
  BY SlotsAssumption
<1>2. Absent[s] = "missing" /\ Partial[s] = "cut" /\ Original[s] = "orig"
  BY <1>1 DEF Absent, Partial, Original
<1>3. QED
  BY <1>2 DEF Absent, Partial, Original, Image, Bytes

\* The manifests the code builds have the type of a manifest.
LEMMA Manifests ==
    /\ NoManifest \in Manifest
    /\ TornManifest \in Manifest
    /\ \A st \in Statuses, f, g \in Image, o \in Seq(Slots) :
         [status |-> st, before |-> f, after |-> g, ops |-> o] \in Manifest
    /\ \A m \in Manifest, st \in Statuses :
         [m EXCEPT !.status = st] \in Manifest
<1>1. <<>> \in Seq(Slots)
  OBVIOUS
<1>2. NoManifest \in Manifest
  BY <1>1, Images DEF NoManifest, Manifest
<1>3. TornManifest \in Manifest
  BY <1>2 DEF TornManifest, Manifest
<1>4. QED
  BY <1>2, <1>3 DEF Manifest

-----------------------------------------------------------------------------
(* Type correctness. *)

\* The initial state is typed.
LEMMA InitTypeOK == Init => TypeOK
<1> SUFFICES ASSUME Init PROVE TypeOK
  OBVIOUS
<1>1. disk \in [Paths -> Image] /\ Target \in Paths
  BY Images DEF Init, Target, Paths
<1>2. atStart \in Image
  BY <1>1 DEF Init
<1>3. pc \in Locations /\ outcome \in Outcomes
  BY DEF Init, Locations, Outcomes
<1>4. recErr \in BOOLEAN /\ unwound \in BOOLEAN
  BY DEF Init
<1>5. <<>> \in Seq(Slots)
  OBVIOUS
<1>6. QED
  BY <1>1, <1>2, <1>3, <1>4, <1>5, Images, Manifests DEF Init, TypeOK

\* The commands a user types.
LEMMA CommandsTypeOK == TypeOK /\ Commands => TypeOK'
<1> SUFFICES ASSUME TypeOK, Commands PROVE TypeOK'
  OBVIOUS
<1> USE ModeAssumption
    DEF TypeOK, Locations, Outcomes, files, temps, locals, ghosts, spent
<1>0. Target \in Paths
  BY DEF Target, Paths
<1>1. CASE DryRun
  BY <1>1 DEF DryRun, Paths
<1>2. CASE StartApply
  BY <1>0, <1>2 DEF StartApply, Begin
<1>3. CASE StartRollback
  <2>1. Len(manifest.ops) \in Nat
    BY DEF Manifest
  <2>2. QED
    BY <1>0, <1>3, <2>1 DEF StartRollback, Begin
<1>4. CASE VerifyOnly
  BY <1>0, <1>4 DEF VerifyOnly, Begin
<1>5. QED
  BY <1>1, <1>2, <1>3, <1>4 DEF Commands

\* The steps before the first write and the preflight.
LEMMA PrepareTypeOK ==
    TypeOK /\ (CheckPaths \/ CopyInput \/ BuildPlan \/ CheckDigest \/ Preflight)
        => TypeOK'
<1> SUFFICES ASSUME TypeOK,
                    CheckPaths \/ CopyInput \/ BuildPlan \/ CheckDigest \/ Preflight
             PROVE  TypeOK'
  OBVIOUS
<1> USE Images, Manifests
    DEF TypeOK, Locations, Outcomes, files, temps, locals, ghosts, spent,
        Exit, Fault, Bail, FailWith
<1>1. CASE CheckPaths
  BY <1>1 DEF CheckPaths
<1>2. CASE CopyInput
  BY <1>2 DEF CopyInput, Paths
<1>3. CASE BuildPlan
  BY <1>3, PlansAreSequences DEF BuildPlan
<1>4. CASE CheckDigest
  <2>1. CASE Fault /\ Bail
    BY <2>1
  <2>2. CASE ~(Fault /\ Bail)
    <3> DEFINE m == [status |-> "Recovered", before |-> txn, after |-> txn,
                     ops |-> <<>>]
    <3>1. m \in Manifest
      BY DEF Manifest, Statuses
    <3>2. /\ mem' = m /\ pc' \in {"create_failure_manifest", "preflight"}
          /\ UNCHANGED <<files, temps, expected, found, plan, idx, recErr,
                         outcome, ghosts, spent, faults>>
      BY <1>4, <2>2 DEF CheckDigest
    <3>3. mem' \in Manifest /\ pc' \in Locations
      BY <3>1, <3>2
    <3>4. QED
      BY <3>2, <3>3
  <2>3. QED
    BY <2>1, <2>2
<1>5. CASE Preflight
  <2>1. FailureManifest(<<>>, "Recovered", txn) \in Manifest
    BY DEF FailureManifest, Statuses, Manifest
  <2>2. mem' \in Manifest /\ idx' \in Nat /\ faults' \in Nat
        /\ pc' \in Locations
    BY <1>5, <2>1 DEF Preflight
  <2>3. recErr' \in BOOLEAN
    BY <1>5 DEF Preflight
  <2>4. QED
    BY <1>5, <2>2, <2>3 DEF Preflight
<1>6. QED
  BY <1>1, <1>2, <1>3, <1>4, <1>5

\* The writes on the transaction file, and their recovery.
LEMMA WriteTypeOK ==
    TypeOK /\ (WriteOp \/ RecoverOp \/ RecoverDone \/ Seal \/ Verify) => TypeOK'
<1> SUFFICES ASSUME TypeOK,
                    WriteOp \/ RecoverOp \/ RecoverDone \/ Seal \/ Verify
             PROVE  TypeOK'
  OBVIOUS
<1> USE Images, Manifests
    DEF TypeOK, Locations, Outcomes, files, temps, locals, ghosts, spent
<1>1. CASE WriteOp
  <2>1. \A b \in {txn[plan[idx]], "patched", "foreign"} :
           [txn EXCEPT ![plan[idx]] = b] \in Image
    BY DEF Image, Bytes
  <2>2. txn' \in Image
    BY <1>1, <2>1 DEF WriteOp
  <2>3. idx' \in Nat /\ faults' \in Nat /\ pc' \in Locations
    BY <1>1 DEF WriteOp, Fault
  <2>4. mem' \in Manifest
    <3>1. SubSeq(plan, 1, idx) \in Seq(Slots)
      BY <1>1 DEF WriteOp
    <3>2. [mem EXCEPT !.ops = SubSeq(plan, 1, idx)] \in Manifest
      BY <3>1 DEF Manifest
    <3>3. QED
      BY <1>1, <3>2 DEF WriteOp
  <2>5. QED
    BY <1>1, <2>2, <2>3, <2>4 DEF WriteOp
<1>2. CASE RecoverOp
  <2>1. mem.before \in Image
    BY DEF Manifest
  <2>2. \A b \in {mem.before[plan[idx]], txn[plan[idx]], "foreign"} :
           [txn EXCEPT ![plan[idx]] = b] \in Image
    BY <2>1 DEF Image, Bytes
  <2>3. txn' \in Image
    BY <1>2, <2>2 DEF RecoverOp
  <2>4. idx' \in Nat /\ faults' \in Nat
    BY <1>2 DEF RecoverOp, Fault
  <2>5. recErr' \in BOOLEAN
    BY <1>2 DEF RecoverOp
  <2>6. QED
    BY <1>2, <2>3, <2>4, <2>5 DEF RecoverOp
<1>3. CASE RecoverDone
  <2>1. \A st \in Statuses : FailureManifest(mem.ops, st, txn) \in Manifest
    BY DEF FailureManifest, Manifest
  <2>2. QED
    BY <1>3, <2>1 DEF RecoverDone, FailWith, Statuses
<1>4. CASE Seal
  <2>1. [status |-> "Committed", before |-> mem.before, after |-> txn,
         ops |-> plan] \in Manifest
    BY DEF Manifest, Statuses
  <2>2. CASE Fault /\ Bail
    BY <2>2 DEF Fault, Bail, Exit
  <2>3. CASE ~(Fault /\ Bail)
    BY <1>4, <2>1, <2>3 DEF Seal
  <2>4. QED
    BY <2>2, <2>3
<1>5. CASE Verify
  <2>1. [mem EXCEPT !.status = "Recovered"] \in Manifest
    BY Manifests DEF Statuses
  <2>2. mem' \in Manifest /\ pc' \in Locations /\ faults' \in Nat
    BY <1>5, <2>1 DEF Verify, FailWith, Fault
  <2>3. QED
    BY <1>5, <2>2 DEF Verify
<1>6. QED
  BY <1>1, <1>2, <1>3, <1>4, <1>5

\* The commit, and what undoes it.
LEMMA CommitTypeOK ==
    TypeOK /\ (\/ CreateBackup \/ CopyBackup \/ StageManifest \/ CommitTarget
               \/ CommitManifest \/ RestoreTarget \/ FinishRestore
               \/ CreateFailureManifest \/ WriteFailureManifest) => TypeOK'
<1> SUFFICES ASSUME TypeOK,
                    \/ CreateBackup \/ CopyBackup \/ StageManifest
                    \/ CommitTarget \/ CommitManifest \/ RestoreTarget
                    \/ FinishRestore \/ CreateFailureManifest
                    \/ WriteFailureManifest
             PROVE  TypeOK'
  OBVIOUS
<1> USE Images, Manifests
    DEF TypeOK, Locations, Outcomes, files, temps, locals, ghosts, spent,
        Exit, Fault, Bail
<1>0. [mem EXCEPT !.status = "Recovered"] \in Manifest
  BY DEF Statuses
<1>1. CASE CreateBackup
  BY <1>1 DEF CreateBackup
<1>2. CASE CopyBackup
  BY <1>2 DEF CopyBackup, Paths
<1>3. CASE StageManifest
  BY <1>3 DEF StageManifest
<1>4. CASE CommitTarget
  <2>1. disk' \in [Paths -> Image] /\ txn' \in Image /\ mtmp' \in Manifest
        /\ pc' \in Locations /\ outcome' \in Outcomes /\ faults' \in Nat
    BY <1>4 DEF CommitTarget
  <2>2. unwound' \in BOOLEAN
    BY <1>4 DEF CommitTarget
  <2>3. QED
    BY <1>4, <2>1, <2>2 DEF CommitTarget
<1>5. CASE CommitManifest
  BY <1>5 DEF CommitManifest
<1>6. CASE RestoreTarget
  BY <1>0, <1>6 DEF RestoreTarget, FailWith
<1>7. CASE FinishRestore
  BY <1>0, <1>7 DEF FinishRestore, FailWith, Paths
<1>8. CASE CreateFailureManifest
  BY <1>8 DEF CreateFailureManifest
<1>9. CASE WriteFailureManifest
  BY <1>9 DEF WriteFailureManifest
<1>10. QED
  BY <1>1, <1>2, <1>3, <1>4, <1>5, <1>6, <1>7, <1>8, <1>9

\* Rollback, verify-only, and the world around the command.
LEMMA UnwindTypeOK == TypeOK /\ (Unwind \/ World) => TypeOK'
<1> SUFFICES ASSUME TypeOK, Unwind \/ World PROVE TypeOK'
  OBVIOUS
<1> USE Images, Manifests
    DEF TypeOK, Locations, Outcomes, files, temps, locals, ghosts, spent,
        Exit, Fault
<1>0. ASSUME NEW s, NEW b, b \in Bytes \/ b = mem.before[s]
      PROVE  [disk EXCEPT ![Target][s] = b] \in [Paths -> Image]
  <2>1. disk[Target] \in Image /\ mem.before \in Image
    BY DEF Target, Paths, Manifest
  <2>2. [disk[Target] EXCEPT ![s] = b] \in Image
    BY <1>0, <2>1 DEF Image
  <2>3. QED
    BY <2>2
<1>1. CASE RollbackSlot
  <2> DEFINE s == mem.ops[idx]
  <2>1. \/ disk' = disk
        \/ disk' = [disk EXCEPT ![Target][s] = mem.before[s]]
        \/ \E b \in {"patched", mem.before[s], "foreign"} :
             disk' = [disk EXCEPT ![Target][s] = b]
    BY <1>1 DEF RollbackSlot
  <2>2. disk' \in [Paths -> Image]
    <3>1. CASE disk' = disk
      BY <3>1
    <3>2. CASE disk' = [disk EXCEPT ![Target][s] = mem.before[s]]
      BY <1>0, <3>2
    <3>3. CASE \E b \in {"patched", mem.before[s], "foreign"} :
                 disk' = [disk EXCEPT ![Target][s] = b]
      <4>1. PICK b \in {"patched", mem.before[s], "foreign"} :
                   disk' = [disk EXCEPT ![Target][s] = b]
        BY <3>3
      <4>2. b \in Bytes \/ b = mem.before[s]
        BY <4>1 DEF Bytes
      <4>3. QED
        BY <1>0, <4>1, <4>2
    <3>4. QED
      BY <2>1, <3>1, <3>2, <3>3
  <2>3. idx >= 1 /\ (idx' = idx \/ idx' = idx - 1)
        /\ (faults' = faults \/ faults' = faults + 1)
    BY <1>1 DEF RollbackSlot
  <2>4. unwound' \in BOOLEAN
    BY <1>1 DEF RollbackSlot
  <2>5. txn' \in Image /\ mtmp' \in Manifest /\ pc' \in Locations
        /\ outcome' \in Outcomes
    BY <1>1 DEF RollbackSlot
  <2>6. idx' \in Nat /\ faults' \in Nat
    BY <2>3
  <2>7. QED
    BY <1>1, <2>2, <2>4, <2>5, <2>6 DEF RollbackSlot
<1>2. CASE FinishRollback
  BY <1>2 DEF FinishRollback
<1>3. CASE FinishVerifyOnly
  BY <1>3 DEF FinishVerifyOnly
<1>4. CASE Kill
  BY <1>4 DEF Kill
<1>5. CASE TidyUp
  BY <1>5 DEF TidyUp
<1>6. ASSUME NEW s \in Slots, ExternalEdit(s)
      PROVE  TypeOK'
  <2>1. disk' \in [Paths -> Image]
    BY <1>0, <1>6 DEF ExternalEdit, Bytes
  <2>2. edits' \in Nat
    BY <1>6 DEF ExternalEdit
  <2>3. QED
    BY <1>6, <2>1, <2>2 DEF ExternalEdit
<1>7. QED
  BY <1>1, <1>2, <1>3, <1>4, <1>5, <1>6 DEF Unwind, World

\* Every step keeps the types.
LEMMA NextTypeOK == TypeOK /\ [Next]_vars => TypeOK'
<1> SUFFICES ASSUME TypeOK, [Next]_vars PROVE TypeOK'
  OBVIOUS
<1>1. CASE UNCHANGED vars
  BY <1>1 DEF TypeOK, vars
<1>2. CASE Next
  BY <1>2, CommandsTypeOK, PrepareTypeOK, WriteTypeOK, CommitTypeOK,
     UnwindTypeOK DEF Next, Apply
<1>3. QED
  BY <1>1, <1>2

\* Every variable keeps its type, however many slots and commands there are.
THEOREM TypeCorrect == Spec => []TypeOK
<1>1. Init => TypeOK
  BY InitTypeOK
<1>2. TypeOK /\ [Next]_vars => TypeOK'
  BY NextTypeOK
<1>3. QED
  BY <1>1, <1>2, PTL DEF Spec

-----------------------------------------------------------------------------
(* The original binary is never lost. *)

\* The initial state has the original at the input.
LEMMA InitOriginalSafe == Init => OriginalSafe
BY DEF Init, OriginalSafe, Target, BackupPath, Paths

\* The steps that write no named file, and those that leave the commit.
LEMMA QuietSafe ==
    /\ TypeOK /\ OriginalSafe
    /\ disk' = disk /\ edits' = edits
    /\ \/ pc' = pc
       \/ pc' \notin {"copy_backup", "stage_manifest", "commit_target",
                      "commit_manifest", "restore", "restoring"}
       \/ /\ pc \in {"stage_manifest", "commit_target", "commit_manifest",
                     "restore", "restoring"}
          /\ pc' # "copy_backup"
       \/ ~InPlace /\ pc' # "copy_backup"
    => OriginalSafe'
BY DEF OriginalSafe

\* Commands, preparation and the writes on the temporary file are quiet.
LEMMA PrepareSafe ==
    TypeOK /\ OriginalSafe
    /\ (\/ Commands \/ CheckPaths \/ CopyInput \/ BuildPlan \/ CheckDigest
        \/ Preflight \/ WriteOp \/ RecoverOp \/ RecoverDone \/ Seal)
    => OriginalSafe'
<1> SUFFICES ASSUME TypeOK, OriginalSafe,
                    \/ Commands \/ CheckPaths \/ CopyInput \/ BuildPlan
                    \/ CheckDigest \/ Preflight \/ WriteOp \/ RecoverOp
                    \/ RecoverDone \/ Seal
             PROVE  OriginalSafe'
  OBVIOUS
<1>1. /\ disk' = disk /\ edits' = edits
      /\ pc' = pc \/ pc' \notin {"copy_backup", "stage_manifest",
                                 "commit_target", "commit_manifest",
                                 "restore", "restoring"}
  <2> USE DEF files, temps, locals, ghosts, spent, Begin, Exit, Bail, FailWith
  <2>1. CASE Commands
    BY <2>1 DEF Commands, DryRun, StartApply, StartRollback, VerifyOnly
  <2>2. CASE CheckPaths \/ CopyInput \/ BuildPlan
    BY <2>2 DEF CheckPaths, CopyInput, BuildPlan
  <2>3. CASE CheckDigest \/ Preflight
    BY <2>3 DEF CheckDigest, Preflight
  <2>4. CASE WriteOp
    BY <2>4 DEF WriteOp
  <2>5. CASE RecoverOp \/ RecoverDone \/ Seal
    BY <2>5 DEF RecoverOp, RecoverDone, Seal
  <2>6. QED
    BY <2>1, <2>2, <2>3, <2>4, <2>5
<1>2. QED
  BY <1>1, QuietSafe

\* The commit: the backup is complete before the target is replaced.
LEMMA CommitSafe ==
    TypeOK /\ OriginalSafe
    /\ (\/ Verify \/ CreateBackup \/ CopyBackup \/ StageManifest
        \/ CommitTarget \/ CommitManifest \/ RestoreTarget \/ FinishRestore
        \/ CreateFailureManifest \/ WriteFailureManifest)
    => OriginalSafe'
<1> SUFFICES ASSUME TypeOK, OriginalSafe,
                    \/ Verify \/ CreateBackup \/ CopyBackup \/ StageManifest
                    \/ CommitTarget \/ CommitManifest \/ RestoreTarget
                    \/ FinishRestore \/ CreateFailureManifest
                    \/ WriteFailureManifest
             PROVE  OriginalSafe'
  OBVIOUS
<1> USE ModeAssumption, Images
    DEF files, temps, locals, ghosts, spent, Exit, Bail, FailWith
<1>0. DOMAIN disk = Paths
  BY DEF TypeOK
<1>1. CASE Verify
  BY <1>1, QuietSafe DEF Verify
<1>2. CASE CreateBackup
  <2>1. CASE disk' = disk
    <3>1. pc' = "idle" /\ edits' = edits
      BY <1>2, <2>1, <1>0 DEF CreateBackup, Paths
    <3>2. QED
      BY <2>1, <3>1, QuietSafe
  <2>2. CASE disk' # disk
    <3>1. /\ disk["backup"] = Absent
          /\ disk' = [disk EXCEPT !["backup"] = Partial]
          /\ pc' = "copy_backup" /\ edits' = edits
      BY <1>2, <2>2 DEF CreateBackup
    <3>2. QED
      BY <3>1, <1>0 DEF OriginalSafe, Target, BackupPath, Paths
  <2>3. QED
    BY <2>1, <2>2
<1>3. CASE CopyBackup
  BY <1>3, <1>0 DEF CopyBackup, OriginalSafe, Target, BackupPath, Paths
<1>4. CASE StageManifest
  BY <1>4, QuietSafe DEF StageManifest
<1>5. CASE CommitTarget
  BY <1>5, <1>0 DEF CommitTarget, OriginalSafe, Target, BackupPath, Paths
<1>6. CASE CommitManifest
  BY <1>6, QuietSafe DEF CommitManifest
<1>7. CASE RestoreTarget
  BY <1>7, <1>0 DEF RestoreTarget, OriginalSafe, Target, BackupPath, Paths
<1>8. CASE FinishRestore
  BY <1>8, <1>0 DEF FinishRestore, OriginalSafe, Target, BackupPath, Paths
<1>9. CASE CreateFailureManifest \/ WriteFailureManifest
  BY <1>9, QuietSafe DEF CreateFailureManifest, WriteFailureManifest
<1>10. QED
  BY <1>1, <1>2, <1>3, <1>4, <1>5, <1>6, <1>7, <1>8, <1>9

\* A rollback writes to the target only where the target is patched, and the
\* original is then the backup.
LEMMA UnwindSafe == TypeOK /\ OriginalSafe /\ (Unwind \/ World) => OriginalSafe'
<1> SUFFICES ASSUME TypeOK, OriginalSafe, Unwind \/ World
             PROVE  OriginalSafe'
  OBVIOUS
<1> USE ModeAssumption
    DEF files, temps, locals, ghosts, spent, Exit
<1>0. DOMAIN disk = Paths
  BY DEF TypeOK
<1>1. CASE RollbackSlot
  <2> DEFINE s == mem.ops[idx]
  <2>1. CASE disk' = disk
    BY <1>1, <2>1, QuietSafe DEF RollbackSlot
  <2>2. CASE disk' # disk
    <3>1. /\ disk[Target][s] = "patched"
          /\ \E b : disk' = [disk EXCEPT ![Target][s] = b]
          /\ edits' = edits
          /\ pc' = pc \/ pc' = "idle"
          /\ pc = "rollback"
      BY <1>1, <2>2 DEF RollbackSlot
    <3>2. disk[Target] # Original
      <4>1. CASE s \in Slots
        BY <3>1, <4>1 DEF Original
      <4>2. CASE s \notin Slots
        <5>1. disk[Target] \in Image
          BY DEF TypeOK, Target, Paths
        <5>2. PICK b : disk' = [disk EXCEPT ![Target][s] = b]
          BY <3>1
        <5>3. [disk[Target] EXCEPT ![s] = b] = disk[Target]
          BY <4>2, <5>1 DEF Image
        <5>4. disk' = disk
          BY <5>2, <5>3, <1>0 DEF TypeOK
        <5>5. QED
          BY <5>4, <2>2
      <4>3. QED
        BY <4>1, <4>2
    <3>3. edits = 0 => /\ disk[BackupPath] = Original
                       /\ disk'[BackupPath] = disk[BackupPath]
                       /\ ~InPlace => disk'["input"] = disk["input"]
      BY <3>1, <3>2, <1>0 DEF OriginalSafe, Target, BackupPath, Paths
    <3>4. QED
      BY <3>1, <3>3 DEF OriginalSafe
  <2>3. QED
    BY <2>1, <2>2
<1>2. CASE FinishRollback \/ FinishVerifyOnly
  BY <1>2, QuietSafe DEF FinishRollback, FinishVerifyOnly
<1>3. CASE Kill
  BY <1>3, QuietSafe DEF Kill
<1>4. CASE TidyUp
  BY <1>4, <1>0 DEF TidyUp, OriginalSafe, Target, BackupPath, Paths
<1>5. ASSUME NEW s \in Slots, ExternalEdit(s)
      PROVE  OriginalSafe'
  <2>1. edits' # 0
    BY <1>5 DEF ExternalEdit, TypeOK
  <2>2. QED
    BY <2>1 DEF OriginalSafe
<1>6. QED
  BY <1>1, <1>2, <1>3, <1>4, <1>5 DEF Unwind, World

\* As long as no other program writes to the files, the original binary is
\* at the target or at the backup path, whatever fails and whenever the
\* process is killed.
THEOREM OriginalNeverLost == Spec => []OriginalRecoverable
<1>1. Init => TypeOK /\ OriginalSafe
  BY InitTypeOK, InitOriginalSafe
<1>2. TypeOK /\ OriginalSafe /\ [Next]_vars => TypeOK' /\ OriginalSafe'
  <2> SUFFICES ASSUME TypeOK, OriginalSafe, [Next]_vars
               PROVE  TypeOK' /\ OriginalSafe'
    OBVIOUS
  <2>1. TypeOK'
    BY NextTypeOK
  <2>2. CASE UNCHANGED vars
    BY <2>1, <2>2 DEF OriginalSafe, vars
  <2>3. CASE Next
    BY <2>1, <2>3, PrepareSafe, CommitSafe, UnwindSafe DEF Next, Apply
  <2>4. QED
    BY <2>2, <2>3
<1>3. OriginalSafe => OriginalRecoverable
  BY DEF OriginalSafe, OriginalRecoverable
<1>4. QED
  BY <1>1, <1>2, <1>3, PTL DEF Spec

-----------------------------------------------------------------------------
(* The transaction implements PatchContract. *)

\* A plan names at least one slot, and only slots.
LEMMA PlansName ==
    \A p \in PatchPlans : /\ {p[i] : i \in DOMAIN p} \subseteq Slots
                          /\ {p[i] : i \in DOMAIN p} # {}
<1>1. Cardinality(Slots) \in Nat
  BY SlotsAssumption, FS_CardinalityType
<1>2. SUFFICES ASSUME NEW p \in PatchPlans
               PROVE  /\ {p[i] : i \in DOMAIN p} \subseteq Slots
                      /\ {p[i] : i \in DOMAIN p} # {}
  OBVIOUS
<1>3. PICK n \in 1..Cardinality(Slots) : p \in [1..n -> Slots]
  BY DEF PatchPlans
<1>4. 1 \in DOMAIN p
  BY <1>1, <1>3
<1>5. QED
  BY <1>3, <1>4

-----------------------------------------------------------------------------
(* What the transaction knows on its way to the commit. *)

\* The commands and the steps before the first write.
LEMMA PrepareKnows ==
    TypeOK /\ Prepared /\ (\/ Commands \/ CheckPaths \/ CopyInput
                           \/ BuildPlan \/ CheckDigest \/ Preflight)
        => Prepared'
<1> SUFFICES ASSUME TypeOK, Prepared,
                    \/ Commands \/ CheckPaths \/ CopyInput \/ BuildPlan
                    \/ CheckDigest \/ Preflight
             PROVE  Prepared'
  OBVIOUS
<1> USE DEF Prepared, Preparing, Writing, Planned, files, temps, locals,
            ghosts, spent, Exit, Fault, Bail, FailWith, BackupPath
<1>1. CASE Commands
  BY <1>1 DEF Commands, DryRun, StartApply, StartRollback, VerifyOnly, Begin
<1>2. CASE CheckPaths
  BY <1>2 DEF CheckPaths
<1>3. CASE CopyInput
  BY <1>3 DEF CopyInput
<1>4. CASE BuildPlan
  BY <1>4 DEF BuildPlan
<1>5. CASE CheckDigest
  BY <1>5 DEF CheckDigest
<1>6. CASE Preflight
  BY <1>6 DEF Preflight
<1>7. QED
  BY <1>1, <1>2, <1>3, <1>4, <1>5, <1>6

\* The writes touch the slots of the plan alone; the verification sees that
\* they have been made.
LEMMA WriteKnows ==
    TypeOK /\ Prepared /\ (WriteOp \/ RecoverOp \/ RecoverDone \/ Seal \/ Verify)
        => Prepared'
<1> SUFFICES ASSUME TypeOK, Prepared,
                    WriteOp \/ RecoverOp \/ RecoverDone \/ Seal \/ Verify
             PROVE  Prepared'
  OBVIOUS
<1> USE DEF Prepared, Preparing, Writing, Planned, files, temps, locals,
            ghosts, spent, Exit, Fault, Bail, FailWith, BackupPath
<1>1. CASE WriteOp
  <2>1. idx \in DOMAIN plan
    BY <1>1 DEF WriteOp, TypeOK
  <2>2. \A s \in Slots \ Planned : txn'[s] = txn[s]
    BY <1>1, <2>1 DEF WriteOp, TypeOK, Image
  <2>3. /\ pc' \in {"write", "recover"} /\ pc = "write"
        /\ plan' = plan /\ expected' = expected /\ disk' = disk
        /\ edits' = edits
        /\ pc' = "write" => idx' = idx + 1
    BY <1>1 DEF WriteOp
  <2>4. QED
    BY <2>2, <2>3 DEF TypeOK
<1>2. CASE RecoverOp \/ RecoverDone
  BY <1>2 DEF RecoverOp, RecoverDone
<1>3. CASE Seal
  BY <1>3 DEF Seal
<1>4. CASE Verify
  <2>1. /\ pc = "verify" /\ txn' = txn /\ plan' = plan
        /\ expected' = expected /\ disk' = disk /\ edits' = edits
    BY <1>4 DEF Verify
  <2>2. CASE pc' = "create_failure_manifest"
    BY <2>1, <2>2
  <2>3. CASE pc' # "create_failure_manifest"
    <3>1. /\ pc' = IF InPlace THEN "check_backup" ELSE "stage_manifest"
          /\ VerifyManifest(mem, txn)
      BY <1>4, <2>3 DEF Verify
    <3>2. \A s \in Planned : txn[s] = "patched"
      BY <2>1, <3>1 DEF VerifyManifest
    <3>3. QED
      BY <2>1, <3>1, <3>2
  <2>4. QED
    BY <2>2, <2>3
<1>5. QED
  BY <1>1, <1>2, <1>3, <1>4

\* The commit: the backup is a copy of what the input is.
LEMMA CommitKnows ==
    TypeOK /\ Prepared /\ (\/ CreateBackup \/ CopyBackup \/ StageManifest
                           \/ CommitTarget \/ CommitManifest \/ RestoreTarget
                           \/ FinishRestore \/ CreateFailureManifest
                           \/ WriteFailureManifest)
        => Prepared'
<1> SUFFICES ASSUME TypeOK, Prepared,
                    \/ CreateBackup \/ CopyBackup \/ StageManifest
                    \/ CommitTarget \/ CommitManifest \/ RestoreTarget
                    \/ FinishRestore \/ CreateFailureManifest
                    \/ WriteFailureManifest
             PROVE  Prepared'
  OBVIOUS
<1> USE ModeAssumption
    DEF Prepared, Preparing, Writing, Planned, files, temps, locals, ghosts,
        spent, Exit, Fault, Bail, FailWith, BackupPath
<1>0. DOMAIN disk = Paths
  BY DEF TypeOK
<1>1. CASE CreateBackup
  BY <1>0, <1>1 DEF CreateBackup, Paths
<1>2. CASE CopyBackup
  BY <1>0, <1>2 DEF CopyBackup, Paths
<1>3. CASE StageManifest
  BY <1>3 DEF StageManifest
<1>4. CASE CommitTarget
  BY <1>4 DEF CommitTarget
<1>5. CASE CommitManifest
  BY <1>5 DEF CommitManifest
<1>6. CASE RestoreTarget
  BY <1>6 DEF RestoreTarget
<1>7. CASE FinishRestore
  BY <1>7 DEF FinishRestore
<1>8. CASE CreateFailureManifest \/ WriteFailureManifest
  BY <1>8 DEF CreateFailureManifest, WriteFailureManifest
<1>9. QED
  BY <1>1, <1>2, <1>3, <1>4, <1>5, <1>6, <1>7, <1>8

\* A rollback knows nothing of this, and an edit is counted.
LEMMA UnwindKnows == TypeOK /\ Prepared /\ (Unwind \/ World) => Prepared'
<1> SUFFICES ASSUME TypeOK, Prepared, Unwind \/ World
             PROVE  Prepared'
  OBVIOUS
<1> USE ModeAssumption
    DEF Prepared, Preparing, Writing, Planned, files, temps, locals, ghosts,
        spent, Exit
<1>1. CASE RollbackSlot
  BY <1>1 DEF RollbackSlot
<1>2. CASE FinishRollback \/ FinishVerifyOnly
  BY <1>2 DEF FinishRollback, FinishVerifyOnly
<1>3. CASE Kill
  BY <1>3 DEF Kill
<1>4. CASE TidyUp
  BY <1>4 DEF TidyUp
<1>5. ASSUME NEW s \in Slots, ExternalEdit(s)
      PROVE  Prepared'
  <2>1. edits' # 0
    BY <1>5 DEF ExternalEdit, TypeOK
  <2>2. InPlace => disk'["backup"] = disk["backup"]
    BY <1>5 DEF ExternalEdit, Target, TypeOK, Paths
  <2>3. QED
    BY <1>5, <2>1, <2>2 DEF ExternalEdit
<1>6. QED
  BY <1>1, <1>2, <1>3, <1>4, <1>5 DEF Unwind, World

\* What the refinement rests on: the types, the safety of the original and
\* the knowledge of the running command.
Known == TypeOK /\ OriginalSafe /\ Prepared

\* It holds in every state.
LEMMA AlwaysKnown == Spec => []Known
<1>1. Init => Known
  BY InitTypeOK, InitOriginalSafe DEF Init, Known, Prepared, Preparing, Writing
<1>2. Known /\ [Next]_vars => Known'
  <2> SUFFICES ASSUME Known, [Next]_vars PROVE Known'
    OBVIOUS
  <2> USE DEF Known
  <2>1. TypeOK'
    BY NextTypeOK
  <2>2. CASE UNCHANGED vars
    BY <2>1, <2>2 DEF OriginalSafe, Prepared, Planned, vars
  <2>3. CASE Next
    <3>1. OriginalSafe'
      BY <2>3, PrepareSafe, CommitSafe, UnwindSafe DEF Next, Apply
    <3>2. Prepared'
      BY <2>3, PrepareKnows, WriteKnows, CommitKnows, UnwindKnows
      DEF Next, Apply
    <3>3. QED
      BY <2>1, <3>1, <3>2
  <2>4. QED
    BY <2>2, <2>3
<1>3. QED
  BY <1>1, <1>2, PTL DEF Spec

-----------------------------------------------------------------------------
(* Every step is a step of the contract, or a stutter. *)

\* The two files of the contract are different ones.
LEMMA TwoFiles ==
    /\ Target \in Paths /\ BackupPath \in Paths /\ Target # BackupPath
BY DEF Target, BackupPath, Paths

\* A step that writes to neither file is a stutter, a start or a stop.
LEMMA QuietImplements ==
    /\ disk' = disk /\ expected' = expected /\ edits' = edits
    /\ \/ Phase' = Phase
       \/ Phase # "idle" /\ Phase' = "idle"
       \/ Phase = "applying" /\ Phase' = "failing"
       \/ Phase = "idle" /\ Phase' = "applying" /\ expected # Absent
       \/ Phase = "idle" /\ Phase' = "unwinding"
    => [Contract!Next]_Contract!vars
<1> SUFFICES ASSUME /\ disk' = disk /\ expected' = expected /\ edits' = edits
                    /\ \/ Phase' = Phase
                       \/ Phase # "idle" /\ Phase' = "idle"
                       \/ Phase = "applying" /\ Phase' = "failing"
                       \/ Phase = "idle" /\ Phase' = "applying"
                          /\ expected # Absent
                       \/ Phase = "idle" /\ Phase' = "unwinding"
             PROVE  [Contract!Next]_Contract!vars
  OBVIOUS
<1>1. Target' = Target /\ BackupPath' = BackupPath
  BY DEF Target, BackupPath
<1>2. QED
  BY <1>1 DEF Contract!Next, Contract!vars, Contract!Stop, Contract!Fail,
              Contract!Start, Contract!Absent, Absent

\* The commands the user types: a dry run approves, the others start.
LEMMA CommandsImplement == Known /\ Commands => [Contract!Next]_Contract!vars
<1> SUFFICES ASSUME Known, Commands PROVE [Contract!Next]_Contract!vars
  OBVIOUS
<1> USE DEF files, temps, locals, ghosts, spent, Begin, Phase
<1>1. CASE DryRun
  <2>1. disk["input"] \in {disk[Target], disk[BackupPath]} \ {Absent, Partial}
    BY <1>1 DEF DryRun, Readable, Target, BackupPath
  <2>2. disk' = disk /\ pc' = pc /\ edits' = edits /\ pc = "idle"
        /\ expected' = disk["input"]
    BY <1>1 DEF DryRun
  <2>3. Contract!Approve
    BY <2>1, <2>2 DEF Contract!Approve, Contract!Absent, Contract!Partial,
       Absent, Partial, Target, BackupPath
  <2>4. QED
    BY <2>3 DEF Contract!Next
<1>2. CASE StartApply
  BY <1>2, QuietImplements DEF StartApply
<1>3. CASE StartRollback \/ VerifyOnly
  BY <1>3, QuietImplements DEF StartRollback, VerifyOnly
<1>4. QED
  BY <1>1, <1>2, <1>3 DEF Commands

\* The steps that work on the temporary files.
LEMMA WorkImplements ==
    Known /\ (\/ CheckPaths \/ CopyInput \/ BuildPlan \/ CheckDigest
              \/ Preflight \/ WriteOp \/ RecoverOp \/ RecoverDone \/ Seal
              \/ Verify \/ StageManifest)
        => [Contract!Next]_Contract!vars
<1> SUFFICES ASSUME \/ CheckPaths \/ CopyInput \/ BuildPlan \/ CheckDigest
                    \/ Preflight \/ WriteOp \/ RecoverOp \/ RecoverDone
                    \/ Seal \/ Verify \/ StageManifest
             PROVE  [Contract!Next]_Contract!vars
  OBVIOUS
<1> USE DEF files, temps, locals, ghosts, spent, Exit, Bail, FailWith
<1>1. /\ disk' = disk /\ expected' = expected /\ edits' = edits
      /\ pc \in {"check_paths", "copy_input", "build_plan", "check_digest",
                 "preflight", "write", "recover", "verify", "stage_manifest"}
      /\ pc' \in {"idle", "create_failure_manifest", "copy_input",
                  "build_plan", "check_digest", "preflight", "write",
                  "recover", "verify", "check_backup", "stage_manifest",
                  "commit_target"}
  <2>1. CASE CheckPaths \/ CopyInput \/ BuildPlan
    BY <2>1 DEF CheckPaths, CopyInput, BuildPlan
  <2>2. CASE CheckDigest \/ Preflight
    BY <2>2 DEF CheckDigest, Preflight
  <2>3. CASE WriteOp
    BY <2>3 DEF WriteOp
  <2>4. CASE RecoverOp \/ RecoverDone \/ Seal
    BY <2>4 DEF RecoverOp, RecoverDone, Seal
  <2>5. CASE Verify
    BY <2>5, ModeAssumption DEF Verify
  <2>6. CASE StageManifest
    BY <2>6 DEF StageManifest
  <2>7. QED
    BY <2>1, <2>2, <2>3, <2>4, <2>5, <2>6
<1>2. Phase = "applying" /\ Phase' \in {"idle", "applying", "failing"}
  BY <1>1 DEF Phase
<1>3. QED
  BY <1>1, <1>2, QuietImplements

\* The backup: nothing, then an unfinished file, then a copy of the target.
LEMMA BackupImplements ==
    Known /\ (CreateBackup \/ CopyBackup) => [Contract!Next]_Contract!vars
<1> SUFFICES ASSUME Known, CreateBackup \/ CopyBackup
             PROVE  [Contract!Next]_Contract!vars
  OBVIOUS
<1> USE DEF files, temps, locals, ghosts, spent, Exit, Bail
<1>1. CASE disk' = disk
  <2>1. /\ pc \in {"check_backup", "copy_backup"} /\ expected' = expected
        /\ pc' \in {"idle", "copy_backup", "stage_manifest"}
        /\ edits' = edits
    BY <1>1 DEF CreateBackup, CopyBackup
  <2>2. Phase = "applying" /\ Phase' \in {"idle", "applying"}
    BY <2>1 DEF Phase
  <2>3. QED
    BY <1>1, <2>1, <2>2, QuietImplements
<1>2. CASE disk' # disk
  <2>1. InPlace /\ DOMAIN disk = Paths
    BY DEF CreateBackup, CopyBackup, Known, Prepared, TypeOK
  <2>2. /\ expected' = expected /\ edits' = edits
        /\ pc \in {"check_backup", "copy_backup"}
        /\ pc' \in {"copy_backup", "stage_manifest"}
    BY <1>2 DEF CreateBackup, CopyBackup
  <2>3. Phase = "applying" /\ Phase' = "applying"
    BY <2>2 DEF Phase
  <2>4. \/ disk["backup"] = Absent /\ disk' = [disk EXCEPT !["backup"] = Partial]
        \/ disk["backup"] = Partial
           /\ disk' = [disk EXCEPT !["backup"] = disk["input"]]
    BY <1>2 DEF CreateBackup, CopyBackup, Known, Prepared
  <2>5. Contract!MakeReserve
    BY <2>1, <2>2, <2>3, <2>4
    DEF Contract!MakeReserve, Contract!Absent, Contract!Partial, Absent,
        Partial, Target, BackupPath, Paths
  <2>6. QED
    BY <2>5 DEF Contract!Next
<1>3. QED
  BY <1>1, <1>2

\* The rename that commits: the copy is the approved binary with the slots of
\* the plan patched, and the original is in reserve.
LEMMA CommitImplements ==
    Known /\ CommitTarget => [Contract!Next]_Contract!vars
<1> SUFFICES ASSUME Known, CommitTarget PROVE [Contract!Next]_Contract!vars
  OBVIOUS
<1> USE DEF files, temps, locals, ghosts, spent, Exit, Bail
<1>1. CASE Bail
  <2>1. /\ disk' = disk /\ expected' = expected /\ edits' = edits
        /\ pc = "commit_target" /\ pc' = "idle"
    BY <1>1 DEF CommitTarget
  <2>2. QED
    BY <2>1, QuietImplements DEF Phase
<1>2. CASE ~Bail
  <2>1. /\ disk' = [disk EXCEPT ![Target] = txn]
        /\ pc = "commit_target" /\ pc' = "commit_manifest"
        /\ expected' = expected /\ edits' = edits
    BY <1>2 DEF CommitTarget
  <2>2. Phase = "applying" /\ Phase' = "committed"
    BY <2>1 DEF Phase
  <2>3. Planned \in (SUBSET Slots) \ {{}}
    BY <2>1, PlansName DEF Known, Prepared, Preparing, Writing, Planned
  <2>4. txn = Contract!Patched(expected, Planned)
    <3>1. \A s \in Slots : txn[s] = IF s \in Planned THEN "patched"
                                                     ELSE expected[s]
      BY <2>1 DEF Known, Prepared, Writing
    <3>2. txn \in [Slots -> Bytes]
      BY DEF Known, TypeOK, Image
    <3>3. QED
      BY <3>1, <3>2 DEF Contract!Patched
  <2>5. edits > 0 \/ disk[BackupPath] = expected
    BY <2>1 DEF Known, Prepared, TypeOK
  <2>6. disk'[Target] = txn /\ disk'[BackupPath] = disk[BackupPath]
    BY <2>1, TwoFiles DEF Known, TypeOK
  <2>7. Target' = Target /\ BackupPath' = BackupPath
    BY DEF Target, BackupPath
  <2>8. Contract!Commit
    <3> DEFINE S == Planned
    <3>1. S \in (SUBSET Slots) \ {{}}
          /\ disk'[Target] = Contract!Patched(expected, S)
      BY <2>3, <2>4, <2>6
    <3> HIDE DEF S
    <3>2. QED
      BY <3>1, <2>1, <2>2, <2>5, <2>6, <2>7 DEF Contract!Commit
  <2>9. QED
    BY <2>8 DEF Contract!Next
<1>3. QED
  BY <1>1, <1>2

\* What follows the commit: the record, or the way back.
LEMMA RecordImplements ==
    Known /\ (\/ CommitManifest \/ CreateFailureManifest
              \/ WriteFailureManifest)
        => [Contract!Next]_Contract!vars
<1> SUFFICES ASSUME \/ CommitManifest \/ CreateFailureManifest
                    \/ WriteFailureManifest
             PROVE  [Contract!Next]_Contract!vars
  OBVIOUS
<1> USE DEF files, temps, locals, ghosts, spent, Exit, Bail
<1>1. /\ disk' = disk /\ expected' = expected /\ edits' = edits
      /\ \/ pc = "commit_manifest" /\ pc' \in {"idle", "restore"}
         \/ /\ pc \in {"create_failure_manifest", "write_failure_manifest"}
            /\ pc' \in {"idle", "write_failure_manifest"}
  BY DEF CommitManifest, CreateFailureManifest, WriteFailureManifest
<1>2. Phase # "idle" /\ Phase' \in {"idle", Phase}
  BY <1>1 DEF Phase
<1>3. QED
  BY <1>1, <1>2, QuietImplements

\* A commit that cannot be recorded is taken back as a whole.
LEMMA RestoreImplements ==
    Known /\ (RestoreTarget \/ FinishRestore) => [Contract!Next]_Contract!vars
<1> SUFFICES ASSUME Known, RestoreTarget \/ FinishRestore
             PROVE  [Contract!Next]_Contract!vars
  OBVIOUS
<1> USE DEF files, temps, locals, ghosts, spent, FailWith, Phase
<1>1. CASE Exit("unrecovered") /\ UNCHANGED <<files, locals, ghosts, spent>>
  <2>1. /\ disk' = disk /\ expected' = expected /\ edits' = edits
        /\ pc \in {"restore", "restoring"} /\ pc' = "idle"
    BY <1>1 DEF RestoreTarget, FinishRestore, Exit
  <2>2. QED
    BY <2>1, QuietImplements
<1>2. CASE ~(Exit("unrecovered") /\ UNCHANGED <<files, locals, ghosts, spent>>)
  <2>0. /\ Target' = Target /\ BackupPath' = BackupPath
        /\ disk \in [Paths -> Image]
    BY DEF Target, BackupPath, Known, TypeOK
  <2>1. CASE RestoreTarget
    <3>1. /\ pc = "restore" /\ expected' = expected /\ edits' = edits
          /\ \/ pc' = "restoring" /\ disk' = [disk EXCEPT ![Target] = Partial]
             \/ pc' = "create_failure_manifest"
                /\ disk' = [disk EXCEPT ![Target] = Absent]
      BY <1>2, <2>1 DEF RestoreTarget
    <3>2. Contract!Undo
      BY <2>0, <3>1, TwoFiles
      DEF Contract!Undo, Contract!Absent, Contract!Partial, Absent, Partial
    <3>3. QED
      BY <3>2 DEF Contract!Next
  <2>2. CASE FinishRestore
    <3>1. /\ pc = "restoring" /\ expected' = expected /\ edits' = edits
          /\ pc' = "create_failure_manifest"
          /\ disk' = [disk EXCEPT ![Target] = disk["backup"]]
      BY <1>2, <2>2 DEF FinishRestore
    <3>2. BackupPath = "backup"
      BY <3>1 DEF Known, Prepared, BackupPath
    <3>3. Contract!Restore
      BY <2>0, <3>1, <3>2, TwoFiles DEF Contract!Restore
    <3>4. QED
      BY <3>3 DEF Contract!Next
  <2>3. QED
    BY <2>1, <2>2
<1>3. QED
  BY <1>1, <1>2

\* A rollback writes to one slot at a time, and only over patched bytes.
LEMMA RollbackImplements ==
    Known /\ RollbackSlot => [Contract!Next]_Contract!vars
<1> SUFFICES ASSUME Known, RollbackSlot PROVE [Contract!Next]_Contract!vars
  OBVIOUS
<1> USE DEF files, temps, locals, ghosts, spent, Exit
<1> DEFINE s == mem.ops[idx]
<1>0. /\ pc = "rollback" /\ pc' \in {"rollback", "idle"}
      /\ expected' = expected /\ edits' = edits
  BY DEF RollbackSlot
<1>1. Phase = "unwinding" /\ Phase' \in {"unwinding", "idle"}
  BY <1>0 DEF Phase
<1>2. CASE disk' = disk
  BY <1>0, <1>1, <1>2, QuietImplements
<1>3. CASE disk' # disk
  <2>0. /\ disk \in [Paths -> Image] /\ disk[Target] \in Image
        /\ mem.before \in Image
    BY TwoFiles DEF Known, TypeOK, Manifest
  <2>1. /\ disk[Target][s] = "patched"
        /\ \E b : disk' = [disk EXCEPT ![Target][s] = b]
    BY <1>3 DEF RollbackSlot
  <2>2. s \in Slots
    <3>1. ASSUME s \notin Slots PROVE FALSE
      <4>1. PICK b : disk' = [disk EXCEPT ![Target][s] = b]
        BY <2>1
      <4>2. [disk[Target] EXCEPT ![s] = b] = disk[Target]
        BY <2>0, <3>1 DEF Image
      <4>3. QED
        BY <1>3, <2>0, <4>1, <4>2
    <3>2. QED
      BY <3>1
  <2>3. PICK b \in Bytes : disk' = [disk EXCEPT ![Target][s] = b]
    <3>1. mem.before[s] \in Bytes
      BY <2>0, <2>2 DEF Image
    <3>2. \/ disk' = [disk EXCEPT ![Target][s] = mem.before[s]]
          \/ \E b \in {"patched", mem.before[s], "foreign"} :
               disk' = [disk EXCEPT ![Target][s] = b]
      BY <1>3 DEF RollbackSlot
    <3>3. {"patched", mem.before[s], "foreign"} \subseteq Bytes
      BY <3>1 DEF Bytes
    <3>4. QED
      BY <3>1, <3>2, <3>3
  <2>4. /\ disk'[Target] = [disk[Target] EXCEPT ![s] = b]
        /\ disk'[BackupPath] = disk[BackupPath]
    BY <2>0, <2>3, TwoFiles
  <2>5. Contract!Unwind
    <3> DEFINE f == [x \in Slots |-> b]
    <3>1. f \in [Slots -> {"orig", "patched", "foreign", "cut", "missing"}]
          /\ f[s] = b
      BY <2>2 DEF Bytes
    <3>2. Target' = Target /\ BackupPath' = BackupPath
      BY DEF Target, BackupPath
    <3>3. disk'[Target'] = [disk[Target] EXCEPT ![s] = f[s]]
      BY <2>4, <3>1, <3>2
    <3> HIDE DEF f, s
    <3>4. QED
      BY <1>0, <1>1, <2>1, <2>2, <2>4, <3>1, <3>2, <3>3 DEF Contract!Unwind
  <2>6. QED
    BY <2>5 DEF Contract!Next
<1>4. QED
  BY <1>2, <1>3

\* The rest of a rollback, and the world around the command.
LEMMA WorldImplements ==
    Known /\ (FinishRollback \/ FinishVerifyOnly \/ World)
        => [Contract!Next]_Contract!vars
<1> SUFFICES ASSUME Known, FinishRollback \/ FinishVerifyOnly \/ World
             PROVE  [Contract!Next]_Contract!vars
  OBVIOUS
<1> USE DEF files, temps, locals, ghosts, spent, Exit
<1>0. /\ Target' = Target /\ BackupPath' = BackupPath
      /\ disk \in [Paths -> Image]
  BY DEF Target, BackupPath, Known, TypeOK
<1>1. CASE FinishRollback \/ FinishVerifyOnly
  BY <1>1, QuietImplements DEF FinishRollback, FinishVerifyOnly, Phase
<1>2. CASE Kill
  <2>1. disk' = disk /\ expected' = expected /\ edits' = edits /\ pc' = "idle"
    BY <1>2 DEF Kill
  <2>2. Phase' = "idle"
    BY <2>1 DEF Phase
  <2>3. QED
    BY <2>1, <2>2, QuietImplements
<1>3. CASE TidyUp
  <2>1. /\ pc = "idle" /\ pc' = pc /\ expected' = expected /\ edits' = edits
        /\ InPlace => disk[Target] = Original
        /\ disk' = [disk EXCEPT !["output"] = Absent, !["backup"] = Absent]
    BY <1>3 DEF TidyUp
  <2>2. /\ disk'[Target] \in {disk[Target], Absent}
        /\ disk'[BackupPath] \in {disk[BackupPath], Absent}
    BY <1>0, <2>1 DEF Paths, Target, BackupPath
  <2>3. edits > 0 \/ Original \in {disk'[Target], disk'[BackupPath]}
    BY <1>0, <2>1, ModeAssumption
    DEF Known, OriginalSafe, TypeOK, Paths, Target, BackupPath
  <2>4. Phase = "idle" /\ Phase' = "idle"
    BY <2>1 DEF Phase
  <2>5. Contract!Tidy
    BY <1>0, <2>1, <2>2, <2>3, <2>4
    DEF Contract!Tidy, Contract!Absent, Contract!Original, Absent, Original
  <2>6. QED
    BY <2>5 DEF Contract!Next
<1>4. ASSUME NEW s \in Slots, ExternalEdit(s)
      PROVE  [Contract!Next]_Contract!vars
  <2>1. /\ edits' > 0 /\ pc' = pc /\ expected' = expected
        /\ disk' = [disk EXCEPT ![Target][s] = "foreign"]
    BY <1>4 DEF ExternalEdit, Known, TypeOK
  <2>2. /\ disk'[Target] = [disk[Target] EXCEPT ![s] = "foreign"]
        /\ disk'[BackupPath] = disk[BackupPath]
    BY <1>0, <2>1, TwoFiles
  <2>3. Phase' = Phase
    BY <2>1 DEF Phase
  <2>4. Contract!Edit
    BY <1>0, <2>1, <2>2, <2>3 DEF Contract!Edit
  <2>5. QED
    BY <2>4 DEF Contract!Next
<1>5. QED
  BY <1>1, <1>2, <1>3, <1>4 DEF World

\* Initially the input is the original and the other file is missing.
LEMMA InitImplements == Init => Contract!Init
BY ModeAssumption DEF Init, Contract!Init, Contract!Original, Contract!Absent,
   Original, Absent, Target, BackupPath, Paths, Phase

\* Every behaviour of the transaction is, for the target and the file that
\* keeps the original, a behaviour of the contract.
THEOREM TransactionImplementsContract == Spec => ImplementsContract
<1>1. Known /\ [Next]_vars => [Contract!Next]_Contract!vars
  <2> SUFFICES ASSUME Known, [Next]_vars PROVE [Contract!Next]_Contract!vars
    OBVIOUS
  <2>1. CASE UNCHANGED vars
    BY <2>1 DEF vars, Contract!vars, Phase, Target, BackupPath
  <2>2. CASE Next
    BY <2>2, CommandsImplement, WorkImplements, BackupImplements,
       CommitImplements, RecordImplements, RestoreImplements,
       RollbackImplements, WorldImplements
    DEF Next, Apply, Unwind
  <2>3. QED
    BY <2>1, <2>2
<1>2. QED
  BY <1>1, InitImplements, AlwaysKnown, PTL
  DEF Spec, ImplementsContract, Contract!Spec

\* What a commit puts at the target is the binary the user approved with
\* exactly the slots of the plan patched, whoever edits it in between.
THEOREM CommitsOnlyApproved == Spec => OnlyApprovedBytes
<1>1. ASSUME Known, [Next]_vars,
             pc = "commit_target", pc' = "commit_manifest"
      PROVE  disk'[Target] = [s \in Slots |->
               IF \E i \in DOMAIN plan : plan[i] = s THEN "patched"
                                                     ELSE expected[s]]
  <2>1. CommitTarget
    <3>1. Next
      BY <1>1 DEF vars
    <3>2. ~Commands
      BY <1>1 DEF Commands, DryRun, StartApply, StartRollback, VerifyOnly, Begin
    <3>3. ~(Unwind \/ World)
      BY <1>1 DEF Unwind, RollbackSlot, FinishRollback, FinishVerifyOnly,
                  World, Kill, Exit, TidyUp, ExternalEdit
    <3>4. Apply => CommitTarget
      BY <1>1 DEF Apply, CheckPaths, CopyInput, BuildPlan, CheckDigest,
                  Preflight, WriteOp, RecoverOp, RecoverDone, Seal, Verify,
                  CreateBackup, CopyBackup, StageManifest, CommitManifest,
                  RestoreTarget, FinishRestore, CreateFailureManifest,
                  WriteFailureManifest
    <3>5. QED
      BY <3>1, <3>2, <3>3, <3>4 DEF Next
  <2>2. disk'[Target] = txn
    BY <1>1, <2>1, TwoFiles DEF CommitTarget, Bail, Exit, Known, TypeOK
  <2>3. \A s \in Slots :
           txn[s] = IF \E i \in DOMAIN plan : plan[i] = s THEN "patched"
                                                        ELSE expected[s]
    BY <1>1 DEF Known, Prepared, Writing, Planned
  <2>4. txn \in [Slots -> Bytes]
    BY <1>1 DEF Known, TypeOK, Image
  <2>5. QED
    BY <2>2, <2>3, <2>4
<1>2. Known /\ [Next]_vars =>
        [pc = "commit_target" /\ pc' = "commit_manifest"
         => disk'[Target] = [s \in Slots |->
              IF \E i \in DOMAIN plan : plan[i] = s THEN "patched"
                                                    ELSE expected[s]]]_vars
  BY <1>1
<1>3. QED
  BY <1>2, AlwaysKnown, PTL DEF Spec, OnlyApprovedBytes

-----------------------------------------------------------------------------
(* What the transaction leaves behind: a manifest that says Committed is     *)
(* true, a patch is whole or is not there, a failed command has done nothing *)
(* to the target, a rollback restores what the manifest was made from.       *)

\* The steps of an apply: before the commit, from the moment the patched copy
\* is sealed, from the moment the backup is complete, and after a failure.
Applying   == {"check_paths", "copy_input", "build_plan", "check_digest",
               "preflight", "write", "recover", "verify", "check_backup",
               "copy_backup", "stage_manifest", "commit_target"}
Sealed     == {"verify", "check_backup", "copy_backup", "stage_manifest",
               "commit_target"}
Committing == {"stage_manifest", "commit_target", "commit_manifest",
               "restore", "restoring"}
Failing    == {"create_failure_manifest", "write_failure_manifest"}
Running    == Applying \cup Committing \cup Failing

\* No manifest is there while an apply runs, and the one it prepares says of
\* the copy, and then of the target, what is so.
Ledger ==
    /\ manifest.status = "Committed" => pc \notin Running \ {"check_paths"}
    /\ pc \in Failing => mem.status # "Committed"
    /\ pc \in {"preflight", "write"} \cup Sealed => mem.before = expected
    /\ pc \in Sealed => mem.after = txn /\ mem.ops = plan
    /\ pc = "commit_target" => mtmp = mem
    /\ pc = "commit_manifest" /\ edits = 0 =>
          /\ disk[BackupPath] = mtmp.before
          /\ disk[Target] = mtmp.after
          /\ \A i \in DOMAIN mtmp.ops : disk[Target][mtmp.ops[i]] = "patched"
    /\ pc = "rollback" => mem = manifest
    /\ CommittedIsTrue

\* Until the commit the target is what it was at the start of the command;
\* after it the backup is, or there was nothing.
Untouched ==
    edits = 0 =>
        /\ pc \in Applying \cup Failing => disk[Target] = atStart
        /\ InPlace /\ pc \in Committing => disk["backup"] = atStart
        /\ ~InPlace /\ pc \in (Applying \cup Committing) \ {"check_paths"} =>
              atStart = Absent

\* What is planned is found, and what is found still has its original bytes.
Whole ==
    /\ AllOrNothing
    /\ pc \in {"check_paths", "copy_input", "build_plan"} /\ edits = 0 /\ InPlace =>
          \A s \in found : disk[Target][s] = "orig"

History == Ledger /\ Untouched /\ Whole

-----------------------------------------------------------------------------
(* The manifests. *)

\* The commands, and the steps up to the sealing of the copy.
LEMMA PrepareLedger ==
    Known /\ Ledger /\ (\/ Commands \/ CheckPaths \/ CopyInput \/ BuildPlan
                        \/ CheckDigest \/ Preflight \/ WriteOp \/ RecoverOp
                        \/ RecoverDone \/ Seal)
        => Ledger'
<1> SUFFICES ASSUME Known, Ledger,
                    \/ Commands \/ CheckPaths \/ CopyInput \/ BuildPlan
                    \/ CheckDigest \/ Preflight \/ WriteOp \/ RecoverOp
                    \/ RecoverDone \/ Seal
             PROVE  Ledger'
  OBVIOUS
<1> USE DEF Ledger, CommittedIsTrue, Applying, Sealed, Committing, Failing,
            Running, files, temps, locals, ghosts, spent, Exit, Bail, FailWith,
            FailureManifest, BackupPath, Target
<1>1. CASE Commands
  BY <1>1 DEF Commands, DryRun, StartApply, StartRollback, VerifyOnly, Begin
<1>2. CASE CheckPaths \/ CopyInput \/ BuildPlan
  BY <1>2 DEF CheckPaths, CopyInput, BuildPlan
<1>3. CASE CheckDigest \/ Preflight
  BY <1>3 DEF CheckDigest, Preflight
<1>4. CASE WriteOp
  <2>1. /\ pc = "write" /\ pc' \in {"write", "recover"}
        /\ disk' = disk /\ manifest' = manifest /\ unwound' = unwound
        /\ expected' = expected /\ edits' = edits
        /\ mem'.before = mem.before
    BY <1>4 DEF WriteOp, Known, TypeOK, Manifest
  <2>2. QED
    BY <2>1
<1>5. CASE RecoverOp \/ RecoverDone
  BY <1>5 DEF RecoverOp, RecoverDone
<1>6. CASE Seal
  BY <1>6 DEF Seal
<1>7. QED
  BY <1>1, <1>2, <1>3, <1>4, <1>5, <1>6

\* The commit: what is recorded of the copy is then so of the target.
LEMMA CommitLedger ==
    Known /\ Ledger /\ (\/ Verify \/ CreateBackup \/ CopyBackup
                        \/ StageManifest \/ CommitTarget \/ CommitManifest
                        \/ RestoreTarget \/ FinishRestore
                        \/ CreateFailureManifest \/ WriteFailureManifest)
        => Ledger'
<1> SUFFICES ASSUME Known, Ledger,
                    \/ Verify \/ CreateBackup \/ CopyBackup \/ StageManifest
                    \/ CommitTarget \/ CommitManifest \/ RestoreTarget
                    \/ FinishRestore \/ CreateFailureManifest
                    \/ WriteFailureManifest
             PROVE  Ledger'
  OBVIOUS
<1> USE DEF Ledger, CommittedIsTrue, Applying, Sealed, Committing, Failing,
            Running, files, temps, locals, ghosts, spent, Exit, Bail, FailWith
<1>0. /\ Target' = Target /\ BackupPath' = BackupPath
      /\ disk \in [Paths -> Image] /\ mem \in Manifest
  BY DEF Target, BackupPath, Known, TypeOK
<1>1. CASE Verify
  BY <1>0, <1>1 DEF Verify, Manifest
<1>2. CASE CreateBackup \/ CopyBackup
  BY <1>0, <1>2 DEF CreateBackup, CopyBackup
<1>3. CASE StageManifest
  BY <1>0, <1>3 DEF StageManifest
<1>4. CASE CommitTarget
  <2>1. CASE Bail
    BY <1>0, <1>4, <2>1 DEF CommitTarget
  <2>2. CASE ~Bail
    <3>1. /\ pc = "commit_target" /\ pc' = "commit_manifest"
          /\ disk' = [disk EXCEPT ![Target] = txn]
          /\ mtmp' = mtmp /\ mem' = mem /\ manifest' = manifest
          /\ edits' = edits
      BY <1>4, <2>2 DEF CommitTarget
    <3>2. disk'[Target] = txn /\ disk'[BackupPath] = disk[BackupPath]
      BY <1>0, <3>1, TwoFiles
    <3>3. edits = 0 => disk[BackupPath] = mtmp.before
      BY <3>1 DEF Known, Prepared
    <3>4. mtmp.ops = plan /\ mtmp.after = txn
      BY <3>1
    <3>5. \A i \in DOMAIN plan : txn[plan[i]] = "patched"
      BY <3>1 DEF Known, Prepared, Writing, Planned
    <3>6. QED
      BY <1>0, <3>1, <3>2, <3>3, <3>4, <3>5
  <2>3. QED
    BY <2>1, <2>2
<1>5. CASE CommitManifest
  BY <1>0, <1>5 DEF CommitManifest
<1>6. CASE RestoreTarget \/ FinishRestore
  BY <1>0, <1>6 DEF RestoreTarget, FinishRestore, Manifest
<1>7. CASE CreateFailureManifest \/ WriteFailureManifest
  BY <1>0, <1>7 DEF CreateFailureManifest, WriteFailureManifest, TornManifest,
                    NoManifest
<1>8. QED
  BY <1>1, <1>2, <1>3, <1>4, <1>5, <1>6, <1>7

\* A rollback says of itself that it has begun.
LEMMA UnwindLedger == Known /\ Ledger /\ (Unwind \/ World) => Ledger'
<1> SUFFICES ASSUME Known, Ledger, Unwind \/ World
             PROVE  Ledger'
  OBVIOUS
<1> USE DEF Ledger, CommittedIsTrue, Applying, Sealed, Committing, Failing,
            Running, files, temps, locals, ghosts, spent, Exit
<1>0. /\ Target' = Target /\ BackupPath' = BackupPath
      /\ disk \in [Paths -> Image]
  BY DEF Target, BackupPath, Known, TypeOK
<1>1. CASE RollbackSlot
  <2>1. /\ pc = "rollback" /\ pc' \in {"rollback", "idle"}
        /\ manifest' = manifest /\ mem' = mem /\ edits' = edits
        /\ disk'[BackupPath] = disk[BackupPath]
        /\ unwound' \/ (disk' = disk /\ unwound' = unwound)
    BY <1>0, <1>1, TwoFiles DEF RollbackSlot
  <2>2. QED
    BY <1>0, <2>1
<1>2. CASE FinishRollback \/ FinishVerifyOnly
  BY <1>2 DEF FinishRollback, FinishVerifyOnly
<1>3. CASE Kill
  BY <1>3 DEF Kill
<1>4. CASE TidyUp
  BY <1>4 DEF TidyUp, NoManifest
<1>5. ASSUME NEW s \in Slots, ExternalEdit(s)
      PROVE  Ledger'
  <2>1. edits' # 0
    BY <1>5 DEF ExternalEdit, Known, TypeOK
  <2>2. QED
    BY <1>5, <2>1 DEF ExternalEdit
<1>6. QED
  BY <1>1, <1>2, <1>3, <1>4, <1>5 DEF Unwind, World

-----------------------------------------------------------------------------
(* The target before the commit. *)

\* The commands, and the steps up to the verification.
LEMMA PrepareUntouched ==
    Known /\ Untouched /\ (\/ Commands \/ CheckPaths \/ CopyInput
                           \/ BuildPlan \/ CheckDigest \/ Preflight
                           \/ WriteOp \/ RecoverOp \/ RecoverDone \/ Seal
                           \/ Verify)
        => Untouched'
<1> SUFFICES ASSUME Known, Untouched,
                    \/ Commands \/ CheckPaths \/ CopyInput \/ BuildPlan
                    \/ CheckDigest \/ Preflight \/ WriteOp \/ RecoverOp
                    \/ RecoverDone \/ Seal \/ Verify
             PROVE  Untouched'
  OBVIOUS
<1> USE ModeAssumption
    DEF Untouched, Applying, Sealed, Committing, Failing, Running, files,
        temps, locals, ghosts, spent, Exit, Bail, FailWith, Target
<1>1. CASE Commands
  BY <1>1 DEF Commands, DryRun, StartApply, StartRollback, VerifyOnly, Begin
<1>2. CASE CheckPaths \/ CopyInput \/ BuildPlan
  BY <1>2 DEF CheckPaths, CopyInput, BuildPlan
<1>3. CASE CheckDigest \/ Preflight
  BY <1>3 DEF CheckDigest, Preflight
<1>4. CASE WriteOp
  BY <1>4 DEF WriteOp
<1>5. CASE RecoverOp \/ RecoverDone \/ Seal
  BY <1>5 DEF RecoverOp, RecoverDone, Seal
<1>6. CASE Verify
  BY <1>6 DEF Verify
<1>7. QED
  BY <1>1, <1>2, <1>3, <1>4, <1>5, <1>6

\* The backup is a copy of the target as it was, and it is what an undone
\* commit puts back.
LEMMA CommitUntouched ==
    Known /\ Untouched /\ (\/ CreateBackup \/ CopyBackup \/ StageManifest
                           \/ CommitTarget \/ CommitManifest \/ RestoreTarget
                           \/ FinishRestore \/ CreateFailureManifest
                           \/ WriteFailureManifest)
        => Untouched'
<1> SUFFICES ASSUME Known, Untouched,
                    \/ CreateBackup \/ CopyBackup \/ StageManifest
                    \/ CommitTarget \/ CommitManifest \/ RestoreTarget
                    \/ FinishRestore \/ CreateFailureManifest
                    \/ WriteFailureManifest
             PROVE  Untouched'
  OBVIOUS
<1> USE ModeAssumption
    DEF Untouched, Applying, Sealed, Committing, Failing, Running, files,
        temps, locals, ghosts, spent, Exit, Bail, FailWith, Target
<1>0. DOMAIN disk = Paths /\ Paths = {"input", "output", "backup"}
  BY DEF Known, TypeOK, Paths
<1>1. CASE CreateBackup
  BY <1>0, <1>1 DEF CreateBackup, Known, Prepared
<1>2. CASE CopyBackup
  BY <1>0, <1>2 DEF CopyBackup, Known, Prepared
<1>3. CASE StageManifest
  BY <1>3 DEF StageManifest
<1>4. CASE CommitTarget
  BY <1>0, <1>4 DEF CommitTarget
<1>5. CASE CommitManifest
  BY <1>5 DEF CommitManifest
<1>6. CASE RestoreTarget
  BY <1>0, <1>6 DEF RestoreTarget
<1>7. CASE FinishRestore
  BY <1>0, <1>7 DEF FinishRestore, Known, Prepared
<1>8. CASE CreateFailureManifest \/ WriteFailureManifest
  BY <1>8 DEF CreateFailureManifest, WriteFailureManifest
<1>9. QED
  BY <1>1, <1>2, <1>3, <1>4, <1>5, <1>6, <1>7, <1>8

\* A rollback is none of the steps of an apply.
LEMMA UnwindUntouched ==
    Known /\ Untouched /\ (Unwind \/ World) => Untouched'
<1> SUFFICES ASSUME Known, Untouched, Unwind \/ World
             PROVE  Untouched'
  OBVIOUS
<1> USE DEF Untouched, Applying, Sealed, Committing, Failing, Running, files,
            temps, locals, ghosts, spent, Exit
<1>1. CASE Unwind
  BY <1>1 DEF Unwind, RollbackSlot, FinishRollback, FinishVerifyOnly
<1>2. CASE Kill \/ TidyUp
  BY <1>2 DEF Kill, TidyUp
<1>3. ASSUME NEW s \in Slots, ExternalEdit(s)
      PROVE  Untouched'
  BY <1>3 DEF ExternalEdit, Known, TypeOK
<1>4. QED
  BY <1>1, <1>2, <1>3 DEF World

-----------------------------------------------------------------------------
(* The whole plan or nothing of it. *)

\* A new plan names slots that have been found with their original bytes, or
\* is for a file that does not exist.
LEMMA PlanWhole ==
    Known /\ Untouched /\ Whole
    /\ (Commands \/ CheckPaths \/ CopyInput \/ BuildPlan) => Whole'
<1> SUFFICES ASSUME Known, Untouched, Whole,
                    Commands \/ CheckPaths \/ CopyInput \/ BuildPlan
             PROVE  Whole'
  OBVIOUS
<1> USE DEF Whole, AllOrNothing, files, temps, locals, ghosts, spent, Exit, Bail
<1>0. Target' = Target /\ (InPlace => Target = "input")
  BY DEF Target
<1>1. CASE Commands
  BY <1>0, <1>1 DEF Commands, DryRun, StartApply, StartRollback, VerifyOnly, Begin
<1>2. CASE CheckPaths \/ CopyInput
  BY <1>0, <1>2 DEF CheckPaths, CopyInput
<1>3. CASE BuildPlan
  <2>1. CASE plan' = plan
    BY <1>0, <1>3, <2>1 DEF BuildPlan
  <2>2. CASE plan' # plan
    <3>1. /\ pc = "build_plan" /\ pc' = "check_digest"
          /\ disk' = disk /\ edits' = edits /\ unwound' = unwound
          /\ \A i \in DOMAIN plan' : plan'[i] \in found
      BY <1>3, <2>2 DEF BuildPlan
    <3>2. found \subseteq Slots
      BY DEF Known, TypeOK
    <3>3. edits = 0 => \/ \A s \in found : disk[Target][s] = "orig"
                       \/ \A s \in found : disk[Target][s] = "missing"
      <4>1. CASE InPlace
        BY <3>1, <4>1
      <4>2. CASE ~InPlace
        <5>1. edits = 0 => disk[Target] = Absent
          BY <3>1, <4>2 DEF Untouched, Applying
        <5>2. QED
          BY <3>2, <5>1 DEF Absent
      <4>3. QED
        BY <4>1, <4>2
    <3>4. QED
      BY <1>0, <3>1, <3>3
  <2>3. QED
    BY <2>1, <2>2
<1>4. QED
  BY <1>1, <1>2, <1>3

\* The commit brings all of the plan, and taking it back removes all of it.
LEMMA CommitWhole ==
    Known /\ Whole /\ (CommitTarget \/ RestoreTarget \/ FinishRestore) => Whole'
<1> SUFFICES ASSUME Known, Whole, CommitTarget \/ RestoreTarget \/ FinishRestore
             PROVE  Whole'
  OBVIOUS
<1> USE DEF files, temps, locals, ghosts, spent, Exit, Bail, FailWith
<1>0. /\ Target' = Target /\ Target \in Paths
      /\ disk \in [Paths -> Image] /\ plan \in Seq(Slots)
  BY DEF Target, Paths, Known, TypeOK
<1>1. /\ plan' = plan /\ \A i \in DOMAIN plan : plan[i] \in Slots
      /\ pc' \notin {"check_paths", "copy_input", "build_plan"}
  BY <1>0 DEF CommitTarget, RestoreTarget, FinishRestore
<1>2. ASSUME NEW b,
             ~unwound' /\ edits' = 0 =>
                 \A i \in DOMAIN plan : disk'[Target][plan[i]] = b
      PROVE  Whole'
  BY <1>0, <1>1, <1>2 DEF Whole, AllOrNothing
<1>3. CASE UNCHANGED <<disk, unwound, edits>>
  BY <1>0, <1>1, <1>3 DEF Whole, AllOrNothing
<1>4. CASE CommitTarget /\ ~UNCHANGED <<disk, unwound, edits>>
  <2>1. pc = "commit_target" /\ disk' = [disk EXCEPT ![Target] = txn]
    BY <1>4 DEF CommitTarget
  <2>2. \A i \in DOMAIN plan : txn[plan[i]] = "patched"
    BY <1>1, <2>1 DEF Known, Prepared, Writing, Planned
  <2>3. disk'[Target] = txn
    BY <1>0, <2>1
  <2>4. QED
    BY <1>2, <2>2, <2>3
<1>5. CASE RestoreTarget /\ ~UNCHANGED <<disk, unwound, edits>>
  <2>1. \/ disk' = [disk EXCEPT ![Target] = Partial]
        \/ disk' = [disk EXCEPT ![Target] = Absent]
    BY <1>5 DEF RestoreTarget
  <2>2. CASE disk' = [disk EXCEPT ![Target] = Partial]
    <3>1. disk'[Target] = Partial
      BY <1>0, <2>2
    <3>2. \A i \in DOMAIN plan : disk'[Target][plan[i]] = "cut"
      BY <1>1, <3>1 DEF Partial
    <3>3. QED
      BY <1>2, <3>2
  <2>3. CASE disk' = [disk EXCEPT ![Target] = Absent]
    <3>1. disk'[Target] = Absent
      BY <1>0, <2>3
    <3>2. \A i \in DOMAIN plan : disk'[Target][plan[i]] = "missing"
      BY <1>1, <3>1 DEF Absent
    <3>3. QED
      BY <1>2, <3>2
  <2>4. QED
    BY <2>1, <2>2, <2>3
<1>6. CASE FinishRestore /\ ~UNCHANGED <<disk, unwound, edits>>
  <2>1. /\ pc = "restoring" /\ edits' = edits
        /\ disk' = [disk EXCEPT ![Target] = disk["backup"]]
    BY <1>6 DEF FinishRestore
  <2>2. edits = 0 => disk["backup"] = Original
    BY <2>1 DEF Known, OriginalSafe, Prepared
  <2>3. edits = 0 => \A i \in DOMAIN plan : disk'[Target][plan[i]] = "orig"
    BY <1>0, <1>1, <2>1, <2>2 DEF Original
  <2>4. QED
    BY <1>2, <2>1, <2>3
<1>7. QED
  BY <1>3, <1>4, <1>5, <1>6

\* The other steps of an apply do not touch the target.
LEMMA WorkWhole ==
    Known /\ Whole /\ (\/ CheckDigest \/ Preflight \/ WriteOp \/ RecoverOp
                       \/ RecoverDone \/ Seal \/ Verify \/ CreateBackup
                       \/ CopyBackup \/ StageManifest \/ CommitManifest
                       \/ CreateFailureManifest \/ WriteFailureManifest)
        => Whole'
<1> SUFFICES ASSUME Known, Whole,
                    \/ CheckDigest \/ Preflight \/ WriteOp \/ RecoverOp
                    \/ RecoverDone \/ Seal \/ Verify \/ CreateBackup
                    \/ CopyBackup \/ StageManifest \/ CommitManifest
                    \/ CreateFailureManifest \/ WriteFailureManifest
             PROVE  Whole'
  OBVIOUS
<1> USE ModeAssumption
    DEF files, temps, locals, ghosts, spent, Exit, Bail, FailWith
<1>0. Target' = Target
  BY DEF Target
<1>1. /\ plan' = plan /\ unwound' = unwound /\ edits' = edits
      /\ disk'[Target] = disk[Target]
      /\ pc' \notin {"check_paths", "copy_input", "build_plan"}
  <2>1. CASE CheckDigest \/ Preflight
    BY <2>1 DEF CheckDigest, Preflight
  <2>2. CASE WriteOp
    BY <2>2 DEF WriteOp
  <2>3. CASE RecoverOp \/ RecoverDone \/ Seal
    BY <2>3 DEF RecoverOp, RecoverDone, Seal
  <2>4. CASE Verify
    BY <2>4 DEF Verify
  <2>5. CASE CreateBackup \/ CopyBackup
    BY <2>5 DEF CreateBackup, CopyBackup, Known, TypeOK, Prepared, Target, Paths
  <2>6. CASE StageManifest \/ CommitManifest
    BY <2>6 DEF StageManifest, CommitManifest
  <2>7. CASE CreateFailureManifest \/ WriteFailureManifest
    BY <2>7 DEF CreateFailureManifest, WriteFailureManifest
  <2>8. QED
    BY <2>1, <2>2, <2>3, <2>4, <2>5, <2>6, <2>7
<1>2. QED
  BY <1>0, <1>1 DEF Whole, AllOrNothing

\* A rollback that writes says that it has begun, and what is tidied away
\* leaves the original, or no file.
LEMMA UnwindWhole == Known /\ Whole /\ (Unwind \/ World) => Whole'
<1> SUFFICES ASSUME Known, Whole, Unwind \/ World
             PROVE  Whole'
  OBVIOUS
<1> USE DEF files, temps, locals, ghosts, spent, Exit
<1>0. /\ Target' = Target /\ disk \in [Paths -> Image] /\ plan \in Seq(Slots)
  BY DEF Target, Known, TypeOK
<1>1. CASE RollbackSlot
  <2>1. /\ pc' \in {"rollback", "idle"} /\ plan' = plan /\ edits' = edits
        /\ unwound' \/ (disk' = disk /\ unwound' = unwound)
    BY <1>1 DEF RollbackSlot
  <2>2. QED
    BY <1>0, <2>1 DEF Whole, AllOrNothing
<1>2. CASE FinishRollback \/ FinishVerifyOnly \/ Kill
  BY <1>0, <1>2 DEF FinishRollback, FinishVerifyOnly, Kill, Whole, AllOrNothing
<1>3. CASE TidyUp
  <2>1. /\ pc = "idle" /\ pc' = "idle" /\ plan' = plan /\ edits' = edits
        /\ unwound' = unwound
        /\ disk' = [disk EXCEPT !["output"] = Absent, !["backup"] = Absent]
    BY <1>3 DEF TidyUp
  <2>2. CASE InPlace
    <3>1. disk'[Target] = disk[Target]
      BY <1>0, <2>1, <2>2 DEF Target, Paths
    <3>2. QED
      BY <1>0, <2>1, <3>1 DEF Whole, AllOrNothing
  <2>3. CASE ~InPlace
    <3>1. disk'[Target] = Absent
      BY <1>0, <2>1, <2>3 DEF Target, Paths
    <3>2. \A i \in DOMAIN plan : disk'[Target][plan[i]] = "missing"
      BY <1>0, <3>1 DEF Absent
    <3>3. QED
      BY <1>0, <2>1, <3>2 DEF Whole, AllOrNothing
  <2>4. QED
    BY <2>2, <2>3
<1>4. ASSUME NEW s \in Slots, ExternalEdit(s)
      PROVE  Whole'
  <2>1. edits' # 0
    BY <1>4 DEF ExternalEdit, Known, TypeOK
  <2>2. QED
    BY <2>1 DEF Whole, AllOrNothing
<1>5. QED
  BY <1>1, <1>2, <1>3, <1>4 DEF Unwind, World

-----------------------------------------------------------------------------
(* The results. *)

LEMMA AlwaysHistory == Spec => [](Known /\ History)
<1>1. Init => History
  BY DEF Init, History, Ledger, CommittedIsTrue, Untouched, Whole, AllOrNothing,
     NoManifest, Applying, Sealed, Committing, Failing, Running
<1>2. Known /\ History /\ [Next]_vars => History'
  <2> SUFFICES ASSUME Known, History, [Next]_vars PROVE History'
    OBVIOUS
  <2> USE DEF History
  <2>1. CASE UNCHANGED vars
    BY <2>1 DEF vars, Ledger, CommittedIsTrue, Untouched, Whole, AllOrNothing,
       Target, BackupPath
  <2>2. CASE Next
    <3>1. Ledger'
      BY <2>2, PrepareLedger, CommitLedger, UnwindLedger DEF Next, Apply
    <3>2. Untouched'
      BY <2>2, PrepareUntouched, CommitUntouched, UnwindUntouched DEF Next, Apply
    <3>3. Whole'
      BY <2>2, PlanWhole, CommitWhole, WorkWhole, UnwindWhole DEF Next, Apply
    <3>4. QED
      BY <3>1, <3>2, <3>3
  <2>3. QED
    BY <2>1, <2>2
<1>3. QED
  BY <1>1, <1>2, AlwaysKnown, PTL DEF Spec

\* A manifest that says Committed is true of the files, whatever has failed
\* or been killed since.
THEOREM ManifestIsTrue == Spec => []CommittedIsTrue
<1>1. Known /\ History => CommittedIsTrue
  BY DEF History, Ledger
<1>2. QED
  BY <1>1, AlwaysHistory, PTL

\* No step of any command leaves a part of a plan at the target.
THEOREM PatchIsWhole == Spec => []AllOrNothing
<1>1. Known /\ History => AllOrNothing
  BY DEF History, Whole
<1>2. QED
  BY <1>1, AlwaysHistory, PTL

\* A backup is written once, and then only removed by its owner.
THEOREM BackupSurvives == Spec => BackupNeverOverwritten
<1>1. Known /\ [Next]_vars =>
        [disk["backup"] \notin {Absent, Partial}
         => disk'["backup"] \in {disk["backup"], Absent}]_vars
  <2> SUFFICES ASSUME Known, Next, disk["backup"] \notin {Absent, Partial}
               PROVE  disk'["backup"] \in {disk["backup"], Absent}
    OBVIOUS
  <2> USE DEF files, temps, locals, ghosts, spent, Exit, Bail, FailWith, Begin
  <2>0. /\ disk \in [Paths -> Image] /\ "backup" \in Paths
        /\ Target \in Paths /\ Target # "backup"
    BY DEF Known, TypeOK, Paths, Target
  <2>1. CASE Commands
    BY <2>1 DEF Commands, DryRun, StartApply, StartRollback, VerifyOnly
  <2>2. CASE CheckPaths \/ CopyInput \/ BuildPlan \/ CheckDigest \/ Preflight
    BY <2>2 DEF CheckPaths, CopyInput, BuildPlan, CheckDigest, Preflight
  <2>3. CASE WriteOp \/ RecoverOp \/ RecoverDone \/ Seal \/ Verify
    BY <2>3 DEF WriteOp, RecoverOp, RecoverDone, Seal, Verify
  <2>4. CASE CreateBackup \/ CopyBackup
    BY <2>4 DEF CreateBackup, CopyBackup, Known, Prepared
  <2>5. CASE \/ StageManifest \/ CommitManifest
             \/ CreateFailureManifest \/ WriteFailureManifest
    BY <2>5 DEF StageManifest, CommitManifest, CreateFailureManifest,
                WriteFailureManifest
  <2>6. CASE CommitTarget \/ RestoreTarget \/ FinishRestore
    BY <2>0, <2>6 DEF CommitTarget, RestoreTarget, FinishRestore
  <2>7. CASE RollbackSlot
    BY <2>0, <2>7 DEF RollbackSlot
  <2>8. CASE FinishRollback \/ FinishVerifyOnly \/ Kill
    BY <2>8 DEF FinishRollback, FinishVerifyOnly, Kill
  <2>9. CASE TidyUp
    BY <2>0, <2>9 DEF TidyUp
  <2>10. ASSUME NEW s \in Slots, ExternalEdit(s)
         PROVE  disk'["backup"] = disk["backup"]
    BY <2>0, <2>10 DEF ExternalEdit
  <2>11. QED
    BY <2>1, <2>2, <2>3, <2>4, <2>5, <2>6, <2>7, <2>8, <2>9, <2>10
    DEF Next, Apply, Unwind, World
<1>2. QED
  BY <1>1, AlwaysKnown, PTL DEF Spec, BackupNeverOverwritten

\* An apply that fails, refuses or finds nothing to do leaves the target as
\* it was when the command began.
THEOREM FailureIsHarmless == Spec => FailureLeavesTarget
<1>1. Known /\ History /\ [Next]_vars =>
        [outcome' \in {"failed", "refused", "nothing"} /\ outcome = "running"
         /\ edits' = 0 => disk'[Target] = atStart]_vars
  <2> SUFFICES ASSUME Known, History, Next, outcome = "running", edits' = 0,
                      outcome' \in {"failed", "refused", "nothing"}
               PROVE  disk'[Target] = atStart
    OBVIOUS
  <2> USE DEF files, temps, locals, ghosts, spent, Exit, Bail, FailWith, Begin
  <2>1. /\ disk' = disk /\ edits' = edits
        /\ pc \in Applying \cup {"write_failure_manifest",
                                 "create_failure_manifest"}
    <3> USE DEF Applying
    <3>1. ~Commands
      BY DEF Commands, DryRun, StartApply, StartRollback, VerifyOnly
    <3>2. ~(Unwind \/ World)
      BY DEF Unwind, RollbackSlot, FinishRollback, FinishVerifyOnly, World,
             Kill, TidyUp, ExternalEdit
    <3>3. CASE CheckPaths \/ CopyInput \/ BuildPlan \/ CheckDigest \/ Preflight
      BY <3>3 DEF CheckPaths, CopyInput, BuildPlan, CheckDigest, Preflight
    <3>4. CASE WriteOp \/ RecoverOp \/ RecoverDone \/ Seal \/ Verify
      BY <3>4 DEF WriteOp, RecoverOp, RecoverDone, Seal, Verify
    <3>5. CASE CreateBackup \/ CopyBackup \/ StageManifest
      BY <3>5 DEF CreateBackup, CopyBackup, StageManifest
    <3>6. CASE CommitTarget \/ CommitManifest \/ RestoreTarget \/ FinishRestore
      BY <3>6 DEF CommitTarget, CommitManifest, RestoreTarget, FinishRestore
    <3>7. CASE CreateFailureManifest \/ WriteFailureManifest
      BY <3>7 DEF CreateFailureManifest, WriteFailureManifest
    <3>8. QED
      BY <3>1, <3>2, <3>3, <3>4, <3>5, <3>6, <3>7 DEF Next, Apply
  <2>2. disk[Target] = atStart
    BY <2>1 DEF History, Untouched, Failing
  <2>3. QED
    BY <2>1, <2>2
<1>2. QED
  BY <1>1, AlwaysHistory, PTL DEF Spec, FailureLeavesTarget

\* A rollback that says it succeeded has restored what the manifest was made
\* from, though writes may have been lost: that is the backup.
THEOREM RollbackIsExact == Spec => RollbackRestores
<1>1. Known /\ History /\ [Next]_vars =>
        [outcome' = "rolled_back" /\ outcome = "running" /\ edits' = 0
         => /\ disk'[Target] = manifest.before
            /\ manifest.status = "Committed"
                  => disk'[Target] = disk[BackupPath]]_vars
  <2> SUFFICES ASSUME Known, History, Next, outcome = "running", edits' = 0,
                      outcome' = "rolled_back"
               PROVE  /\ disk'[Target] = manifest.before
                      /\ manifest.status = "Committed"
                            => disk'[Target] = disk[BackupPath]
    OBVIOUS
  <2> USE DEF files, temps, locals, ghosts, spent, Exit, Bail, FailWith, Begin
  <2>1. FinishRollback
    <3>1. ~Commands
      BY DEF Commands, DryRun, StartApply, StartRollback, VerifyOnly
    <3>2. ~(RollbackSlot \/ FinishVerifyOnly \/ World)
      BY DEF RollbackSlot, FinishVerifyOnly, World, Kill, TidyUp, ExternalEdit
    <3>3. ~(CheckPaths \/ CopyInput \/ BuildPlan \/ CheckDigest \/ Preflight)
      BY DEF CheckPaths, CopyInput, BuildPlan, CheckDigest, Preflight
    <3>4. ~(WriteOp \/ RecoverOp \/ RecoverDone \/ Seal \/ Verify)
      BY DEF WriteOp, RecoverOp, RecoverDone, Seal, Verify
    <3>5. ~(CreateBackup \/ CopyBackup \/ StageManifest)
      BY DEF CreateBackup, CopyBackup, StageManifest
    <3>6. ~(CommitTarget \/ CommitManifest \/ RestoreTarget \/ FinishRestore)
      BY DEF CommitTarget, CommitManifest, RestoreTarget, FinishRestore
    <3>7. ~(CreateFailureManifest \/ WriteFailureManifest)
      BY DEF CreateFailureManifest, WriteFailureManifest
    <3>8. QED
      BY <3>1, <3>2, <3>3, <3>4, <3>5, <3>6, <3>7 DEF Next, Apply, Unwind
  <2>2. disk' = disk /\ edits = 0 /\ pc = "rollback" /\ disk[Target] = mem.before
    BY <2>1 DEF FinishRollback
  <2>3. mem = manifest
    BY <2>2 DEF History, Ledger
  <2>4. manifest.status = "Committed" => disk[BackupPath] = manifest.before
    BY <2>2 DEF History, Ledger, CommittedIsTrue
  <2>5. QED
    BY <2>2, <2>3, <2>4
<1>2. QED
  BY <1>1, AlwaysHistory, PTL DEF Spec, RollbackRestores

=============================================================================
