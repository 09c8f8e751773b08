-------------------------- MODULE PatchTransaction --------------------------
(***************************************************************************)
(* The patch transaction of r2smt: `r2smt patch --apply`, `--rollback`     *)
(* and `--verify-only` (crates/r2smt-cli/src/commands/patch.rs), with the  *)
(* library calls they make (apply_plan, rollback_from_manifest and         *)
(* verify_manifest of crates/r2smt-patch/src/apply.rs).                    *)
(*                                                                         *)
(* One command runs at a time over files that outlive it.  Every step that *)
(* touches a file is an action; between two steps the process can be       *)
(* killed, any I/O step can fail, and somebody else can edit the binary.   *)
(* A file is the function from the patchable slots (the instructions the   *)
(* findings name) to the bytes they hold; sha256_hex is taken as           *)
(* injective, so the digest of a file is the file.                         *)
(***************************************************************************)
EXTENDS Naturals, Sequences, FiniteSets

CONSTANTS
    Slots,        \* the instructions a plan can rewrite
    InPlace,      \* --in-place; otherwise the patch goes to a sibling file
    MaxCommands,  \* bound on the commands a behaviour runs
    MaxFaults,    \* bound on the I/O failures of a behaviour
    MaxKills,     \* bound on the times the process is killed
    MaxEdits      \* bound on the edits by another program

ASSUME SlotsAssumption == Slots # {} /\ IsFiniteSet(Slots)
ASSUME ModeAssumption == InPlace \in BOOLEAN
ASSUME BoundsAssumption ==
    {MaxCommands, MaxFaults, MaxKills, MaxEdits} \subseteq Nat

VARIABLES
    disk,       \* the files at the three paths a command names
    manifest,   \* the file at manifest_path
    txn,        \* the NamedTempFile the patch is applied to
    mtmp,       \* the NamedTempFile the manifest is staged in
    pc,         \* where the running command is, "idle" when none runs
    expected,   \* the --expect-sha256 the user got from the dry run
    found,      \* the slots compute_findings reported as actionable
    plan,       \* the PatchPlan: slots in the order of the findings
    idx,        \* the operation or record the running loop is at
    recErr,     \* recovery_errors is not empty
    mem,        \* the PatchManifest held in memory
    outcome,    \* how the last command ended
    atStart,    \* history: the target when the command began
    unwound,    \* history: a rollback has written to the target
    commands, faults, kills, edits  \* what has been spent of the bounds

vars == <<disk, manifest, txn, mtmp, pc, expected, found, plan, idx, recErr,
          mem, outcome, atStart, unwound, commands, faults, kills, edits>>

files  == <<disk, manifest>>
temps  == <<txn, mtmp>>
locals == <<expected, found, plan, idx, recErr, mem>>
ghosts == <<atStart, unwound>>
spent  == <<commands, kills, edits>>

-----------------------------------------------------------------------------
(* Files, digests and manifests. *)

\* "cut" is what a copy that did not finish leaves, "foreign" the bytes of a
\* torn write or of another program.
Bytes    == {"orig", "patched", "foreign", "cut", "missing"}
Image    == [Slots -> Bytes]
Absent   == [s \in Slots |-> "missing"]
Partial  == [s \in Slots |-> "cut"]
Original == [s \in Slots |-> "orig"]

Paths      == {"input", "output", "backup"}
Target     == IF InPlace THEN "input" ELSE "output"
BackupPath == IF InPlace THEN "backup" ELSE "input"

\* PatchStatus, and the two states of manifest_path that hold no manifest.
Statuses   == {"Committed", "Recovered", "RecoveryFailed"}
Manifest   == [status : Statuses \cup {"absent", "partial"},
               before : Image, after : Image, ops : Seq(Slots)]
NoManifest == [status |-> "absent", before |-> Absent, after |-> Absent,
               ops |-> <<>>]
TornManifest == [NoManifest EXCEPT !.status = "partial"]

Readable(f) == f \notin {Absent, Partial}

\* failure_manifest hashes the transaction file as it is at that moment.
FailureManifest(ops, status, after) ==
    [status |-> status, before |-> mem.before, after |-> after, ops |-> ops]

PatchPlans == {p \in UNION {[1..n -> Slots] : n \in 1..Cardinality(Slots)} :
                 \A i, j \in DOMAIN p : p[i] = p[j] => i = j}

\* The steps of `patch` at which a process can be found.
Locations ==
    {"idle", "check_paths", "copy_input", "build_plan", "check_digest",
     "preflight", "write", "recover", "verify", "check_backup",
     "copy_backup", "stage_manifest", "commit_target", "commit_manifest",
     "restore", "restoring", "create_failure_manifest",
     "write_failure_manifest", "rollback", "verify_only"}

Outcomes ==
    {"none", "running", "refused", "nothing", "failed", "unrecovered",
     "committed", "rolled_back", "rollback_refused", "rollback_failed",
     "verified", "verify_failed", "killed"}

-----------------------------------------------------------------------------
(* Leaving a command: both temporary files are removed on drop. *)

Exit(o) ==
    /\ pc' = "idle"
    /\ outcome' = o
    /\ txn' = Absent
    /\ mtmp' = NoManifest

\* An error path: one more of the bounded I/O failures happens here.
Fault ==
    /\ faults < MaxFaults
    /\ faults' = faults + 1

\* A `?` that returns from `patch` and changes no named file.
Bail == Exit("failed") /\ UNCHANGED <<files, locals, ghosts, spent>>

\* Return an error after recording m at failure_manifest_path.
FailWith(m) ==
    /\ mem' = m
    /\ pc' = "create_failure_manifest"

Begin(name) ==
    /\ pc = "idle"
    /\ commands < MaxCommands
    /\ commands' = commands + 1
    /\ pc' = name
    /\ outcome' = "running"
    /\ atStart' = disk[Target]

Init ==
    /\ disk = [p \in Paths |-> IF p = "input" THEN Original ELSE Absent]
    /\ manifest = NoManifest
    /\ txn = Absent /\ mtmp = NoManifest
    /\ pc = "idle" /\ outcome = "none"
    /\ expected = Absent /\ found = {} /\ plan = <<>> /\ idx = 0
    /\ recErr = FALSE /\ mem = NoManifest
    /\ atStart = disk[Target] /\ unwound = FALSE
    /\ commands = 0 /\ faults = 0 /\ kills = 0 /\ edits = 0

-----------------------------------------------------------------------------
(* patch without --apply, and patch --apply up to the first write. *)

\* The dry run prints the digest the user passes to --apply.
DryRun ==
    /\ pc = "idle"
    /\ Readable(disk["input"])
    /\ expected # disk["input"]
    /\ expected' = disk["input"]
    /\ UNCHANGED <<files, temps, pc, found, plan, idx, recErr, mem, outcome,
                   ghosts, spent, faults>>

\* compute_findings runs on the input before anything is copied: a slot is
\* reported while its original instruction is there, and the solver may
\* report any subset of those.
StartApply ==
    /\ expected # Absent
    /\ Readable(disk["input"])
    /\ Begin("check_paths")
    /\ found' \in SUBSET {s \in Slots : disk["input"][s] = "orig"}
    /\ UNCHANGED <<files, temps, expected, plan, idx, recErr, mem, unwound,
                   faults, kills, edits>>

\* "refusing to overwrite existing output / manifest".
CheckPaths ==
    /\ pc = "check_paths"
    /\ \/ /\ \/ ~InPlace /\ disk[Target] # Absent
             \/ manifest.status # "absent"
          /\ Exit("refused")
       \/ /\ InPlace \/ disk[Target] = Absent
          /\ manifest.status = "absent"
          /\ pc' = "copy_input"
          /\ UNCHANGED <<temps, outcome>>
    /\ UNCHANGED <<files, locals, ghosts, spent, faults>>

CopyInput ==
    /\ pc = "copy_input"
    /\ \/ /\ txn' = disk["input"]
          /\ pc' = "build_plan"
          /\ UNCHANGED <<files, mtmp, locals, outcome, ghosts, spent, faults>>
       \/ Fault /\ Bail

\* A plan holds some of the findings; the others are skipped.  The range
\* checks of build_plan fail the command; an empty plan ends it.
BuildPlan ==
    /\ pc = "build_plan"
    /\ \/ /\ plan' \in {p \in PatchPlans : \A i \in DOMAIN p : p[i] \in found}
          /\ pc' = "check_digest"
          /\ UNCHANGED <<files, temps, expected, found, idx, recErr, mem,
                         outcome, ghosts, spent, faults>>
       \/ Exit("nothing")
          /\ UNCHANGED <<files, locals, ghosts, spent, faults>>
       \/ Fault /\ Bail

-----------------------------------------------------------------------------
(* apply_plan: precondition, preflight, writes, reverse recovery. *)

\* Mutant: the precondition is never compared.
CheckDigestMutant ==
    /\ pc = "check_digest"
    /\ mem' = [status |-> "Recovered", before |-> txn, after |-> txn,
               ops |-> <<>>]
    /\ pc' = "preflight"
    /\ UNCHANGED <<files, temps, expected, found, plan, idx, recErr, outcome,
                   ghosts, spent, faults>>

CheckDigest ==
    /\ pc = "check_digest"
    /\ \/ /\ LET m == [status |-> "Recovered", before |-> txn, after |-> txn,
                       ops |-> <<>>]
             IN  \/ /\ txn # expected
                    /\ FailWith(m)
                 \/ /\ txn = expected
                    /\ mem' = m
                    /\ pc' = "preflight"
          /\ UNCHANGED <<files, temps, expected, found, plan, idx, recErr,
                         outcome, ghosts, spent, faults>>
       \/ Fault /\ Bail

\* Every range is read, and its size compared, before the first write.
Preflight ==
    /\ pc = "preflight"
    /\ \/ /\ pc' = "write"
          /\ idx' = 1
          /\ recErr' = FALSE
          /\ UNCHANGED <<mem, faults>>
       \/ /\ Fault
          /\ FailWith(FailureManifest(<<>>, "Recovered", txn))
          /\ UNCHANGED <<idx, recErr>>
    /\ UNCHANGED <<files, temps, expected, found, plan, outcome, ghosts,
                   spent>>

\* write_bytes believes radare2 unless its answer says "error": a write can
\* be lost and still return Ok.  A refused write leaves any bytes; the
\* records up to it are the ones recovered and reported.
WriteOp ==
    /\ pc = "write"
    /\ idx <= Len(plan)
    /\ \/ /\ txn' = [txn EXCEPT ![plan[idx]] = "patched"]
          /\ idx' = idx + 1
          /\ UNCHANGED <<pc, mem, faults>>
       \/ /\ Fault
          /\ idx' = idx + 1
          /\ UNCHANGED <<txn, mem, pc>>
       \/ /\ Fault
          /\ \E b \in {txn[plan[idx]], "patched", "foreign"} :
               txn' = [txn EXCEPT ![plan[idx]] = b]
          /\ mem' = [mem EXCEPT !.ops = SubSeq(plan, 1, idx)]
          /\ pc' = "recover"
          /\ UNCHANGED idx
    /\ UNCHANGED <<files, mtmp, expected, found, plan, recErr, outcome,
                   ghosts, spent>>

\* Mutant: the first record is left out of the recovery loop.
RecoverOpMutant ==
    /\ pc = "recover"
    /\ idx > 1
    /\ idx' = idx - 1
    /\ txn' = [txn EXCEPT ![plan[idx]] = mem.before[plan[idx]]]
    /\ UNCHANGED <<files, mtmp, pc, expected, found, plan, recErr, mem,
                   outcome, ghosts, spent, faults>>

\* records[..=index] in reverse; a failed recovery write does not stop it,
\* and a lost one goes unnoticed.
RecoverOp ==
    /\ pc = "recover"
    /\ idx >= 1
    /\ idx' = idx - 1
    /\ \/ /\ txn' = [txn EXCEPT ![plan[idx]] = mem.before[plan[idx]]]
          /\ UNCHANGED <<recErr, faults>>
       \/ /\ Fault
          /\ UNCHANGED <<txn, recErr>>
       \/ /\ Fault
          /\ \E b \in {txn[plan[idx]], "foreign"} :
               txn' = [txn EXCEPT ![plan[idx]] = b]
          /\ recErr' = TRUE
    /\ UNCHANGED <<files, mtmp, pc, expected, found, plan, mem, outcome,
                   ghosts, spent>>

RecoverDone ==
    /\ pc = "recover"
    /\ idx = 0
    /\ FailWith(FailureManifest(
            mem.ops, IF recErr THEN "RecoveryFailed" ELSE "Recovered", txn))
    /\ UNCHANGED <<files, temps, expected, found, plan, idx, recErr, outcome,
                   ghosts, spent, faults>>

\* binary_sha256_after, the manifest apply_plan returns, and the fsync of
\* the patched file.
Seal ==
    /\ pc = "write"
    /\ idx > Len(plan)
    /\ \/ /\ mem' = [status |-> "Committed", before |-> mem.before,
                     after |-> txn, ops |-> plan]
          /\ pc' = "verify"
          /\ UNCHANGED <<files, temps, expected, found, plan, idx, recErr,
                         outcome, ghosts, spent, faults>>
       \/ Fault /\ Bail

-----------------------------------------------------------------------------
(* post_patch_verify and the commit. *)

\* Mutant: the digest alone is verified.
VerifyManifestMutant(m, f) ==
    m.status = "Committed" /\ f = m.after

\* verify_manifest: committed, the recorded digest, every slot patched.
VerifyManifest(m, f) ==
    /\ m.status = "Committed"
    /\ f = m.after
    /\ \A i \in DOMAIN m.ops : f[m.ops[i]] = "patched"

\* Mutant: an in-place commit goes on without a backup.
VerifyMutant ==
    /\ pc = "verify"
    /\ VerifyManifest(mem, txn)
    /\ pc' = "stage_manifest"
    /\ UNCHANGED <<files, temps, locals, outcome, ghosts, spent, faults>>

\* The reanalysis can also find a CFG or a finding that should not be there.
Verify ==
    /\ pc = "verify"
    /\ \/ /\ VerifyManifest(mem, txn)
          /\ pc' = IF InPlace THEN "check_backup" ELSE "stage_manifest"
          /\ UNCHANGED <<mem, faults>>
       \/ /\ ~VerifyManifest(mem, txn)
          /\ FailWith([mem EXCEPT !.status = "Recovered"])
          /\ UNCHANGED faults
       \/ /\ Fault
          /\ FailWith([mem EXCEPT !.status = "Recovered"])
    /\ UNCHANGED <<files, temps, expected, found, plan, idx, recErr, outcome,
                   ghosts, spent>>

\* Mutant: an existing backup is replaced.
CreateBackupMutant ==
    /\ pc = "check_backup"
    /\ disk' = [disk EXCEPT !["backup"] = Partial]
    /\ pc' = "copy_backup"
    /\ UNCHANGED <<manifest, temps, locals, outcome, ghosts, spent, faults>>

\* Mutant: an existing backup is taken to be the one of this binary, though
\* the copy that made it may have been cut short.
CreateBackupSkipped ==
    /\ pc = "check_backup"
    /\ \/ /\ disk["backup"] # Absent
          /\ pc' = "stage_manifest"
          /\ UNCHANGED <<files, temps, locals, outcome, ghosts, spent, faults>>
       \/ /\ disk["backup"] = Absent
          /\ disk' = [disk EXCEPT !["backup"] = Partial]
          /\ pc' = "copy_backup"
          /\ UNCHANGED <<manifest, temps, locals, outcome, ghosts, spent,
                         faults>>

\* "refusing to overwrite existing backup"; fs::copy then creates the file.
CreateBackup ==
    /\ pc = "check_backup"
    /\ \/ disk["backup"] # Absent /\ Bail /\ UNCHANGED faults
       \/ /\ disk["backup"] = Absent
          /\ disk' = [disk EXCEPT !["backup"] = Partial]
          /\ pc' = "copy_backup"
          /\ UNCHANGED <<manifest, temps, locals, outcome, ghosts, spent,
                         faults>>
       \/ disk["backup"] = Absent /\ Fault /\ Bail

\* Mutant: the backup is taken of the patched file.
CopyBackupMutant ==
    /\ pc = "copy_backup"
    /\ disk' = [disk EXCEPT !["backup"] = txn]
    /\ pc' = "stage_manifest"
    /\ UNCHANGED <<manifest, temps, locals, outcome, ghosts, spent, faults>>

CopyBackup ==
    /\ pc = "copy_backup"
    /\ \/ /\ disk' = [disk EXCEPT !["backup"] = disk["input"]]
          /\ pc' = "stage_manifest"
          /\ UNCHANGED <<manifest, temps, locals, outcome, ghosts, spent,
                         faults>>
       \/ Fault /\ Bail

StageManifest ==
    /\ pc = "stage_manifest"
    /\ \/ /\ mtmp' = mem
          /\ pc' = "commit_target"
          /\ UNCHANGED <<files, txn, locals, outcome, ghosts, spent, faults>>
       \/ Fault /\ Bail

\* transaction.persist(&target): one rename.
CommitTarget ==
    /\ pc = "commit_target"
    /\ \/ /\ disk' = [disk EXCEPT ![Target] = txn]
          /\ txn' = Absent
          /\ pc' = "commit_manifest"
          /\ unwound' = FALSE
          /\ UNCHANGED <<manifest, mtmp, locals, outcome, atStart, spent,
                         faults>>
       \/ Fault /\ Bail

\* Mutant: a manifest that cannot be persisted is only reported.
CommitManifestMutant ==
    /\ pc = "commit_manifest"
    /\ \/ manifest' = mtmp /\ Exit("committed") /\ UNCHANGED faults
       \/ Fault /\ Exit("failed") /\ UNCHANGED manifest
    /\ UNCHANGED <<disk, locals, ghosts, spent>>

CommitManifest ==
    /\ pc = "commit_manifest"
    /\ \/ /\ manifest' = mtmp
          /\ Exit("committed")
          /\ UNCHANGED <<disk, locals, ghosts, spent, faults>>
       \/ /\ Fault
          /\ pc' = "restore"
          /\ UNCHANGED <<files, temps, locals, outcome, ghosts, spent>>

\* The manifest could not be persisted: undo the commit of the target.  An
\* error here is propagated with the target as it is.
RestoreTarget ==
    /\ pc = "restore"
    /\ \/ /\ InPlace
          /\ disk' = [disk EXCEPT ![Target] = Partial]
          /\ pc' = "restoring"
          /\ UNCHANGED <<manifest, temps, locals, outcome, ghosts, spent,
                         faults>>
       \/ /\ ~InPlace
          /\ disk' = [disk EXCEPT ![Target] = Absent]
          /\ FailWith([mem EXCEPT !.status = "Recovered"])
          /\ UNCHANGED <<manifest, temps, expected, found, plan, idx, recErr,
                         outcome, ghosts, spent, faults>>
       \/ /\ Fault
          /\ Exit("unrecovered")
          /\ UNCHANGED <<files, locals, ghosts, spent>>

FinishRestore ==
    /\ pc = "restoring"
    /\ \/ /\ disk' = [disk EXCEPT ![Target] = disk["backup"]]
          /\ FailWith([mem EXCEPT !.status = "Recovered"])
          /\ UNCHANGED <<manifest, temps, expected, found, plan, idx, recErr,
                         outcome, ghosts, spent, faults>>
       \/ /\ Fault
          /\ Exit("unrecovered")
          /\ UNCHANGED <<files, locals, ghosts, spent>>

\* PatchManifest::write_to is File::create followed by write_all.
CreateFailureManifest ==
    /\ pc = "create_failure_manifest"
    /\ \/ /\ manifest' = TornManifest
          /\ pc' = "write_failure_manifest"
          /\ UNCHANGED <<disk, temps, locals, outcome, ghosts, spent, faults>>
       \/ Fault /\ Bail

WriteFailureManifest ==
    /\ pc = "write_failure_manifest"
    /\ \/ /\ manifest' = mem
          /\ Exit("failed")
          /\ UNCHANGED <<disk, locals, ghosts, spent, faults>>
       \/ Fault /\ Bail

-----------------------------------------------------------------------------
(* patch --rollback and patch --verify-only. *)

\* Mutant: the loop starts one record short.
StartRollbackMutant ==
    /\ Begin("rollback")
    /\ manifest.status \in Statuses
    /\ Readable(disk[Target])
    /\ mem' = manifest
    /\ idx' = Len(manifest.ops) - 1
    /\ UNCHANGED <<files, temps, expected, found, plan, recErr, unwound,
                   faults, kills, edits>>

\* read_from refuses a missing or malformed manifest; the status it holds is
\* not looked at.  The target is opened for writing where it is.
StartRollback ==
    /\ Begin("rollback")
    /\ manifest.status \in Statuses
    /\ Readable(disk[Target])
    /\ mem' = manifest
    /\ idx' = Len(manifest.ops)
    /\ UNCHANGED <<files, temps, expected, found, plan, recErr, unwound,
                   faults, kills, edits>>

\* One record, last applied first: refuse unless the slot holds the patched
\* bytes, then write the original ones over them.
RollbackSlot ==
    /\ pc = "rollback"
    /\ idx >= 1
    /\ LET s == mem.ops[idx]
       IN  \/ /\ disk[Target][s] # "patched"
              /\ Exit("rollback_refused")
              /\ UNCHANGED <<disk, idx, unwound, faults>>
           \/ /\ disk[Target][s] = "patched"
              /\ disk' = [disk EXCEPT ![Target][s] = mem.before[s]]
              /\ idx' = idx - 1
              /\ unwound' = TRUE
              /\ UNCHANGED <<temps, pc, outcome, faults>>
           \/ /\ disk[Target][s] = "patched"
              /\ Fault
              /\ idx' = idx - 1
              /\ UNCHANGED <<disk, temps, pc, outcome, unwound>>
           \/ /\ disk[Target][s] = "patched"
              /\ Fault
              /\ \E b \in {"patched", mem.before[s], "foreign"} :
                   disk' = [disk EXCEPT ![Target][s] = b]
              /\ Exit("rollback_failed")
              /\ unwound' = TRUE
              /\ UNCHANGED idx
    /\ UNCHANGED <<manifest, expected, found, plan, recErr, mem, atStart,
                   spent>>

\* Mutant: success without the final digest.
FinishRollbackMutant ==
    /\ pc = "rollback"
    /\ idx = 0
    /\ Exit("rolled_back")
    /\ UNCHANGED <<files, locals, ghosts, spent, faults>>

\* Mutant: the final digest is compared with the wrong field.
FinishRollbackMutantAfter ==
    /\ pc = "rollback"
    /\ idx = 0
    /\ Exit(IF disk[Target] = mem.after THEN "rolled_back"
                                        ELSE "rollback_failed")
    /\ UNCHANGED <<files, locals, ghosts, spent, faults>>

\* The digest of the restored file must be binary_sha256_before.
FinishRollback ==
    /\ pc = "rollback"
    /\ idx = 0
    /\ \/ /\ Exit(IF disk[Target] = mem.before THEN "rolled_back"
                                               ELSE "rollback_failed")
          /\ UNCHANGED faults
       \/ Fault /\ Exit("rollback_failed")
    /\ UNCHANGED <<files, locals, ghosts, spent>>

VerifyOnly ==
    /\ Begin("verify_only")
    /\ manifest.status \in Statuses
    /\ Readable(disk[Target])
    /\ UNCHANGED <<files, temps, locals, unwound, faults, kills, edits>>

FinishVerifyOnly ==
    /\ pc = "verify_only"
    /\ \/ /\ VerifyManifest(manifest, disk[Target])
          /\ Exit("verified")
          /\ UNCHANGED faults
       \/ /\ ~VerifyManifest(manifest, disk[Target])
          /\ Exit("verify_failed")
          /\ UNCHANGED faults
       \/ /\ Fault
          /\ Exit("verify_failed")
    /\ UNCHANGED <<files, locals, ghosts, spent>>

-----------------------------------------------------------------------------
(* The world around the command. *)

\* The host process is killed: the files stay as they are, a temporary file
\* is left under a name no later command uses.
Kill ==
    /\ pc # "idle"
    /\ kills < MaxKills
    /\ kills' = kills + 1
    /\ Exit("killed")
    /\ UNCHANGED <<files, locals, ghosts, commands, faults, edits>>

\* Another program rewrites one slot of the target.
ExternalEdit(s) ==
    /\ edits < MaxEdits
    /\ edits' = edits + 1
    /\ Readable(disk[Target])
    /\ disk' = [disk EXCEPT ![Target][s] = "foreign"]
    /\ UNCHANGED <<manifest, temps, pc, locals, outcome, ghosts, commands,
                   faults, kills>>

\* The user moves the manifest and the backup of a finished transaction out
\* of the way, once the target is the original again (or, for a sibling
\* output, deletes the output with them).
TidyUp ==
    /\ pc = "idle"
    /\ InPlace => disk[Target] = Original
    /\ <<manifest.status, disk["output"], disk["backup"]>>
          # <<"absent", Absent, Absent>>
    /\ manifest' = NoManifest
    /\ disk' = [disk EXCEPT !["output"] = Absent, !["backup"] = Absent]
    /\ UNCHANGED <<temps, pc, locals, outcome, ghosts, spent, faults>>

-----------------------------------------------------------------------------

Apply == \/ CheckPaths \/ CopyInput \/ BuildPlan \/ CheckDigest \/ Preflight
         \/ WriteOp \/ RecoverOp \/ RecoverDone \/ Seal \/ Verify
         \/ CreateBackup \/ CopyBackup \/ StageManifest \/ CommitTarget
         \/ CommitManifest \/ RestoreTarget \/ FinishRestore
         \/ CreateFailureManifest \/ WriteFailureManifest

Unwind == RollbackSlot \/ FinishRollback \/ FinishVerifyOnly

Commands == DryRun \/ StartApply \/ StartRollback \/ VerifyOnly

World == Kill \/ TidyUp \/ \E s \in Slots : ExternalEdit(s)

Next == Commands \/ Apply \/ Unwind \/ World

Spec == Init /\ [][Next]_vars

\* A command that has been started is scheduled until it returns.
FairSpec == Spec /\ WF_vars(Apply \/ Unwind)

-----------------------------------------------------------------------------
(* Properties. *)

\* The types of the variables.
TypeOK ==
    /\ disk \in [Paths -> Image]
    /\ manifest \in Manifest
    /\ txn \in Image
    /\ mtmp \in Manifest
    /\ pc \in Locations
    /\ expected \in Image
    /\ found \in SUBSET Slots
    /\ plan \in Seq(Slots)
    /\ idx \in Nat
    /\ recErr \in BOOLEAN
    /\ mem \in Manifest
    /\ outcome \in Outcomes
    /\ atStart \in Image
    /\ unwound \in BOOLEAN
    /\ commands \in Nat /\ faults \in Nat /\ kills \in Nat /\ edits \in Nat

\* lib.rs: "a full-file backup is taken before any byte is written, so the
\* pipeline can roll back to a known-good state even if the host process is
\* killed mid-flight".  As long as no other program writes to the files, the
\* original binary is, complete, at the target or at the backup path:
\* whatever is killed or fails, in whatever step, of whatever command.
OriginalRecoverable ==
    edits = 0 => Original \in {disk[Target], disk[BackupPath]}

\* The inductive form of OriginalRecoverable.  A commit in place relies on the
\* backup from the moment it has been copied, the copy on the input still
\* being the original, and a patch to a sibling file on the input alone.
OriginalSafe ==
    edits = 0 =>
        /\ Original \in {disk[Target], disk[BackupPath]}
        /\ ~InPlace => disk["input"] = Original
        /\ InPlace /\ pc = "copy_backup" => disk["input"] = Original
        /\ InPlace /\ pc \in {"stage_manifest", "commit_target",
                              "commit_manifest", "restore", "restoring"}
              => disk["backup"] = Original

\* A manifest that says Committed is true: the backup it names is the binary
\* it was made from, and until a rollback writes to it the target is the
\* binary the manifest describes, every recorded slot patched.
CommittedIsTrue ==
    manifest.status = "Committed" /\ edits = 0 =>
        /\ disk[BackupPath] = manifest.before
        /\ ~unwound => /\ disk[Target] = manifest.after
                       /\ \A i \in DOMAIN manifest.ops :
                            disk[Target][manifest.ops[i]] = "patched"

\* The patch reaches the target as a whole: unless a rollback has begun, no
\* kill and no failure leaves a target with one operation of the plan
\* applied and another not.
AllOrNothing ==
    ~unwound /\ edits = 0 =>
        \A i, j \in DOMAIN plan :
            disk[Target][plan[i]] = disk[Target][plan[j]]

\* "original left untouched": an apply that returns an error, other than
\* one raised while it undoes the commit itself, leaves the target exactly
\* as it was when the command began.
FailureLeavesTarget ==
    [][outcome' \in {"failed", "refused", "nothing"} /\ outcome = "running"
          /\ edits' = 0
       => disk'[Target] = atStart]_vars

\* --expect-sha256 is a contract on the bytes: what a commit puts at the
\* target is the binary the user approved in the dry run with exactly the
\* planned slots patched, whoever edited the input in between.
OnlyApprovedBytes ==
    [][pc = "commit_target" /\ pc' = "commit_manifest"
       => disk'[Target] = [s \in Slots |->
            IF \E i \in DOMAIN plan : plan[i] = s THEN "patched"
                                                  ELSE expected[s]]]_vars

\* A complete backup is never written over, not even by the retry of a
\* command that failed after it had made one.
BackupNeverOverwritten ==
    [][disk["backup"] \notin {Absent, Partial}
       => disk'["backup"] \in {disk["backup"], Absent}]_vars

\* A rollback that reports success has restored the binary its manifest was
\* made from, though radare2 may have lost any of its writes: the one the
\* backup holds, when the transaction had been committed.
RollbackRestores ==
    [][outcome' = "rolled_back" /\ outcome = "running" /\ edits' = 0
       => /\ disk'[Target] = manifest.before
          /\ manifest.status = "Committed"
                => disk'[Target] = disk[BackupPath]]_vars

\* Every command returns.
CommandReturns == pc # "idle" ~> pc = "idle"

\* A rollback of a target that is as the manifest describes it succeeds when
\* nothing more fails.
CleanRollbackSucceeds ==
    (/\ pc = "rollback" /\ idx = Len(mem.ops)
     /\ mem.status = "Committed" /\ disk[Target] = mem.after
     /\ faults = MaxFaults /\ kills = MaxKills /\ edits = MaxEdits)
        ~> outcome = "rolled_back"

\* What a command may do to the target, in the terms of PatchContract: a
\* verification writes nothing, and a failing command only its manifest.
Phase ==
    CASE pc \in {"idle", "verify_only"} -> "idle"
      [] pc \in {"commit_manifest", "restore"} -> "committed"
      [] pc = "restoring" -> "undoing"
      [] pc \in {"create_failure_manifest", "write_failure_manifest"} -> "failing"
      [] pc = "rollback" -> "unwinding"
      [] OTHER -> "applying"

Contract == INSTANCE PatchContract WITH
                target <- disk[Target], reserve <- disk[BackupPath],
                approved <- expected, phase <- Phase, edited <- edits > 0

\* What the transaction knows at each step of the way to the commit: the copy
\* is the approved binary outside the plan, and inside it once it has been
\* verified; and until somebody edits it, the input is the approved binary.
Writing   == {"write", "verify", "check_backup", "copy_backup",
              "stage_manifest", "commit_target"}
Preparing == {"preflight"} \cup Writing
Planned   == {plan[i] : i \in DOMAIN plan}
Prepared ==
    /\ pc \in {"check_backup", "copy_backup", "restoring"} => InPlace
    /\ pc = "copy_backup" => disk["backup"] = Partial
    /\ pc \in {"check_digest"} \cup Preparing => plan \in PatchPlans
    /\ pc = "preflight" => txn = expected
    /\ pc = "write" => idx >= 1
    /\ pc \in Writing => \A s \in Slots \ Planned : txn[s] = expected[s]
    /\ pc = "verify" => mem.ops = plan
    /\ pc \in Writing \ {"write", "verify"} =>
          \A s \in Planned : txn[s] = "patched"
    /\ edits = 0 =>
          /\ pc \in {"build_plan", "check_digest"} => txn = disk["input"]
          /\ pc \in Preparing \ {"stage_manifest", "commit_target"} =>
                expected = disk["input"]
          /\ pc \in {"stage_manifest", "commit_target"} =>
                expected = disk[BackupPath]

\* The transaction implements its contract: to whoever sees only the target
\* and the file that keeps the original, a patch is one step from the approved
\* binary to its patched form, taken while the original is in reserve, and a
\* failure takes it back as a whole, whatever is killed, fails or is retried.
ImplementsContract == Contract!Spec

=============================================================================
