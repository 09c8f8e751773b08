-------------------------- MODULE AnalysisWorkers --------------------------
(***************************************************************************)
(* The isolated analysis workers of r2smt: run_isolated and wait_worker of *)
(* crates/r2smt-cli/src/worker.rs, one call per sample of `r2smt batch`    *)
(* (crates/r2smt-cli/src/commands/batch.rs), and the Sandbox of            *)
(* crates/r2smt-windows-sandbox.  A single-file command is a batch of one. *)
(*                                                                         *)
(* Each sample has a supervising thread (pc) and a process tree: the       *)
(* worker, and the radare2 it starts.  The worker goes at its own pace, or *)
(* not at all; the supervisor polls it and kills it at a limit.            *)
(***************************************************************************)
EXTENDS Naturals, FiniteSets

CONSTANTS
    Samples,    \* the files of the batch
    Threads,    \* the threads of the rayon pool
    Platform,   \* what cfg(target_os) selects
    MaxFaults   \* bound on the failures of the host: spawn, netsh, ps, I/O

ASSUME SamplesAssumption == Samples # {} /\ IsFiniteSet(Samples)
ASSUME ThreadsAssumption == Threads \in Nat \ {0}
ASSUME PlatformAssumption == Platform \in {"linux", "macos", "windows"}
ASSUME FaultsAssumption == MaxFaults \in Nat

VARIABLES
    pc,       \* where the thread of the sample is
    worker,   \* the child process
    radare,   \* the child's radare2; "stray" when outside the Job Object
    result,   \* result.json
    chatty,   \* stdout.log or stderr.log is past MAX_LOG_BYTES
    heavy,    \* the tree is past MEMORY_MIB
    due,      \* next_memory_check has come
    late,     \* the deadline has come
    entry,    \* the BatchOutcome of the sample; "limit" is a failure too
    mine,     \* the firewall rules this Firewall lists
    rules,    \* names of the firewall rules the host has
    report,   \* the batch has reported
    faults

vars == <<pc, worker, radare, result, chatty, heavy, due, late, entry, mine,
          rules, report, faults>>

tree  == <<worker, radare, result>>
usage == <<chatty, heavy>>
clock == <<due, late>>
fence == <<mine, rules>>

\* The rules are named after the process of the batch and the index of the
\* blocked program, so that every worker of a batch installs the same names.
RuleNames == {"r2smt-0", "r2smt-1"}

Active(s) == pc[s] \notin {"queued", "done"}
Polling == {"try_wait", "logs", "memory", "deadline", "sleep"}

Fault == faults < MaxFaults /\ faults' = faults + 1

Goto(s, l) == pc' = [pc EXCEPT ![s] = l]

\* Mutant: the Job has no Drop.
InJobMutant(s) == FALSE

\* Closing the Job Object kills what is in it.
InJob(s) == Platform = "windows" /\ pc[s] # "attach"

\* Mutant: the Firewall has no Drop.
ReturnMutant(s, e, killed) ==
    /\ Goto(s, "done")
    /\ entry' = [entry EXCEPT ![s] = e]
    /\ worker' = IF worker[s] = "running" /\ (killed # {} \/ InJob(s))
                 THEN [worker EXCEPT ![s] = "killed"] ELSE worker
    /\ radare' = IF radare[s] = "tree" /\ ("tree" \in killed \/ InJob(s))
                 THEN [radare EXCEPT ![s] = "gone"] ELSE radare
    /\ mine' = [mine EXCEPT ![s] = {}]
    /\ chatty' = [chatty EXCEPT ![s] = FALSE]
    /\ heavy' = [heavy EXCEPT ![s] = FALSE]
    /\ due' = [due EXCEPT ![s] = FALSE]
    /\ UNCHANGED <<result, late, rules, report>>

\* run_isolated returns: what it killed, what dropping the Sandbox ends (the
\* Job Object first, then every rule that has one of its names), and the
\* working directory, with the logs, removed.
Return(s, e, killed) ==
    /\ Goto(s, "done")
    /\ entry' = [entry EXCEPT ![s] = e]
    /\ worker' = IF worker[s] = "running" /\ (killed # {} \/ InJob(s))
                 THEN [worker EXCEPT ![s] = "killed"] ELSE worker
    /\ radare' = IF radare[s] = "tree" /\ ("tree" \in killed \/ InJob(s))
                 THEN [radare EXCEPT ![s] = "gone"] ELSE radare
    /\ rules' = rules \ mine[s]
    /\ mine' = [mine EXCEPT ![s] = {}]
    /\ chatty' = [chatty EXCEPT ![s] = FALSE]
    /\ heavy' = [heavy EXCEPT ![s] = FALSE]
    /\ due' = [due EXCEPT ![s] = FALSE]
    /\ UNCHANGED <<result, late, report>>

\* kill_process_tree, or only child.kill().
Tree  == {"child", "tree"}
Child == {"child"}

Init ==
    /\ pc = [s \in Samples |-> "queued"]
    /\ worker = [s \in Samples |-> "none"]
    /\ radare = [s \in Samples |-> "none"]
    /\ result = [s \in Samples |-> "absent"]
    /\ chatty = [s \in Samples |-> FALSE]
    /\ heavy = [s \in Samples |-> FALSE]
    /\ due = [s \in Samples |-> TRUE]
    /\ late = [s \in Samples |-> FALSE]
    /\ entry = [s \in Samples |-> "none"]
    /\ mine = [s \in Samples |-> {}]
    /\ rules = {} /\ report = FALSE /\ faults = 0

-----------------------------------------------------------------------------
(* run_isolated, up to the polling loop. *)

\* A free thread takes the sample; the directory, the request and the child
\* may each fail to be made.
Start(s) ==
    /\ pc[s] = "queued"
    /\ Cardinality({t \in Samples : Active(t)}) < Threads
    /\ \/ /\ worker' = [worker EXCEPT ![s] = "running"]
          /\ Goto(s, "attach")
          /\ UNCHANGED <<radare, result, usage, clock, entry, fence, report,
                         faults>>
       \/ Fault /\ Return(s, "failed", {})

\* Sandbox::attach: nothing on Unix; on Windows the Job Object, whose failure
\* kills the child.
Attach(s) ==
    /\ pc[s] = "attach"
    /\ \/ /\ Goto(s, IF Platform = "windows" THEN "firewall" ELSE "try_wait")
          /\ UNCHANGED <<tree, usage, clock, entry, fence, report, faults>>
       \/ Platform = "windows" /\ Fault /\ Return(s, "failed", Child)

\* Mutant: the rules are numbered from one.
AddRuleMutant(s) ==
    /\ pc[s] = "firewall"
    /\ \/ /\ mine[s] # {}
          /\ Goto(s, "try_wait")
          /\ UNCHANGED <<fence>>
       \/ /\ mine[s] = {}
          /\ mine' = [mine EXCEPT ![s] = {"r2smt-1", "r2smt-2"}]
          /\ rules' = rules \cup {"r2smt-1", "r2smt-2"}
          /\ UNCHANGED pc
    /\ UNCHANGED <<tree, usage, clock, entry, report, faults>>

\* Firewall::install, one netsh call; a failure drops the rules added so far
\* and terminates the job.
AddRule(s) ==
    /\ pc[s] = "firewall"
    /\ \/ /\ mine[s] = RuleNames
          /\ Goto(s, "try_wait")
          /\ UNCHANGED <<tree, usage, clock, entry, fence, report, faults>>
       \/ /\ \E r \in RuleNames \ mine[s] :
               /\ r = "r2smt-1" => "r2smt-0" \in mine[s]
               /\ mine' = [mine EXCEPT ![s] = @ \cup {r}]
               /\ rules' = rules \cup {r}
          /\ UNCHANGED <<pc, tree, usage, clock, entry, report, faults>>
       \/ mine[s] # RuleNames /\ Fault /\ Return(s, "failed", Tree)

-----------------------------------------------------------------------------
(* wait_worker, one action per statement of its loop. *)

\* Mutant: the deadline is compared before the child is polled.
TryWaitMutant(s) ==
    /\ pc[s] = "try_wait"
    /\ \/ late[s] /\ Return(s, "limit", Tree)
       \/ /\ ~late[s]
          /\ Goto(s, IF worker[s] = "running" THEN "logs" ELSE "status")
          /\ UNCHANGED <<tree, usage, clock, entry, fence, report>>
    /\ UNCHANGED faults

TryWait(s) ==
    /\ pc[s] = "try_wait"
    /\ \/ /\ Goto(s, IF worker[s] = "running" THEN "logs" ELSE "status")
          /\ UNCHANGED <<tree, usage, clock, entry, fence, report, faults>>
       \/ Fault /\ Return(s, "failed", {})

CheckLogs(s) ==
    /\ pc[s] = "logs"
    /\ \/ chatty[s] /\ Return(s, "limit", Tree) /\ UNCHANGED faults
       \/ /\ ~chatty[s]
          /\ Goto(s, "memory")
          /\ UNCHANGED <<tree, usage, clock, entry, fence, report, faults>>

\* process_group_rss_kib.  `ps -g` takes a process group on macOS; on Linux
\* it takes a session, the worker's group is none, and the sum is 0.  It is
\* not called on Windows.
RssOver(s) == heavy[s] /\ Platform = "macos"

\* Mutant: the check is armed again without being made.
CheckMemoryMutant(s) ==
    /\ pc[s] = "memory"
    /\ due' = [due EXCEPT ![s] = FALSE]
    /\ Goto(s, "deadline")
    /\ UNCHANGED <<tree, usage, late, entry, fence, report, faults>>

\* A ps that cannot be run ends run_isolated; one that exits with an error
\* reads as 0.
CheckMemory(s) ==
    /\ pc[s] = "memory"
    /\ \/ /\ due[s] /\ RssOver(s)
          /\ Return(s, "limit", Tree)
          /\ UNCHANGED faults
       \/ /\ ~due[s] \/ ~RssOver(s)
          /\ due' = [due EXCEPT ![s] = FALSE]
          /\ Goto(s, "deadline")
          /\ UNCHANGED <<tree, usage, late, entry, fence, report, faults>>
       \/ /\ due[s] /\ RssOver(s) /\ Fault
          /\ due' = [due EXCEPT ![s] = FALSE]
          /\ Goto(s, "deadline")
          /\ UNCHANGED <<tree, usage, late, entry, fence, report>>
       \/ due[s] /\ Platform # "windows" /\ Fault /\ Return(s, "failed", {})

\* Mutant: the deadline kills the child and not its process group.
CheckDeadlineMutant(s) ==
    /\ pc[s] = "deadline"
    /\ \/ late[s] /\ Return(s, "limit", Child) /\ UNCHANGED faults
       \/ /\ ~late[s]
          /\ Goto(s, "sleep")
          /\ UNCHANGED <<tree, usage, clock, entry, fence, report, faults>>

\* Mutant: the deadline is never compared.
CheckDeadlineMutantNever(s) ==
    /\ pc[s] = "deadline"
    /\ Goto(s, "sleep")
    /\ UNCHANGED <<tree, usage, clock, entry, fence, report, faults>>

CheckDeadline(s) ==
    /\ pc[s] = "deadline"
    /\ \/ late[s] /\ Return(s, "limit", Tree) /\ UNCHANGED faults
       \/ /\ ~late[s]
          /\ Goto(s, "sleep")
          /\ UNCHANGED <<tree, usage, clock, entry, fence, report, faults>>

Sleep(s) ==
    /\ pc[s] = "sleep"
    /\ Goto(s, "try_wait")
    /\ UNCHANGED <<tree, usage, clock, entry, fence, report, faults>>

-----------------------------------------------------------------------------
(* The rest of run_isolated, and batch. *)

\* Mutant: the exit status is not looked at.
ReadResultMutant(s) ==
    /\ pc[s] = "status"
    /\ Return(s, IF result[s] = "complete" THEN "analyzed" ELSE "failed", {})
    /\ UNCHANGED faults

\* The status, the size of the result, and whether it parses.
ReadResult(s) ==
    /\ pc[s] = "status"
    /\ \/ /\ Return(s, IF worker[s] = "ok" /\ result[s] = "complete"
                       THEN "analyzed" ELSE "failed", {})
          /\ UNCHANGED faults
       \/ Fault /\ Return(s, "failed", {})

BatchCompleted ==
    /\ ~report
    /\ \A s \in Samples : pc[s] = "done"
    /\ report' = TRUE
    /\ UNCHANGED <<pc, tree, usage, clock, entry, fence, faults>>

-----------------------------------------------------------------------------
(* The process tree, and time. *)

Running(s) == worker[s] = "running"

\* open_provider.  A process started before the worker is assigned to the Job
\* Object does not belong to it.
OpenProvider(s) ==
    /\ Running(s) /\ radare[s] = "none"
    /\ radare' = [radare EXCEPT ![s] =
                    IF Platform = "windows" /\ pc[s] = "attach"
                    THEN "stray" ELSE "tree"]
    /\ UNCHANGED <<pc, worker, result, usage, clock, entry, fence, report,
                   faults>>

\* write_json_sync: File::create, then write_all.
WriteResult(s) ==
    /\ Running(s) /\ Active(s) /\ radare[s] # "none"
    /\ \/ /\ result[s] = "absent"
          /\ result' = [result EXCEPT ![s] = "partial"]
       \/ /\ result[s] = "partial"
          /\ \E r \in {"complete", "oversize"} :
               result' = [result EXCEPT ![s] = r]
    /\ UNCHANGED <<pc, worker, radare, usage, clock, entry, fence, report,
                   faults>>

\* Logging, and memory of the worker or of its radare2; a Job Object refuses
\* the memory.
Consume(s) ==
    /\ Running(s) /\ Active(s)
    /\ \/ /\ ~chatty[s]
          /\ chatty' = [chatty EXCEPT ![s] = TRUE]
          /\ UNCHANGED heavy
       \/ /\ ~heavy[s] /\ Platform # "windows"
          /\ heavy' = [heavy EXCEPT ![s] = TRUE]
          /\ UNCHANGED chatty
    /\ UNCHANGED <<pc, tree, clock, entry, fence, report, faults>>

\* worker_entry returns; dropping its provider closes radare2.
Succeed(s) ==
    /\ Running(s) /\ result[s] \in {"complete", "oversize"}
    /\ worker' = [worker EXCEPT ![s] = "ok"]
    /\ radare' = [radare EXCEPT ![s] = "gone"]
    /\ UNCHANGED <<pc, result, usage, clock, entry, fence, report, faults>>

\* An error, at any point, a crash, or a kill by the host: radare2 may be
\* left behind.
Crash(s) ==
    /\ Running(s)
    /\ worker' = [worker EXCEPT ![s] = "bad"]
    /\ \/ UNCHANGED radare
       \/ radare[s] # "none" /\ radare' = [radare EXCEPT ![s] = "gone"]
    /\ UNCHANGED <<pc, result, usage, clock, entry, fence, report, faults>>

MemoryCheckDue(s) ==
    /\ pc[s] \in Polling /\ ~due[s]
    /\ due' = [due EXCEPT ![s] = TRUE]
    /\ UNCHANGED <<pc, tree, usage, late, entry, fence, report, faults>>

\* The deadline comes, whether a supervisor is there to see it or not.
DeadlinePasses(s) ==
    /\ ~late[s]
    /\ pc[s] \in Polling \/ (pc[s] = "done" /\ Running(s))
    /\ late' = [late EXCEPT ![s] = TRUE]
    /\ UNCHANGED <<pc, tree, usage, due, entry, fence, report, faults>>

-----------------------------------------------------------------------------

Supervise(s) == \/ Start(s) \/ Attach(s) \/ AddRule(s) \/ TryWait(s)
                \/ CheckLogs(s) \/ CheckMemory(s) \/ CheckDeadline(s)
                \/ Sleep(s) \/ ReadResult(s)

Process(s) == \/ OpenProvider(s) \/ WriteResult(s) \/ Consume(s)
              \/ Succeed(s) \/ Crash(s)

Clock(s) == MemoryCheckDue(s) \/ DeadlinePasses(s)

Next == \/ \E s \in Samples : Supervise(s) \/ Process(s) \/ Clock(s)
        \/ BatchCompleted

Spec == Init /\ [][Next]_vars

\* The threads of the pool and the clock go on; a worker may hang forever.
FairSpec == /\ Spec /\ WF_vars(BatchCompleted)
            /\ \A s \in Samples : /\ WF_vars(Supervise(s))
                                  /\ WF_vars(DeadlinePasses(s))

-----------------------------------------------------------------------------
(* Properties. *)

\* The types of the variables.
TypeOK ==
    /\ pc \in [Samples -> Polling \cup {"queued", "attach", "firewall",
                                        "status", "done"}]
    /\ worker \in [Samples -> {"none", "running", "ok", "bad", "killed"}]
    /\ radare \in [Samples -> {"none", "tree", "stray", "gone"}]
    /\ result \in [Samples -> {"absent", "partial", "complete", "oversize"}]
    /\ chatty \in [Samples -> BOOLEAN] /\ heavy \in [Samples -> BOOLEAN]
    /\ due \in [Samples -> BOOLEAN] /\ late \in [Samples -> BOOLEAN]
    /\ entry \in [Samples -> {"none", "analyzed", "limit", "failed"}]
    /\ mine \in [Samples -> SUBSET RuleNames]
    /\ rules \subseteq RuleNames
    /\ report \in BOOLEAN
    /\ faults \in Nat

\* A sample is reported as analyzed only on the word of a worker that ran to
\* its end: it exited with success, not killed and not crashed after it had
\* written its result, and nothing of its tree is left.
AnalyzedMeansFinished ==
    \A s \in Samples : entry[s] = "analyzed" =>
        /\ worker[s] = "ok" /\ result[s] = "complete" /\ radare[s] = "gone"

\* A worker killed at one of its limits takes its radare2 with it.
LimitKillsTree ==
    \A s \in Samples : entry[s] = "limit" =>
        /\ worker[s] # "running"
        /\ radare[s] \notin {"tree", "stray"}

\* `--threads` bounds the worker processes of a batch, not only the threads
\* that supervise them: no worker is left running by a thread that has gone
\* on to the next sample.
PoolBounded == Cardinality({s \in Samples : Running(s)}) <= Threads

\* "a subprocess group with a 120-second wall-clock deadline": once its
\* deadline has come, no worker runs that nobody is going to kill.
DeadlineEnforced ==
    \A s \in Samples : late[s] /\ pc[s] = "done" => ~Running(s)

\* "a 2 GiB aggregate RSS limit": a memory check that is due, and whose ps
\* does not fail, does not let a tree past the limit go on.
MemoryLimited ==
    [][\A s \in Samples :
         pc[s] = "memory" /\ due[s] /\ heavy[s] /\ faults' = faults =>
            pc'[s] # "deadline"]_vars

\* Windows: no rule is left behind by a batch that has reported.
RulesRemoved == report => rules = {}

\* Whatever its workers do, hanging included, a batch reports.
BatchReports == <>report

\* A worker that finished before its supervisor went to sleep is seen as
\* finished at the next poll, even if the deadline has come meanwhile.
FinishedIsAnalyzed ==
    \A s \in Samples :
        (/\ pc[s] = "sleep" /\ worker[s] = "ok" /\ result[s] = "complete"
         /\ faults = MaxFaults) ~> entry[s] = "analyzed"

=============================================================================
