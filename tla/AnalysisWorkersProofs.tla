------------------------ MODULE AnalysisWorkersProofs ------------------------
(***************************************************************************)
(* Theorems about AnalysisWorkers: the types of its variables, and, for    *)
(* every set of samples, every number of threads and of faults, the safety *)
(* properties its runs check.  All of them follow from one invariant,      *)
(* Supervised.                                                             *)
(***************************************************************************)
EXTENDS AnalysisWorkers, FiniteSetTheorems, TLAPS

\* What is true of one sample: it has an entry exactly when its thread is
\* done; radare2 does not outlive a worker that succeeded; and an entry was
\* made on the state of the tree it reports.
SampleInv(s) ==
    /\ pc[s] = "done" <=> entry[s] # "none"
    /\ pc[s] = "queued" => worker[s] = "none"
    /\ worker[s] = "ok" => radare[s] = "gone"
    /\ entry[s] = "analyzed" => worker[s] = "ok" /\ result[s] = "complete"
    /\ entry[s] = "limit" => worker[s] # "running" /\ radare[s] # "tree"
    /\ Platform # "windows" => radare[s] # "stray"
    /\ Platform = "windows" /\ pc[s] = "done" => worker[s] # "running"
    /\ Platform = "windows" => ~heavy[s]
    /\ pc[s] = "done" => mine[s] = {}

Owned == \A r \in rules : \E s \in Samples : r \in mine[s]

Reported == report => \A s \in Samples : pc[s] = "done"

ActiveSet == {s \in Samples : Active(s)}

Supervised ==
    /\ TypeOK
    /\ \A s \in Samples : SampleInv(s)
    /\ Owned
    /\ Reported
    /\ Cardinality(ActiveSet) <= Threads

-----------------------------------------------------------------------------
(* One step of one sample. *)

\* What run_isolated leaves when it returns.
LEMMA ReturnStep ==
    ASSUME TypeOK, NEW s \in Samples, SampleInv(s), Owned,
           NEW e \in {"analyzed", "limit", "failed"}, NEW killed,
           faults' \in Nat,
           Return(s, e, killed),
           Active(s) \/ worker[s] = "none",
           e = "analyzed" => worker[s] = "ok" /\ result[s] = "complete",
           e = "limit" => killed = Tree,
           pc[s] = "attach" => killed # {}
    PROVE  TypeOK' /\ SampleInv(s)' /\ Owned'
<1>1. TypeOK'
  BY DEF TypeOK, Return, Goto, Polling
<1>2. SampleInv(s)'
  BY DEF TypeOK, SampleInv, Return, Goto, InJob, Tree, Polling
<1>3. Owned'
  BY DEF TypeOK, Owned, Return
<1> QED
  BY <1>1, <1>2, <1>3

\* What a check that lets the loop go on leaves.
LEMMA GotoStep ==
    ASSUME TypeOK, NEW s \in Samples, SampleInv(s), Owned, Active(s),
           NEW l \in Polling \cup {"firewall", "status"},
           Goto(s, l),
           UNCHANGED <<tree, usage, late, entry, fence, report>>,
           due' \in [Samples -> BOOLEAN],
           faults' \in Nat
    PROVE  TypeOK' /\ SampleInv(s)' /\ Owned'
<1>1. TypeOK'
  BY DEF TypeOK, Goto, tree, usage, fence, Polling
<1>2. SampleInv(s)'
  BY DEF TypeOK, SampleInv, Goto, tree, usage, fence, Polling, Active
<1>3. Owned'
  BY DEF Owned, fence
<1> QED
  BY <1>1, <1>2, <1>3

StepOf(s) == Supervise(s) \/ Process(s) \/ Clock(s)

\* A step of the supervising thread: it goes on, or it returns.
LEMMA SuperviseStep ==
    ASSUME TypeOK, NEW s \in Samples, SampleInv(s), Owned, Supervise(s)
    PROVE  TypeOK' /\ SampleInv(s)' /\ Owned'
<1>f. ASSUME Fault PROVE faults' \in Nat
  BY <1>f DEF Fault, TypeOK
<1>u. ASSUME UNCHANGED faults PROVE faults' \in Nat
  BY <1>u DEF TypeOK
<1>d. ASSUME UNCHANGED due PROVE due' \in [Samples -> BOOLEAN]
  BY <1>d DEF TypeOK
<1>e. ASSUME due' = [due EXCEPT ![s] = FALSE]
      PROVE  due' \in [Samples -> BOOLEAN]
  BY <1>e DEF TypeOK
<1>1. CASE Start(s)
  <2>1. CASE UNCHANGED fence /\ Goto(s, "attach")
    BY <1>1, <2>1, <1>u
    DEF Start, TypeOK, SampleInv, Owned, Goto, Polling, usage, clock, fence,
        Return, Fault
  <2>2. CASE Fault /\ Return(s, "failed", {})
    BY <1>1, <2>2, <1>f, ReturnStep DEF Start, SampleInv, Tree
  <2> QED BY <1>1, <2>1, <2>2 DEF Start, fence
<1>2. CASE Attach(s)
  <2>1. CASE UNCHANGED faults
    BY <1>2, <2>1, <1>u, <1>d, GotoStep, ReturnStep
    DEF Attach, Active, clock, Polling, Fault, TypeOK
  <2>2. CASE Fault /\ Return(s, "failed", Child)
    BY <1>2, <2>2, <1>f, ReturnStep DEF Attach, Active, Child
  <2> QED BY <1>2, <2>1, <2>2 DEF Attach
<1>3. CASE AddRule(s)
  <2>1. CASE mine[s] = RuleNames
    BY <1>3, <2>1, <1>u, <1>d, GotoStep
    DEF AddRule, Active, clock, Polling, Fault
  <2>2. ASSUME NEW r \in RuleNames,
               mine' = [mine EXCEPT ![s] = @ \cup {r}],
               rules' = rules \cup {r},
               UNCHANGED <<pc, tree, usage, clock, entry, report, faults>>
        PROVE  TypeOK' /\ SampleInv(s)' /\ Owned'
    BY <1>3, <2>2
    DEF AddRule, TypeOK, SampleInv, Owned, tree, usage, clock, Polling
  <2>3. CASE Fault /\ Return(s, "failed", Tree)
    BY <1>3, <2>3, <1>f, ReturnStep DEF AddRule, Active
  <2> QED BY <1>3, <2>1, <2>2, <2>3 DEF AddRule
<1>4. CASE TryWait(s)
  <2>1. CASE Goto(s, IF worker[s] = "running" THEN "logs" ELSE "status")
             /\ UNCHANGED <<tree, usage, clock, entry, fence, report, faults>>
    BY <1>4, <2>1, <1>u, <1>d, GotoStep DEF TryWait, Active, clock, Polling
  <2>2. CASE Fault /\ Return(s, "failed", {})
    BY <1>4, <2>2, <1>f, ReturnStep DEF TryWait, Active
  <2> QED BY <1>4, <2>1, <2>2 DEF TryWait
<1>5. CASE CheckLogs(s)
  <2>1. CASE chatty[s] /\ Return(s, "limit", Tree)
    BY <1>5, <2>1, <1>u, ReturnStep DEF CheckLogs, Active
  <2>2. CASE ~chatty[s]
    BY <1>5, <2>2, <1>u, <1>d, GotoStep DEF CheckLogs, Active, clock, Polling
  <2> QED BY <1>5, <2>1, <2>2 DEF CheckLogs
<1>6. CASE CheckMemory(s)
  <2>1. CASE Return(s, "limit", Tree) /\ UNCHANGED faults
    BY <1>6, <2>1, <1>u, ReturnStep DEF CheckMemory, Active
  <2>2. CASE Goto(s, "deadline") /\ due' = [due EXCEPT ![s] = FALSE]
             /\ UNCHANGED <<tree, usage, late, entry, fence, report>>
             /\ faults' \in Nat
    BY <1>6, <2>2, <1>e, GotoStep DEF CheckMemory, Active, Polling
  <2>3. CASE Fault /\ Return(s, "failed", {})
    BY <1>6, <2>3, <1>f, ReturnStep DEF CheckMemory, Active
  <2> QED BY <1>6, <2>1, <2>2, <2>3, <1>f, <1>u DEF CheckMemory
<1>7. CASE CheckDeadline(s)
  <2>1. CASE late[s] /\ Return(s, "limit", Tree)
    BY <1>7, <2>1, <1>u, ReturnStep DEF CheckDeadline, Active
  <2>2. CASE ~late[s]
    BY <1>7, <2>2, <1>u, <1>d, GotoStep
    DEF CheckDeadline, Active, clock, Polling
  <2> QED BY <1>7, <2>1, <2>2 DEF CheckDeadline
<1>8. CASE Sleep(s)
  BY <1>8, <1>u, <1>d, GotoStep DEF Sleep, Active, clock, Polling
<1>9. CASE ReadResult(s)
  <2>1. CASE Fault /\ Return(s, "failed", {})
    BY <1>9, <2>1, <1>f, ReturnStep DEF ReadResult, Active
  <2>2. ASSUME NEW e \in {"analyzed", "failed"}, Return(s, e, {}),
               UNCHANGED faults,
               e = "analyzed" => worker[s] = "ok" /\ result[s] = "complete"
        PROVE  TypeOK' /\ SampleInv(s)' /\ Owned'
    BY <1>9, <2>2, <1>u, ReturnStep DEF ReadResult, Active
  <2> QED BY <1>9, <2>1, <2>2 DEF ReadResult
<1> QED
  BY <1>1, <1>2, <1>3, <1>4, <1>5, <1>6, <1>7, <1>8, <1>9 DEF Supervise

\* A step of the process tree or of the clock.
LEMMA TreeStep ==
    ASSUME TypeOK, NEW s \in Samples, SampleInv(s), Owned,
           Process(s) \/ Clock(s)
    PROVE  TypeOK' /\ SampleInv(s)' /\ Owned' /\ UNCHANGED <<pc, report>>
<1>1. UNCHANGED <<pc, fence, report>>
  BY DEF Process, Clock, OpenProvider, WriteResult, Consume, Succeed, Crash,
         MemoryCheckDue, DeadlinePasses
<1>2. TypeOK'
  <2>1. CASE OpenProvider(s)
    BY <2>1 DEF OpenProvider, TypeOK, tree, usage, clock, fence
  <2>2. CASE WriteResult(s)
    BY <2>2 DEF WriteResult, TypeOK, tree, usage, clock, fence
  <2>3. CASE Consume(s)
    BY <2>3 DEF Consume, TypeOK, tree, usage, clock, fence
  <2>4. CASE Succeed(s)
    BY <2>4 DEF Succeed, TypeOK, tree, usage, clock, fence
  <2>5. CASE Crash(s)
    BY <2>5 DEF Crash, TypeOK, tree, usage, clock, fence
  <2>6. CASE MemoryCheckDue(s)
    BY <2>6 DEF MemoryCheckDue, TypeOK, tree, usage, clock, fence
  <2>7. CASE DeadlinePasses(s)
    BY <2>7 DEF DeadlinePasses, TypeOK, tree, usage, clock, fence
  <2> QED
    BY <2>1, <2>2, <2>3, <2>4, <2>5, <2>6, <2>7 DEF Process, Clock
<1>3. SampleInv(s)'
  <2>1. CASE OpenProvider(s)
    BY <2>1 DEF OpenProvider, TypeOK, SampleInv, tree, usage, clock,
      fence, Running, Active
  <2>2. CASE WriteResult(s)
    BY <2>2 DEF WriteResult, TypeOK, SampleInv, tree, usage, clock,
      fence, Running, Active
  <2>3. CASE Consume(s)
    BY <2>3 DEF Consume, TypeOK, SampleInv, tree, usage, clock,
      fence, Running, Active
  <2>4. CASE Succeed(s)
    BY <2>4 DEF Succeed, TypeOK, SampleInv, tree, usage, clock,
      fence, Running, Active
  <2>5. CASE Crash(s)
    BY <2>5 DEF Crash, TypeOK, SampleInv, tree, usage, clock,
      fence, Running, Active
  <2>6. CASE MemoryCheckDue(s)
    BY <2>6 DEF MemoryCheckDue, TypeOK, SampleInv, tree, usage, clock,
      fence, Running, Active
  <2>7. CASE DeadlinePasses(s)
    BY <2>7 DEF DeadlinePasses, TypeOK, SampleInv, tree, usage, clock,
      fence, Running, Active
  <2> QED
    BY <2>1, <2>2, <2>3, <2>4, <2>5, <2>6, <2>7 DEF Process, Clock
<1> QED
  BY <1>1, <1>2, <1>3 DEF Owned, fence

-----------------------------------------------------------------------------
(* The steps of one sample leave the others alone. *)

LEMMA OthersKept ==
    ASSUME TypeOK, NEW s \in Samples, StepOf(s),
           NEW t \in Samples \ {s}, SampleInv(t)
    PROVE  SampleInv(t)' /\ pc'[t] = pc[t]
<1>1. UNCHANGED <<pc[t], worker[t], radare[t], result[t], entry[t], mine[t], heavy[t]>>
  <2>1. CASE Process(s) \/ Clock(s)
    BY <2>1 DEF TypeOK, Process, Clock, OpenProvider, WriteResult, Consume,
       Succeed, Crash, MemoryCheckDue, DeadlinePasses, tree, usage, clock,
       fence
  <2>2. CASE Supervise(s)
    <3>1. ASSUME NEW e, NEW killed, Return(s, e, killed)
          PROVE  UNCHANGED <<pc[t], worker[t], radare[t], result[t],
                             entry[t], mine[t], heavy[t]>>
      BY <3>1 DEF Return, Goto, TypeOK
    <3>2. CASE Start(s)
      BY <3>1, <3>2 DEF Start, Goto, TypeOK, usage, fence
    <3>3. CASE AddRule(s)
      BY <3>1, <3>3 DEF AddRule, Goto, TypeOK, tree, usage, fence
    <3>4. CASE CheckMemory(s)
      BY <3>1, <3>4 DEF CheckMemory, Goto, TypeOK, tree, usage, fence
    <3>5. CASE Attach(s) \/ TryWait(s)
      BY <3>1, <3>5 DEF Attach, TryWait, Goto, TypeOK, tree, usage, fence
    <3>6. CASE CheckLogs(s) \/ CheckDeadline(s) \/ Sleep(s) \/ ReadResult(s)
      BY <3>1, <3>6
      DEF CheckLogs, CheckDeadline, Sleep, ReadResult, Goto, TypeOK, tree,
          usage, fence
    <3> QED
      BY <2>2, <3>2, <3>3, <3>4, <3>5, <3>6 DEF Supervise
  <2> QED
    BY <2>1, <2>2 DEF StepOf
<1> QED
  BY <1>1 DEF SampleInv

\* A sample that is done stays done.
LEMMA DoneStays ==
    ASSUME TypeOK, NEW s \in Samples, StepOf(s), SampleInv(s), Owned
    PROVE  /\ pc[s] = "done" => pc'[s] = "done"
           /\ report' = report
           /\ ~Start(s) /\ Active(s)' => Active(s)
<1>1. CASE Process(s) \/ Clock(s)
  BY <1>1, TreeStep DEF Active
<1>2. CASE Supervise(s)
  <2>1. ASSUME NEW e, NEW killed, Return(s, e, killed)
        PROVE  pc'[s] = "done" /\ report' = report
    BY <2>1 DEF Return, Goto, TypeOK
  <2>2. CASE Start(s)
    BY <2>1, <2>2 DEF Start
  <2>3. CASE Attach(s) \/ AddRule(s) \/ TryWait(s)
    BY <2>1, <2>3 DEF Attach, AddRule, TryWait, Active
  <2>4. CASE CheckLogs(s) \/ CheckMemory(s) \/ CheckDeadline(s)
    BY <2>1, <2>4 DEF CheckLogs, CheckMemory, CheckDeadline, Active
  <2>5. CASE Sleep(s) \/ ReadResult(s)
    BY <2>1, <2>5 DEF Sleep, ReadResult, Active
  <2> QED
    BY <1>2, <2>2, <2>3, <2>4, <2>5 DEF Supervise
<1> QED
  BY <1>1, <1>2 DEF StepOf

\* No more than Threads samples are being supervised.
LEMMA PoolStep ==
    ASSUME Supervised, NEW s \in Samples, StepOf(s)
    PROVE  Cardinality(ActiveSet)' <= Threads
<1> USE SamplesAssumption, ThreadsAssumption
<1>1. /\ IsFiniteSet(ActiveSet) /\ Cardinality(ActiveSet) \in Nat
      /\ IsFiniteSet(ActiveSet)' /\ Cardinality(ActiveSet)' \in Nat
  BY FS_Subset, FS_CardinalityType DEF ActiveSet
<1>2. \A t \in Samples \ {s} : Active(t)' <=> Active(t)
  BY OthersKept DEF Supervised, Active
<1>3. CASE Start(s)
  <2>1. ActiveSet' \subseteq ActiveSet \cup {s}
    BY <1>2 DEF ActiveSet
  <2>2. Cardinality(ActiveSet \cup {s}) <= Cardinality(ActiveSet) + 1
    <3>1. \/ Cardinality(ActiveSet \cup {s}) = Cardinality(ActiveSet)
          \/ Cardinality(ActiveSet \cup {s}) = Cardinality(ActiveSet) + 1
      BY <1>1, FS_AddElement, Zenon
    <3> QED
      BY <1>1, <3>1
  <2>3. IsFiniteSet(ActiveSet \cup {s})
    BY <1>1, FS_AddElement
  <2>4. Cardinality(ActiveSet)' <= Cardinality(ActiveSet \cup {s})
    BY <2>1, <2>3, FS_Subset
  <2>5. Cardinality(ActiveSet) < Threads
    BY <1>3 DEF Start, ActiveSet
  <2>6. Cardinality(ActiveSet \cup {s}) \in Nat
    BY <2>3, FS_CardinalityType
  <2> QED
    BY <1>1, <2>2, <2>4, <2>5, <2>6
<1>4. CASE ~Start(s)
  <2>1. ActiveSet' \subseteq ActiveSet
    BY <1>2, <1>4, DoneStays DEF ActiveSet, Supervised
  <2>2. Cardinality(ActiveSet)' <= Cardinality(ActiveSet)
    BY <1>1, <2>1, FS_Subset
  <2> QED
    BY <1>1, <2>2 DEF Supervised
<1> QED
  BY <1>3, <1>4

-----------------------------------------------------------------------------

LEMMA InitSupervised == Init => Supervised
<1> SUFFICES ASSUME Init PROVE Supervised
  OBVIOUS
<1>1. TypeOK
  BY DEF Init, TypeOK, Polling
<1>2. \A s \in Samples : SampleInv(s)
  BY DEF Init, SampleInv
<1>3. Owned /\ Reported
  BY DEF Init, Owned, Reported
<1>4. Cardinality(ActiveSet) <= Threads
  <2>1. ActiveSet = {}
    BY DEF ActiveSet, Active, Init
  <2> QED
    BY <2>1, FS_EmptySet, ThreadsAssumption
<1> QED
  BY <1>1, <1>2, <1>3, <1>4 DEF Supervised

LEMMA SupervisedStep == Supervised /\ [Next]_vars => Supervised'
<1> SUFFICES ASSUME Supervised, [Next]_vars PROVE Supervised'
  OBVIOUS
<1>1. ASSUME NEW s \in Samples, StepOf(s)
      PROVE  Supervised'
  <2>1. TypeOK' /\ SampleInv(s)' /\ Owned'
    BY <1>1, SuperviseStep, TreeStep DEF Supervised, StepOf
  <2>2. \A t \in Samples \ {s} : SampleInv(t)' /\ pc'[t] = pc[t]
    BY <1>1, OthersKept DEF Supervised
  <2>3. Reported'
    BY <1>1, <2>2, DoneStays DEF Supervised, Reported
  <2>4. Cardinality(ActiveSet)' <= Threads
    BY <1>1, PoolStep
  <2> QED
    BY <2>1, <2>2, <2>3, <2>4 DEF Supervised
<1>2. CASE BatchCompleted
  BY <1>2 DEF BatchCompleted, Supervised, TypeOK, SampleInv, Owned, Reported,
     ActiveSet, Active, tree, usage, clock, fence
<1>3. CASE UNCHANGED vars
  BY <1>3 DEF vars, Supervised, TypeOK, SampleInv, Owned, Reported, ActiveSet,
     Active
<1> QED
  BY <1>1, <1>2, <1>3 DEF Next, StepOf

LEMMA AlwaysSupervised == Spec => []Supervised
BY InitSupervised, SupervisedStep, PTL DEF Spec

-----------------------------------------------------------------------------

\* The variables have their types.
THEOREM TypeCorrect == Spec => []TypeOK
<1>1. Supervised => TypeOK
  BY DEF Supervised
<1> QED
  BY <1>1, AlwaysSupervised, PTL

\* A sample is reported as analyzed only if its worker ran to its end
\* (run_isolated), on every platform and whatever fails.
THEOREM AnalyzedOnlyFinished == Spec => []AnalyzedMeansFinished
<1>1. Supervised => AnalyzedMeansFinished
  BY DEF Supervised, SampleInv, AnalyzedMeansFinished
<1> QED
  BY <1>1, AlwaysSupervised, PTL

\* On Unix a worker killed at a limit takes its radare2 with it
\* (kill_process_tree).
THEOREM LimitsKillTrees ==
    ASSUME Platform # "windows"
    PROVE  Spec => []LimitKillsTree
<1>1. Supervised => LimitKillsTree
  BY DEF Supervised, SampleInv, LimitKillsTree
<1> QED
  BY <1>1, AlwaysSupervised, PTL

\* On Windows the Job Object bounds the workers of a batch by its threads,
\* whatever fails (Sandbox, batch).
THEOREM PoolIsBounded ==
    ASSUME Platform = "windows"
    PROVE  Spec => []PoolBounded
<1>1. Supervised => PoolBounded
  <2> SUFFICES ASSUME Supervised PROVE PoolBounded
    OBVIOUS
  <2>1. {s \in Samples : Running(s)} \subseteq ActiveSet
    BY DEF Supervised, SampleInv, ActiveSet, Active, Running
  <2>2. IsFiniteSet(ActiveSet)
    BY SamplesAssumption, FS_Subset DEF ActiveSet
  <2>3. /\ IsFiniteSet({s \in Samples : Running(s)})
        /\ Cardinality({s \in Samples : Running(s)})
              <= Cardinality(ActiveSet)
    BY <2>1, <2>2, FS_Subset
  <2>4. /\ Cardinality(ActiveSet) \in Nat
        /\ Cardinality({s \in Samples : Running(s)}) \in Nat
    BY <2>2, <2>3, FS_CardinalityType
  <2> QED
    BY <2>3, <2>4, ThreadsAssumption DEF Supervised, PoolBounded
<1> QED
  BY <1>1, AlwaysSupervised, PTL

\* On Windows no worker runs past its deadline with nobody to kill it
\* (wait_worker, Job::drop).
THEOREM DeadlineIsEnforced ==
    ASSUME Platform = "windows"
    PROVE  Spec => []DeadlineEnforced
<1>1. Supervised => DeadlineEnforced
  BY DEF Supervised, SampleInv, DeadlineEnforced, Running
<1> QED
  BY <1>1, AlwaysSupervised, PTL

\* A batch that has reported leaves no firewall rule (Firewall::drop).
THEOREM NoRuleLeft == Spec => []RulesRemoved
<1>1. Supervised => RulesRemoved
  BY DEF Supervised, TypeOK, SampleInv, Owned, Reported, RulesRemoved
<1> QED
  BY <1>1, AlwaysSupervised, PTL

\* A memory check that is due lets no tree past the limit go on, unless its ps
\* fails (wait_worker).  Not on Linux, where it sums up another group.
THEOREM MemoryIsLimited ==
    ASSUME Platform # "linux"
    PROVE  Spec => MemoryLimited
<1>1. ASSUME Supervised, [Next]_vars, NEW s \in Samples,
             pc[s] = "memory", due[s], heavy[s], faults' = faults
      PROVE  pc'[s] # "deadline"
  <2>1. Platform = "macos" /\ faults \in Nat
    BY <1>1, PlatformAssumption DEF Supervised, SampleInv, TypeOK
  <2>2. CASE UNCHANGED pc
    BY <1>1, <2>2
  <2>3. ~Fault
    BY <1>1, <2>1 DEF Fault
  <2>4. ASSUME NEW t \in Samples, Supervise(t) PROVE pc'[s] # "deadline"
    <3>1. CASE t = s
      <4>1. CheckMemory(s)
        BY <1>1, <2>4, <3>1 DEF Supervise, Start, Attach, AddRule, TryWait,
           CheckLogs, CheckDeadline, Sleep, ReadResult
      <4>2. Return(s, "limit", Tree)
        BY <1>1, <2>1, <2>3, <4>1 DEF CheckMemory, RssOver
      <4>3. QED
        BY <1>1, <4>2 DEF Return, Goto, Supervised, TypeOK
    <3>2. CASE t # s
      <4>1. \A l : Goto(t, l) => pc'[s] = pc[s]
        BY <1>1, <3>2 DEF Goto, Supervised, TypeOK
      <4>2. pc'[s] = pc[s]
        BY <2>4, <2>3, <4>1 DEF Supervise, Start, Attach, AddRule, TryWait, CheckLogs,
           CheckMemory, CheckDeadline, Sleep, ReadResult, Return
      <4>3. QED
        BY <1>1, <4>2
    <3>3. QED
      BY <3>1, <3>2
  <2>5. ASSUME NEW t \in Samples, Process(t) \/ Clock(t) PROVE UNCHANGED pc
    BY <2>5 DEF Process, OpenProvider, WriteResult, Consume, Succeed, Crash, Clock,
       MemoryCheckDue, DeadlinePasses
  <2>6. QED
    BY <1>1, <2>2, <2>4, <2>5 DEF Next, BatchCompleted, vars
<1>2. Supervised /\ [Next]_vars =>
        [\A s \in Samples : pc[s] = "memory" /\ due[s] /\ heavy[s] /\ faults' = faults =>
            pc'[s] # "deadline"]_vars
  BY <1>1
<1>3. QED
  BY <1>2, AlwaysSupervised, PTL DEF Spec, MemoryLimited

=============================================================================
