------------------------------- MODULE BuildProofs -------------------------------
(***************************************************************************)
(* The build command, for every manifest, file tree and number of jobs.    *)
(* First the walk over the imports, which computes the least closed set;   *)
(* then the pool of workers, whose invariant carries its safety properties *)
(* and that it implements DagBuild; then both together: no module is       *)
(* compiled before all it needs transitively.  At the end the UI server,   *)
(* which builds again what was edited: what it serves, for any inputs and  *)
(* any number of edits.                                                    *)
(***************************************************************************)
EXTENDS LeanBuild, UiWatcher, FiniteSetTheorems, TLAPS

\* What the finished walks have: their result is closed.
FinishedClosed == \A m \in Modules \ left : Closed(m, seen[m])

\* The walk under way: what is seen may still lead into the work list.
WorkCloses ==
  current # NoModule =>
    /\ current \in left
    /\ imports[current] \subseteq seen[current] \cup work
    /\ \A x \in seen[current] : Readable(x) => imports[x] \subseteq seen[current] \cup work

\* Nothing is seen or waits that a closed set could do without.
Least ==
  \A m \in Modules : \A Z \in SUBSET Names :
    Closed(m, Z) => /\ seen[m] \subseteq Z
                    /\ current = m => work \subseteq Z

ScanInv ==
  /\ ScanTypeOK
  /\ \A m \in Modules : found[m] = seen[m] \cap Modules
  /\ \A m \in left : m # current => seen[m] = {}
  /\ current = NoModule => work = {}
  /\ scan = "done" => left = {}
  /\ scan # "going" => current = NoModule
  /\ FinishedClosed
  /\ WorkCloses
  /\ Least

\* A step of a walk at the import x.
LEMMA ImportStep ==
  ASSUME ScanInv, NEW x \in work, RecordDependency(x) \/ FollowImport(x) \/ SkipVisited(x)
  PROVE  ScanInv'
<1>1. current \in Modules /\ current \in left /\ scan = "going"
  BY NamesAssumption DEF ScanInv, ScanTypeOK, WorkCloses
<1> USE <1>1 DEF ScanInv, ScanTypeOK
<1>2. CASE SkipVisited(x)
  <2>1. /\ x \in seen[current] /\ work' = work \ {x}
        /\ UNCHANGED <<treeVars, left, current, seen, found, scan>>
    BY <1>2 DEF SkipVisited, NotVisited
  <2>2. FinishedClosed' /\ Least'
    BY <2>1 DEF FinishedClosed, Least, Closed, Readable, treeVars
  <2>3. WorkCloses'
    BY <2>1 DEF WorkCloses, Readable, treeVars
  <2>4. QED
    BY <2>1, <2>2, <2>3 DEF treeVars
<1>3. CASE RecordDependency(x) \/ FollowImport(x)
  <2>1. /\ UNCHANGED <<imports, present, sourceRoot, left, current, scan>>
        /\ seen' = [seen EXCEPT ![current] = seen[current] \cup {x}]
        /\ work' = (work \ {x}) \cup (IF Readable(x) THEN imports[x] ELSE {})
        /\ found' = [found EXCEPT ![current] = found[current] \cup ({x} \cap Modules)]
    <3>1. CASE RecordDependency(x)
      <4>1. x \in Modules /\ {x} \cap Modules = {x} /\ x \notin Others
        BY <3>1, NamesAssumption DEF RecordDependency
      <4>2. ~Readable(x)
        BY <4>1 DEF Readable
      <4>3. QED
        BY <3>1, <4>1, <4>2 DEF RecordDependency, Visit, treeVars
    <3>2. CASE FollowImport(x)
      <4>1. x \in Others /\ {x} \cap Modules = {}
        BY <3>2, NamesAssumption DEF FollowImport
      <4>2. found' = [found EXCEPT ![current] = found[current] \cup ({x} \cap Modules)]
        BY <3>2, <4>1 DEF FollowImport
      <4>3. Followed(x) <=> Readable(x)
        BY <4>1 DEF Followed, Readable
      <4>4. QED
        BY <3>2, <4>2, <4>3 DEF FollowImport, Visit, treeVars
    <3>3. QED
      BY <1>3, <3>1, <3>2
  <2>2. seen'[current] = seen[current] \cup {x}
        /\ \A m \in Modules \ {current} : seen'[m] = seen[m]
    BY <2>1
  <2>3. imports[x] \subseteq Names /\ x \in Names
    BY DEF Names
  <2>4. ScanTypeOK'
    BY <2>1, <2>3
  <2>5. \A m \in Modules : found'[m] = seen'[m] \cap Modules
    BY <2>1
  <2>6. FinishedClosed'
    BY <2>1, <2>2 DEF FinishedClosed, Closed, Readable
  <2>7. WorkCloses'
    <3>1. imports[current] \subseteq seen'[current] \cup work'
      BY <2>1, <2>2 DEF WorkCloses
    <3>2. ASSUME NEW y \in seen'[current], Readable(y)
          PROVE  imports[y] \subseteq seen'[current] \cup work'
      BY <2>1, <2>2, <3>2 DEF WorkCloses
    <3>3. QED
      BY <2>1, <3>1, <3>2 DEF WorkCloses, Readable
  <2>8. Least'
    <3> SUFFICES ASSUME NEW m \in Modules, NEW Z \in SUBSET Names, Closed(m, Z)'
                 PROVE  seen'[m] \subseteq Z /\ (current = m => work' \subseteq Z)
      BY <2>1 DEF Least
    <3>1. Closed(m, Z)
      BY <2>1 DEF Closed, Readable
    <3>2. seen[m] \subseteq Z /\ (current = m => work \subseteq Z)
      BY <3>1 DEF Least
    <3>3. current = m => (Readable(x) => imports[x] \subseteq Z)
      BY <3>1, <3>2 DEF Closed
    <3>4. QED
      BY <2>1, <2>2, <3>2, <3>3
  <2>9. QED
    BY <2>1, <2>2, <2>4, <2>5, <2>6, <2>7, <2>8
<1>4. QED
  BY <1>2, <1>3

\* The walks' invariant holds initially.
LEMMA InitScanInv == ScanInit => ScanInv
BY TreesAssumption DEF ScanInit, ScanInv, ScanTypeOK, FinishedClosed, WorkCloses, Least

\* Every step keeps it.
LEMMA NextScanInv == ScanInv /\ [ScanNext]_scanVars => ScanInv'
<1> SUFFICES ASSUME ScanInv, [ScanNext]_scanVars PROVE ScanInv'
  OBVIOUS
<1>1. ASSUME NEW m \in Modules, BeginScan(m) PROVE ScanInv'
  BY <1>1, NamesAssumption DEF BeginScan, ScanInv, ScanTypeOK, FinishedClosed, WorkCloses, Least,
     Closed, Readable, Names, treeVars
<1>2. ASSUME NEW m \in Modules, SourceMissing(m) PROVE ScanInv'
  BY <1>2 DEF SourceMissing, ScanInv, ScanTypeOK, FinishedClosed, WorkCloses, Least,
     Closed, Readable, treeVars
<1>3. ASSUME NEW x \in work, SkipVisited(x) \/ RecordDependency(x) \/ FollowImport(x)
      PROVE ScanInv'
  BY <1>3, ImportStep
<1>4. CASE EndScan
  BY <1>4, NamesAssumption DEF EndScan, ScanInv, ScanTypeOK, FinishedClosed, WorkCloses, Least,
     Closed, Readable, Names, treeVars
<1>5. CASE ScanDone
  BY <1>5 DEF ScanDone, ScanInv, ScanTypeOK, FinishedClosed, WorkCloses, Least,
     Closed, Readable, treeVars
<1>6. CASE UNCHANGED scanVars
  BY <1>6 DEF ScanInv, ScanTypeOK, FinishedClosed, WorkCloses, Least, Closed, Readable,
     scanVars, treeVars
<1>7. QED
  BY <1>1, <1>2, <1>3, <1>4, <1>5, <1>6 DEF ScanNext

\* The walks keep their invariant.
THEOREM ScanInductive == ScanSpec => []ScanInv
BY InitScanInv, NextScanInv, PTL DEF ScanSpec

\* The dependencies of a module are the manifest modules it reaches without
\* passing another one: none is missed, none is invented.
THEOREM ExactTheorem == ScanSpec => []DependenciesExact
<1>1. ScanInv => DependenciesExact
  BY DEF ScanInv, ScanTypeOK, FinishedClosed, Least, DependenciesExact
<1>2. QED
  BY <1>1, ScanInductive, PTL

-----------------------------------------------------------------------------

\* Every step keeps the type of every variable.
LEMMA TypeStep == TypeOK /\ [Next]_vars => TypeOK'
<1> USE DEF WorkerStates, WorkerActive, WorkerFinished, ProcStates
<1>1. SUFFICES ASSUME TypeOK, [Next]_vars PROVE TypeOK'
  OBVIOUS
<1>2. QED
  <2> USE <1>1
  <2> USE DEF TypeOK
  <2>1. ASSUME NEW m \in Modules, Submit(m) PROVE TypeOK'
    BY <2>1 DEF Submit, Ready
  <2>2. CASE ReportCycle
    BY <2>2 DEF ReportCycle
  <2>3. CASE FinishLoop
    BY <2>3 DEF FinishLoop
  <2>4. CASE BeginWait
    BY <2>4 DEF BeginWait
  <2>5. CASE WaitReturns
    BY <2>5 DEF WaitReturns
  <2>6. ASSUME NEW m \in Modules, RecordResult(m) PROVE TypeOK'
    BY <2>6 DEF RecordResult
  <2>7. ASSUME NEW m \in Modules, PrintFails(m) PROVE TypeOK'
    BY <2>7 DEF PrintFails
  <2>8. ASSUME NEW m \in Modules, CollectFailure(m) PROVE TypeOK'
    BY <2>8 DEF CollectFailure, FailureStops
  <2>9. CASE CancelOthers
    BY <2>9 DEF CancelOthers
  <2>10. CASE NextRound
    BY <2>10 DEF NextRound
  <2>11. CASE Exit
    BY <2>11 DEF Exit
  <2>12. ASSUME NEW m \in Modules, Worker(m) PROVE TypeOK'
    BY <2>12 DEF Worker, Take, Spawn, SpawnFails, CheckStop, PollAgain, PollEnds, WriteLog,
                 WriteLogFails, Reap, Step, Outcome, mainVars
  <2>13. ASSUME NEW m \in Modules, Process(m) PROVE TypeOK'
    BY <2>13 DEF Process, ProcSucceeds, ProcFails, ProcKilled, ProcEnds, mainVars
  <2>14. CASE UNCHANGED vars
    BY <2>14 DEF vars
  <2>15. QED
    BY <2>1, <2>2, <2>3, <2>4, <2>5, <2>6, <2>7, <2>8, <2>9, <2>10, <2>11, <2>12, <2>13,
       <2>14 DEF Next, MainThread

\* Every variable keeps its type, whatever the manifest and the number of jobs.
THEOREM TypeCorrect == Spec => []TypeOK
<1>1. Init => TypeOK
  BY DependencyMapsAssumption DEF Init, TypeOK, WorkerStates, ProcStates
<1>2. QED
  BY <1>1, TypeStep, PTL DEF Spec

-------------------------------------------------------------------------------
(* The inductive invariant.  Bookkeeping relates the main thread's sets to *)
(* the state of each future, ProcessBookkeeping a worker to its process,   *)
(* MainBookkeeping the main thread's place to the exception it carries.    *)

Bookkeeping ==
  /\ \A m \in Modules : m \in pending <=> worker[m] = "none"
  /\ \A m \in completed : worker[m] = "returned" /\ m \notin running
  /\ \A m \in running : m \notin pending
  /\ \A m \in Modules : Active(m) => m \in running
  /\ error \in {"none", "cycle"} => Modules = pending \cup running \cup completed

ProcessBookkeeping ==
  \A m \in Modules :
    /\ worker[m] \in {"none", "queued", "spawning", "cancelled"} => proc[m] = "none"
    /\ worker[m] = "exited" => proc[m] \in {"ok", "bad"}
    /\ worker[m] = "returned" => proc[m] = "ok" /\ m \in logs
    /\ worker[m] = "raised" => proc[m] # "alive"
    /\ proc[m] = "ok" <=> m \in olean

OrderKept == \A m \in Modules : worker[m] # "none" => dependencies[m] \subseteq completed

MainBookkeeping ==
  /\ pc \in {"schedule", "wait", "collect"} => error = "none"
  /\ pc = "cancel" => error = "compile"
  /\ error = "none" /\ pc \in {"shutdown", "exited"} => pending = {} /\ running = {}
  /\ error = "cycle" => Blocked /\ ~stop
  /\ stop => error = "compile"
  /\ pc = "exited" => \A m \in Modules : ~Active(m)

WithinJobs == Cardinality(running) <= Jobs

IInv ==
  /\ TypeOK
  /\ Bookkeeping
  /\ ProcessBookkeeping
  /\ WithinJobs
  /\ OrderKept
  /\ MainBookkeeping

\* A module alive is in the hands of a thread.
LEMMA AliveIsActive ==
  ASSUME TypeOK, ProcessBookkeeping, NEW m \in Modules, Alive(m)
  PROVE  Active(m)
BY DEF TypeOK, ProcessBookkeeping, Alive, Active, WorkerStates, WorkerActive, WorkerFinished

\* Each process stays in step with its worker.
LEMMA ProcessBookkeepingStep == IInv /\ [Next]_vars => ProcessBookkeeping'
<1> USE DEF IInv, TypeOK, ProcessBookkeeping, Bookkeeping, WorkerStates, WorkerActive,
            WorkerFinished, ProcStates
<1>1. SUFFICES ASSUME IInv, [Next]_vars PROVE ProcessBookkeeping'
  OBVIOUS
<1>2. QED
  <2> USE <1>1
  <2>1. ASSUME NEW m \in Modules, Submit(m) PROVE ProcessBookkeeping'
    BY <2>1 DEF Submit, Ready
  <2>2. CASE ReportCycle
    BY <2>2 DEF ReportCycle
  <2>3. CASE FinishLoop
    BY <2>3 DEF FinishLoop
  <2>4. CASE BeginWait
    BY <2>4 DEF BeginWait
  <2>5. CASE WaitReturns
    BY <2>5 DEF WaitReturns
  <2>6. ASSUME NEW m \in Modules, RecordResult(m) PROVE ProcessBookkeeping'
    BY <2>6 DEF RecordResult
  <2>7. ASSUME NEW m \in Modules, PrintFails(m) PROVE ProcessBookkeeping'
    BY <2>7 DEF PrintFails
  <2>8. ASSUME NEW m \in Modules, CollectFailure(m) PROVE ProcessBookkeeping'
    BY <2>8 DEF CollectFailure, FailureStops
  <2>9. CASE CancelOthers
    BY <2>9 DEF CancelOthers
  <2>10. CASE NextRound
    BY <2>10 DEF NextRound
  <2>11. CASE Exit
    BY <2>11 DEF Exit
  <2>12. ASSUME NEW m \in Modules, Worker(m) PROVE ProcessBookkeeping'
    BY <2>12 DEF Worker, Take, Spawn, SpawnFails, CheckStop, PollAgain, PollEnds, WriteLog,
                 WriteLogFails, Reap, Step, Outcome, Reaped, PollExpires, mainVars
  <2>13. ASSUME NEW m \in Modules, Process(m) PROVE ProcessBookkeeping'
    BY <2>13 DEF Process, ProcSucceeds, ProcFails, ProcKilled, ProcEnds, mainVars
  <2>14. CASE UNCHANGED vars
    BY <2>14 DEF vars
  <2>15. QED
    BY <2>1, <2>2, <2>3, <2>4, <2>5, <2>6, <2>7, <2>8, <2>9, <2>10, <2>11, <2>12, <2>13,
       <2>14 DEF Next, MainThread

\* A module that was submitted keeps its compiled dependencies.
LEMMA OrderKeptStep == IInv /\ [Next]_vars => OrderKept'
<1> USE DEF IInv, TypeOK, OrderKept, WorkerStates, WorkerActive, WorkerFinished,
            ProcStates
<1>1. SUFFICES ASSUME IInv, [Next]_vars PROVE OrderKept'
  OBVIOUS
<1>2. QED
  <2> USE <1>1
  <2>1. ASSUME NEW m \in Modules, Submit(m) PROVE OrderKept'
    BY <2>1 DEF Submit, Ready
  <2>2. CASE ReportCycle
    BY <2>2 DEF ReportCycle
  <2>3. CASE FinishLoop
    BY <2>3 DEF FinishLoop
  <2>4. CASE BeginWait
    BY <2>4 DEF BeginWait
  <2>5. CASE WaitReturns
    BY <2>5 DEF WaitReturns
  <2>6. ASSUME NEW m \in Modules, RecordResult(m) PROVE OrderKept'
    BY <2>6 DEF RecordResult
  <2>7. ASSUME NEW m \in Modules, PrintFails(m) PROVE OrderKept'
    BY <2>7 DEF PrintFails
  <2>8. ASSUME NEW m \in Modules, CollectFailure(m) PROVE OrderKept'
    BY <2>8 DEF CollectFailure, FailureStops
  <2>9. CASE CancelOthers
    BY <2>9 DEF CancelOthers
  <2>10. CASE NextRound
    BY <2>10 DEF NextRound
  <2>11. CASE Exit
    BY <2>11 DEF Exit
  <2>12. ASSUME NEW m \in Modules, Worker(m) PROVE OrderKept'
    BY <2>12 DEF Worker, Take, Spawn, SpawnFails, CheckStop, PollAgain, PollEnds, WriteLog,
                 WriteLogFails, Reap, Step, Outcome, Reaped, PollExpires, mainVars
  <2>13. ASSUME NEW m \in Modules, Process(m) PROVE OrderKept'
    BY <2>13 DEF Process, ProcSucceeds, ProcFails, ProcKilled, ProcEnds, mainVars
  <2>14. CASE UNCHANGED vars
    BY <2>14 DEF vars
  <2>15. QED
    BY <2>1, <2>2, <2>3, <2>4, <2>5, <2>6, <2>7, <2>8, <2>9, <2>10, <2>11, <2>12, <2>13,
       <2>14 DEF Next, MainThread

\* The main thread's place and its exception agree.
LEMMA MainBookkeepingStep == IInv /\ [Next]_vars => MainBookkeeping'
<1> USE DEF IInv, TypeOK, MainBookkeeping, Bookkeeping, Active, Blocked, Ready,
            WorkerStates, WorkerActive, WorkerFinished, ProcStates
<1>1. SUFFICES ASSUME IInv, [Next]_vars PROVE MainBookkeeping'
  OBVIOUS
<1>2. QED
  <2> USE <1>1
  <2>1. ASSUME NEW m \in Modules, Submit(m) PROVE MainBookkeeping'
    BY <2>1 DEF Submit
  <2>2. CASE ReportCycle
    BY <2>2 DEF ReportCycle
  <2>3. CASE FinishLoop
    BY <2>3 DEF FinishLoop, LoopEnds
  <2>4. CASE BeginWait
    BY <2>4 DEF BeginWait
  <2>5. CASE WaitReturns
    BY <2>5 DEF WaitReturns
  <2>6. ASSUME NEW m \in Modules, RecordResult(m) PROVE MainBookkeeping'
    BY <2>6 DEF RecordResult
  <2>7. ASSUME NEW m \in Modules, PrintFails(m) PROVE MainBookkeeping'
    BY <2>7 DEF PrintFails
  <2>8. ASSUME NEW m \in Modules, CollectFailure(m) PROVE MainBookkeeping'
    BY <2>8 DEF CollectFailure, FailureStops
  <2>9. CASE CancelOthers
    BY <2>9 DEF CancelOthers
  <2>10. CASE NextRound
    BY <2>10 DEF NextRound
  <2>11. CASE Exit
    BY <2>11 DEF Exit, WorkersJoined
  <2>12. ASSUME NEW m \in Modules, Worker(m) PROVE MainBookkeeping'
    BY <2>12 DEF Worker, Take, Spawn, SpawnFails, CheckStop, PollAgain, PollEnds, WriteLog,
                 WriteLogFails, Reap, Step, Outcome, Reaped, PollExpires, mainVars
  <2>13. ASSUME NEW m \in Modules, Process(m) PROVE MainBookkeeping'
    BY <2>13 DEF Process, ProcSucceeds, ProcFails, ProcKilled, ProcEnds, mainVars
  <2>14. CASE UNCHANGED vars
    BY <2>14 DEF vars
  <2>15. QED
    BY <2>1, <2>2, <2>3, <2>4, <2>5, <2>6, <2>7, <2>8, <2>9, <2>10, <2>11, <2>12, <2>13,
       <2>14 DEF Next, MainThread

\* The sets of the main thread and the states of the futures agree.
LEMMA BookkeepingStep == IInv /\ [Next]_vars => Bookkeeping'
<1> USE DEF IInv, TypeOK, Bookkeeping, MainBookkeeping, Active, WorkerStates, WorkerActive,
            WorkerFinished
<1>1. SUFFICES ASSUME IInv, [Next]_vars PROVE Bookkeeping'
  OBVIOUS
<1>2. QED
  <2> USE <1>1
  <2>1. ASSUME NEW m \in Modules, Submit(m) PROVE Bookkeeping'
    BY <2>1 DEF Submit, Ready
  <2>2. CASE ReportCycle
    BY <2>2 DEF ReportCycle, Blocked
  <2>3. CASE FinishLoop
    BY <2>3 DEF FinishLoop
  <2>4. CASE BeginWait
    BY <2>4 DEF BeginWait
  <2>5. CASE WaitReturns
    BY <2>5 DEF WaitReturns
  <2>6. ASSUME NEW m \in Modules, RecordResult(m) PROVE Bookkeeping'
    BY <2>6 DEF RecordResult
  <2>7. ASSUME NEW m \in Modules, PrintFails(m) PROVE Bookkeeping'
    BY <2>7 DEF PrintFails
  <2>8. ASSUME NEW m \in Modules, CollectFailure(m) PROVE Bookkeeping'
    BY <2>8 DEF CollectFailure, FailureStops
  <2>9. CASE CancelOthers
    BY <2>9 DEF CancelOthers
  <2>10. CASE NextRound
    BY <2>10 DEF NextRound
  <2>11. CASE Exit
    BY <2>11 DEF Exit
  <2>12. ASSUME NEW m \in Modules, Worker(m) PROVE Bookkeeping'
    BY <2>12 DEF Worker, Take, Spawn, SpawnFails, CheckStop, PollAgain, PollEnds, WriteLog,
                 WriteLogFails, Reap, Step, Outcome, mainVars
  <2>13. ASSUME NEW m \in Modules, Process(m) PROVE Bookkeeping'
    BY <2>13 DEF Process, ProcSucceeds, ProcFails, ProcKilled, ProcEnds, mainVars
  <2>14. CASE UNCHANGED vars
    BY <2>14 DEF vars
  <2>15. QED
    BY <2>1, <2>2, <2>3, <2>4, <2>5, <2>6, <2>7, <2>8, <2>9, <2>10, <2>11, <2>12, <2>13,
       <2>14 DEF Next, MainThread

\* No step takes more futures than there are jobs.
LEMMA WithinJobsStep == IInv /\ [Next]_vars => WithinJobs'
<1>1. SUFFICES ASSUME IInv, [Next]_vars PROVE WithinJobs'
  OBVIOUS
<1>2. IsFiniteSet(running) /\ Cardinality(running) \in Nat
  BY <1>1, FS_Subset, FS_CardinalityType, ModulesAssumption DEF IInv, TypeOK
<1>3. CASE running' \subseteq running
  <2>1. Cardinality(running') \in Nat /\ Cardinality(running') <= Cardinality(running)
    BY <1>2, <1>3, FS_Subset, FS_CardinalityType
  <2>2. QED
    BY <1>1, <1>2, <2>1, JobsAssumption DEF IInv, WithinJobs
<1>4. ASSUME NEW m \in Modules, Submit(m) PROVE WithinJobs'
  <2>1. Cardinality(running \cup {m}) <= Cardinality(running) + 1
    BY <1>2, FS_AddElement
  <2>2. running' = running \cup {m} /\ Cardinality(running) < Jobs
    BY <1>4 DEF Submit, Slots
  <2>3. Cardinality(running \cup {m}) \in Nat
    BY <1>2, FS_AddElement, FS_CardinalityType
  <2>4. QED
    BY <1>2, <2>1, <2>2, <2>3, JobsAssumption DEF WithinJobs
<1>5. ASSUME ~ \E m \in Modules : Submit(m) PROVE running' \subseteq running
  BY <1>1, <1>5 DEF Next, MainThread, ReportCycle, FinishLoop, BeginWait, WaitReturns,
     RecordResult, PrintFails, CollectFailure, CancelOthers, NextRound, Exit, Worker, Take,
     Spawn, SpawnFails, CheckStop, PollAgain, PollEnds, WriteLog, WriteLogFails, Reap,
     Process, ProcSucceeds, ProcFails, ProcKilled, ProcEnds, mainVars, vars
<1>6. QED
  BY <1>3, <1>4, <1>5

-------------------------------------------------------------------------------
\* The inductive invariant holds initially.
LEMMA InitIInv == Init => IInv
<1> SUFFICES ASSUME Init PROVE IInv
  OBVIOUS
<1>1. TypeOK
  BY DependencyMapsAssumption DEF Init, TypeOK, WorkerStates, ProcStates
<1>2. Bookkeeping /\ ProcessBookkeeping /\ OrderKept /\ MainBookkeeping
  BY DEF Init, Bookkeeping, ProcessBookkeeping, OrderKept, MainBookkeeping, Active, WorkerActive
<1>3. WithinJobs
  BY FS_EmptySet, JobsAssumption DEF Init, WithinJobs
<1>4. QED
  BY <1>1, <1>2, <1>3 DEF IInv

\* Every step keeps it.
LEMMA NextIInv == IInv /\ [Next]_vars => IInv'
BY TypeStep, BookkeepingStep, ProcessBookkeepingStep, WithinJobsStep, OrderKeptStep,
   MainBookkeepingStep DEF IInv

\* The inductive invariant holds in every reachable state.
THEOREM Inductive == Spec => []IInv
BY InitIInv, NextIInv, PTL DEF Spec

\* CompiledInOrder for every manifest: no process without compiled dependencies.
THEOREM OrderTheorem == Spec => []CompiledInOrder
<1>1. IInv => CompiledInOrder
  BY DEF IInv, TypeOK, Bookkeeping, ProcessBookkeeping, OrderKept, CompiledInOrder
<1>2. QED
  BY <1>1, Inductive, PTL

\* AtMostJobs for every number of jobs: the bound holds while a failed build
\* winds down too, since a future leaves `running' only when it has finished.
THEOREM JobsTheorem == Spec => []AtMostJobs
<1>1. IInv => AtMostJobs
  <2> SUFFICES ASSUME IInv PROVE AtMostJobs
    OBVIOUS
  <2> DEFINE A == {m \in Modules : Active(m)}
  <2>1. A \subseteq running
    BY DEF IInv, Bookkeeping
  <2>2. IsFiniteSet(running)
    BY FS_Subset, ModulesAssumption DEF IInv, TypeOK
  <2>3. Cardinality(A) <= Cardinality(running) /\ Cardinality(A) \in Nat
        /\ Cardinality(running) \in Nat
    BY <2>1, <2>2, FS_Subset, FS_CardinalityType
  <2>4. Cardinality(A) <= Jobs
    BY <2>3, JobsAssumption DEF IInv, WithinJobs
  <2>5. \A m \in Modules : Alive(m) => Active(m)
    BY AliveIsActive DEF IInv
  <2>6. QED
    BY <2>4, <2>5 DEF AtMostJobs
<1>2. QED
  BY <1>1, Inductive, PTL

\* Exit status 0 means that every module was compiled, logged and written.
THEOREM SuccessTheorem == Spec => []SuccessIsComplete
<1>1. IInv => SuccessIsComplete
  BY DEF IInv, TypeOK, Bookkeeping, ProcessBookkeeping, MainBookkeeping, SuccessIsComplete
<1>2. QED
  BY <1>1, Inductive, PTL

\* However the command ends, it leaves no process behind.
THEOREM NoOrphansTheorem == Spec => []NoOrphans
<1>1. IInv => NoOrphans
  BY AliveIsActive DEF IInv, MainBookkeeping, NoOrphans
<1>2. QED
  BY <1>1, Inductive, PTL

\* The cycle message tells the truth.
THEOREM CycleTheorem == Spec => []CycleIsReal
<1>1. IInv => CycleIsReal
  BY DEF IInv, TypeOK, Bookkeeping, MainBookkeeping, CycleIsReal, Knot, Blocked, Ready
<1>2. QED
  BY <1>1, Inductive, PTL

\* No module of an import cycle, of any length, is ever handed to a thread: the
\* first one to be would need a compiled module of the same cycle.
THEOREM KnotTheorem == Spec => []KnotNeverStarts
<1>1. Init => KnotNeverStarts
  BY DEF Init, KnotNeverStarts
<1>2. IInv /\ KnotNeverStarts /\ [Next]_vars => KnotNeverStarts'
  <2> SUFFICES ASSUME IInv, KnotNeverStarts, [Next]_vars,
                      NEW S \in SUBSET Modules, Knot(S)', NEW n \in S
               PROVE  worker'[n] = "none"
    BY DEF KnotNeverStarts
  <2>1. dependencies' = dependencies
    BY DEF Next, MainThread, Submit, ReportCycle, FinishLoop, BeginWait, WaitReturns,
       RecordResult, PrintFails, CollectFailure, CancelOthers, NextRound, Exit, Worker, Take,
       Spawn, SpawnFails, CheckStop, PollAgain, PollEnds, WriteLog, WriteLogFails, Reap,
       Process, ProcSucceeds, ProcFails, ProcKilled, ProcEnds, vars
  <2>2. \A k \in S : worker[k] = "none"
    BY <2>1 DEF Knot, KnotNeverStarts
  <2>3. \A k \in S : \E d \in S : d \in dependencies[k]
    BY <2>1 DEF Knot
  <2>4. ASSUME NEW m \in Modules, Submit(m) PROVE worker'[n] = "none"
    <3>1. m \notin S
      BY <2>2, <2>3, <2>4 DEF Submit, Ready, IInv, Bookkeeping
    <3>2. QED
      BY <2>2, <2>4, <3>1 DEF Submit, IInv, TypeOK
  <2>5. ASSUME ~ \E m \in Modules : Submit(m) PROVE worker'[n] = "none"
    BY <2>2, <2>5 DEF Next, MainThread, ReportCycle, FinishLoop, BeginWait, WaitReturns,
       RecordResult, PrintFails, CollectFailure, CancelOthers, NextRound, Exit, Worker, Take,
       Spawn, SpawnFails, CheckStop, PollAgain, PollEnds, WriteLog, WriteLogFails, Reap, Step,
       Process, ProcSucceeds, ProcFails, ProcKilled, ProcEnds, vars, IInv, TypeOK
  <2>6. QED
    BY <2>4, <2>5
<1>3. QED
  BY <1>1, <1>2, Inductive, PTL DEF Spec

\* After a failure nothing is submitted, recorded or reported any more.
THEOREM FailureTheorem == Spec => FailureIsFinal
<1>1. IInv /\ [Next]_vars => [error # "none" => UNCHANGED <<pending, completed, error>>]_vars
  BY DEF IInv, MainBookkeeping, Next, MainThread, Submit, ReportCycle, FinishLoop, BeginWait,
     WaitReturns, RecordResult, PrintFails, CollectFailure, CancelOthers, NextRound, Exit,
     Worker, Take, Spawn, SpawnFails, CheckStop, PollAgain, PollEnds, WriteLog, WriteLogFails,
     Reap, Process, ProcSucceeds, ProcFails, ProcKilled, ProcEnds, mainVars, vars
<1>2. QED
  BY <1>1, Inductive, PTL DEF Spec, FailureIsFinal

-------------------------------------------------------------------------------
(* ParallelBuild implements DagBuild.                                      *)

\* The exit of the command is a success or a failure of the abstract command.
LEMMA ExitRefines == IInv /\ Exit => [Abstract!AbstractNext]_(Abstract!abstractVars)
<1> SUFFICES ASSUME IInv, Exit PROVE [Abstract!AbstractNext]_(Abstract!abstractVars)
  OBVIOUS
<1> USE DEF Abstract!AbstractNext, Abstract!abstractVars
<1>1. CASE error = "none"
  <2>1. olean = Modules
    BY <1>1 DEF IInv, TypeOK, Bookkeeping, ProcessBookkeeping, MainBookkeeping, Exit
  <2>2. Abstract!Succeed
    BY <1>1, <2>1 DEF Abstract!Succeed, Exit
  <2>3. QED
    BY <2>2
<1>2. CASE error # "none"
  <2>1. Abstract!Fail
    BY <1>2 DEF Abstract!Fail, Exit
  <2>2. QED
    BY <2>1
<1>3. QED
  BY <1>1, <1>2

\* A Lean process that succeeds builds its module, in order, before the exit.
LEMMA ProcSucceedsRefines ==
  ASSUME IInv, NEW m \in Modules, ProcSucceeds(m)
  PROVE  Abstract!Build(m)
<1>1. Active(m)
  BY AliveIsActive DEF IInv, ProcSucceeds, ProcEnds, Alive
<1>2. pc # "exited"
  BY <1>1 DEF IInv, MainBookkeeping
<1>3. m \notin olean /\ dependencies[m] \subseteq olean
  BY <1>1 DEF IInv, TypeOK, ProcessBookkeeping, Bookkeeping, OrderKept, ProcSucceeds, ProcEnds,
     Active, WorkerActive
<1>4. QED
  BY <1>2, <1>3 DEF Abstract!Build, ProcSucceeds, ProcEnds, mainVars

\* Outputs appear in dependency order, none of them after the exit, and all of
\* them before a successful one.
THEOREM Refinement == Spec => ImplementsDagBuild
<1>1. Init => Abstract!AbstractInit
  BY DependencyMapsAssumption DEF Init, Abstract!AbstractInit
<1>2. IInv /\ [Next]_vars => [Abstract!AbstractNext]_(Abstract!abstractVars)
  <2> SUFFICES ASSUME IInv, [Next]_vars
               PROVE  [Abstract!AbstractNext]_(Abstract!abstractVars)
    OBVIOUS
  <2>1. CASE Exit
    BY <2>1, ExitRefines
  <2>2. ASSUME NEW m \in Modules, ProcSucceeds(m)
        PROVE  [Abstract!AbstractNext]_(Abstract!abstractVars)
    BY <2>2, ProcSucceedsRefines DEF Abstract!AbstractNext
  <2>3. CASE ~Exit /\ ~ \E m \in Modules : ProcSucceeds(m)
    <3>1. UNCHANGED <<dependencies, olean>>
      BY <2>3 DEF Next, MainThread, Submit, ReportCycle, FinishLoop, BeginWait, WaitReturns,
         RecordResult, PrintFails, CollectFailure, CancelOthers, NextRound, Worker, Take, Spawn,
         SpawnFails, CheckStop, PollAgain, PollEnds, WriteLog, WriteLogFails, Reap, Process,
         ProcFails, ProcKilled, ProcEnds, vars
    <3>2. pc' = "exited" <=> pc = "exited"
      BY <2>3 DEF Next, MainThread, Submit, ReportCycle, FinishLoop, BeginWait, WaitReturns,
         RecordResult, PrintFails, CollectFailure, FailureStops, CancelOthers, NextRound, Worker,
         Take, Spawn, SpawnFails, CheckStop, PollAgain, PollEnds, WriteLog, WriteLogFails, Reap,
         Process, ProcFails, ProcKilled, ProcEnds, vars, mainVars
    <3>3. pc = "exited" => error' = error
      BY <2>3 DEF Next, MainThread, Submit, ReportCycle, FinishLoop, BeginWait, WaitReturns,
         RecordResult, PrintFails, CollectFailure, CancelOthers, NextRound, Worker, Take, Spawn,
         SpawnFails, CheckStop, PollAgain, PollEnds, WriteLog, WriteLogFails, Reap, Process,
         ProcFails, ProcKilled, ProcEnds, vars, mainVars
    <3>4. QED
      BY <3>1, <3>2, <3>3 DEF Abstract!abstractVars
  <2>4. QED
    BY <2>1, <2>2, <2>3
<1>3. QED
  BY <1>1, <1>2, Inductive, PTL DEF Spec, ImplementsDagBuild, Abstract!AbstractSpec

-----------------------------------------------------------------------------

LeanInv ==
  /\ ScanInv
  /\ IInv
  /\ building \in BOOLEAN
  /\ building => scan = "done" /\ dependencies = found
  /\ ~building => pc = "schedule" /\ \A m \in Modules : worker[m] = "none"

\* The dependency map of the pool does not change.
LEMMA MapConstant == Next => dependencies' = dependencies
BY DEF Next, MainThread, Submit, ReportCycle, FinishLoop, BeginWait, WaitReturns,
   RecordResult, PrintFails, CollectFailure, CancelOthers, NextRound, Exit, Worker, Take,
   Spawn, SpawnFails, CheckStop, PollAgain, PollEnds, WriteLog, WriteLogFails, Reap,
   Process, ProcSucceeds, ProcFails, ProcKilled, ProcEnds

\* The invariant of the whole holds in every reachable state.
THEOREM LeanInductive == LeanSpec => []LeanInv
<1>1. LeanInit => LeanInv
  BY InitScanInv, InitIInv DEF LeanInit, LeanInv, Init
<1>2. LeanInv /\ [LeanNext]_leanVars => LeanInv'
  <2> SUFFICES ASSUME LeanInv, [LeanNext]_leanVars PROVE LeanInv'
    OBVIOUS
  <2>1. CASE Walk
    <3>1. ScanInv'
      BY <2>1, NextScanInv DEF LeanInv, Walk
    <3>2. IInv'
      BY <2>1, NextIInv DEF LeanInv, Walk
    <3>3. QED
      BY <2>1, <3>1, <3>2 DEF LeanInv, Walk, vars
  <2>2. CASE OpenPool
    <3>1. ScanInv'
      BY <2>2, NextScanInv DEF LeanInv, OpenPool
    <3>2. IInv'
      BY <2>2 DEF LeanInv, OpenPool, ScanInv, ScanTypeOK, IInv, TypeOK, Bookkeeping,
         ProcessBookkeeping, WithinJobs, OrderKept, MainBookkeeping, mainVars, Active, Blocked
    <3>3. QED
      BY <2>2, <3>1, <3>2 DEF LeanInv, OpenPool, MapReady, scanVars, mainVars
  <2>3. CASE RunPool
    <3>1. ScanInv'
      BY <2>3, NextScanInv DEF LeanInv, RunPool
    <3>2. IInv'
      BY <2>3, NextIInv DEF LeanInv, RunPool
    <3>3. QED
      BY <2>3, <3>1, <3>2, MapConstant DEF LeanInv, RunPool, scanVars
  <2>4. CASE UNCHANGED leanVars
    <3>1. UNCHANGED scanVars /\ UNCHANGED vars
      BY <2>4 DEF leanVars
    <3>2. ScanInv' /\ IInv'
      BY <3>1, NextScanInv, NextIInv DEF LeanInv
    <3>3. QED
      BY <2>4, <3>1, <3>2 DEF LeanInv, leanVars, vars, scanVars
  <2>5. QED
    BY <2>1, <2>2, <2>3, <2>4 DEF LeanNext
<1>3. QED
  BY <1>1, <1>2, PTL DEF LeanSpec

\* What the walks of m and of the modules with outputs have seen is closed: a
\* readable file in it was followed, and a module in it was a dependency of one
\* of them, so it has an output and was walked itself.
LEMMA SeenIsClosed ==
  ASSUME LeanInv, NEW m \in Modules, proc[m] # "none"
  PROVE  \E Z \in SUBSET Names : ClosedThrough(m, Z) /\ Z \cap Modules \subseteq olean
<1> DEFINE Walked == olean \cup {m}
<1> DEFINE Z == UNION {seen[d] : d \in Walked}
<1>1. /\ building /\ scan = "done" /\ left = {} /\ dependencies = found
      /\ olean \subseteq Modules
  BY DEF LeanInv, ScanInv, IInv, TypeOK, ProcessBookkeeping
<1>2. \A d \in Walked : Closed(d, seen[d]) /\ found[d] = seen[d] \cap Modules
  BY <1>1 DEF LeanInv, ScanInv, FinishedClosed
<1>3. \A d \in Walked : found[d] \subseteq olean
  <2>1. \A d \in Walked : proc[d] # "none"
    BY <1>1 DEF LeanInv, IInv, ProcessBookkeeping
  <2>2. \A d \in Walked : dependencies[d] \subseteq completed
    BY <1>1, <2>1 DEF LeanInv, IInv, ProcessBookkeeping, OrderKept
  <2>3. completed \subseteq olean
    BY DEF LeanInv, IInv, TypeOK, Bookkeeping, ProcessBookkeeping
  <2>4. QED
    BY <1>1, <2>2, <2>3
<1>4. Z \in SUBSET Names
  BY <1>1 DEF LeanInv, ScanInv, ScanTypeOK
<1>5. Z \cap Modules \subseteq olean
  BY <1>2, <1>3
<1>6. imports[m] \subseteq Z
  BY <1>2 DEF Closed
<1>7. ASSUME NEW x \in Z, Readable(x) \/ x \in Modules PROVE imports[x] \subseteq Z
  <2>1. CASE Readable(x)
    <3>1. PICK d \in Walked : x \in seen[d]
      OBVIOUS
    <3>2. imports[x] \subseteq seen[d]
      BY <1>2, <2>1, <3>1 DEF Closed
    <3>3. QED
      BY <3>2
  <2>2. CASE x \in Modules
    <3>1. x \in Walked
      BY <1>5, <2>2
    <3>2. imports[x] \subseteq seen[x]
      BY <1>2, <3>1 DEF Closed
    <3>3. QED
      BY <3>1, <3>2
  <2>3. QED
    BY <1>7, <2>1, <2>2
<1>8. ClosedThrough(m, Z)
  BY <1>6, <1>7 DEF ClosedThrough
<1>9. QED
  BY <1>4, <1>5, <1>8

\* No module is compiled before all it needs transitively has its output.
THEOREM TransitiveTheorem == LeanSpec => []TransitiveImportsBuilt
<1>1. LeanInv => TransitiveImportsBuilt
  BY SeenIsClosed DEF TransitiveImportsBuilt, NeedsTransitively
<1>2. QED
  BY <1>1, LeanInductive, PTL

-------------------------------------------------------------------------------
(* The whole command implements DagBuild of what the sources need.         *)

LEMMA TransitiveInvariant == LeanInv => TransitiveImportsBuilt
BY SeenIsClosed DEF TransitiveImportsBuilt, NeedsTransitively

\* The sources do not change, so what they need does not.
LEMMA TreeConstant == [LeanNext]_leanVars => UNCHANGED treeVars
<1> SUFFICES ASSUME [LeanNext]_leanVars PROVE UNCHANGED treeVars
  OBVIOUS
<1>1. CASE Walk
  BY <1>1 DEF Walk, ScanNext, BeginScan, SourceMissing, SkipVisited, RecordDependency,
     FollowImport, EndScan, ScanDone, treeVars
<1>2. CASE OpenPool \/ RunPool \/ UNCHANGED leanVars
  BY <1>2 DEF OpenPool, RunPool, leanVars, scanVars, treeVars
<1> QED BY <1>1, <1>2 DEF LeanNext

LEMMA NeedsConstant == [LeanNext]_leanVars => Needs' = Needs
<1> SUFFICES ASSUME [LeanNext]_leanVars PROVE Needs' = Needs
  OBVIOUS
<1>1. imports' = imports /\ present' = present /\ sourceRoot' = sourceRoot
  BY TreeConstant DEF treeVars
<1> QED BY <1>1 DEF Needs, NeedsTransitively, ClosedThrough, Readable

\* A step of the walk that ends the command is its failure; the others do not
\* show.
LEMMA WalkRefines ==
  LeanInv /\ Walk => [Command!AbstractNext]_(Command!abstractVars)
<1> SUFFICES ASSUME LeanInv, Walk PROVE [Command!AbstractNext]_(Command!abstractVars)
  OBVIOUS
<1>1. Needs' = Needs /\ olean' = olean /\ pc' = pc /\ pc = "schedule"
  BY NeedsConstant DEF Walk, LeanNext, LeanInv, vars
<1>2. scan = "going" \/ scan' = scan
  BY DEF Walk, ScanNext, BeginScan, SourceMissing, SkipVisited, RecordDependency,
     FollowImport, EndScan, ScanDone
<1>3. CASE scan = "going" /\ scan' = "failed"
  <2>1. Command!Fail
    BY <1>1, <1>3 DEF Command!Fail, CommandStatus
  <2> QED BY <2>1 DEF Command!AbstractNext
<1>4. CASE ~(scan = "going" /\ scan' = "failed")
  BY <1>1, <1>2, <1>4 DEF CommandStatus, Command!abstractVars
<1> QED BY <1>3, <1>4

\* The exit of the pool is a success or a failure of the command.
LEMMA PoolExitRefines ==
  ASSUME LeanInv, RunPool, Exit
  PROVE  [Command!AbstractNext]_(Command!abstractVars)
<1>1. /\ Needs' = Needs /\ olean' = olean /\ scan = "done" /\ scan' = scan
      /\ pc = "shutdown" /\ pc' = "exited" /\ error' = error
  BY NeedsConstant DEF RunPool, LeanNext, LeanInv, Exit, scanVars
<1>2. CASE error = "none"
  <2>1. olean = Modules
    BY <1>2 DEF LeanInv, IInv, TypeOK, Bookkeeping, ProcessBookkeeping, MainBookkeeping, Exit
  <2>2. Command!Succeed
    BY <1>1, <1>2, <2>1 DEF Command!Succeed, CommandStatus
  <2> QED BY <2>2 DEF Command!AbstractNext
<1>3. CASE error # "none"
  <2>1. Command!Fail
    BY <1>1, <1>3 DEF Command!Fail, CommandStatus
  <2> QED BY <2>1 DEF Command!AbstractNext
<1> QED BY <1>2, <1>3

\* A Lean process that succeeds builds its module when all it needs is there.
LEMMA PoolBuilds ==
  ASSUME LeanInv, RunPool, NEW m \in Modules, ProcSucceeds(m)
  PROVE  Command!Build(m)
<1>1. Active(m) /\ proc[m] # "none"
  BY AliveIsActive DEF LeanInv, IInv, ProcSucceeds, ProcEnds, Alive
<1>2. pc # "exited" /\ pc' = pc
  BY <1>1 DEF LeanInv, IInv, MainBookkeeping, ProcSucceeds, ProcEnds, mainVars
<1>3. m \notin olean /\ olean' = olean \cup {m}
  BY <1>1 DEF LeanInv, IInv, TypeOK, ProcessBookkeeping, Bookkeeping, ProcSucceeds, ProcEnds,
     Active, WorkerActive
<1>4. Needs[m] \subseteq olean
  BY <1>1, TransitiveInvariant DEF TransitiveImportsBuilt, Needs
<1>5. Needs' = Needs /\ scan = "done" /\ scan' = scan
  BY NeedsConstant DEF RunPool, LeanNext, LeanInv, scanVars
<1> QED BY <1>2, <1>3, <1>4, <1>5 DEF Command!Build, CommandStatus

\* Every other step of the pool is hidden.
LEMMA PoolHides ==
  ASSUME LeanInv, RunPool, ~Exit, \A m \in Modules : ~ProcSucceeds(m)
  PROVE  UNCHANGED Command!abstractVars
<1>1. olean' = olean
  BY DEF RunPool, Next, MainThread, Submit, ReportCycle, FinishLoop, BeginWait, WaitReturns,
     RecordResult, PrintFails, CollectFailure, CancelOthers, NextRound, Worker, Take, Spawn,
     SpawnFails, CheckStop, PollAgain, PollEnds, WriteLog, WriteLogFails, Reap, Process,
     ProcFails, ProcKilled, ProcEnds
<1>2. pc' = "exited" <=> pc = "exited"
  BY DEF RunPool, Next, MainThread, Submit, ReportCycle, FinishLoop, BeginWait, WaitReturns,
     RecordResult, PrintFails, CollectFailure, FailureStops, CancelOthers, NextRound, Worker,
     Take, Spawn, SpawnFails, CheckStop, PollAgain, PollEnds, WriteLog, WriteLogFails, Reap,
     Process, ProcFails, ProcKilled, ProcEnds, mainVars
<1>3. pc = "exited" => error' = error
  BY DEF RunPool, Next, MainThread, Submit, ReportCycle, FinishLoop, BeginWait, WaitReturns,
     RecordResult, PrintFails, CollectFailure, CancelOthers, NextRound, Worker, Take, Spawn,
     SpawnFails, CheckStop, PollAgain, PollEnds, WriteLog, WriteLogFails, Reap, Process,
     ProcFails, ProcKilled, ProcEnds, mainVars
<1>4. Needs' = Needs /\ scan' = scan
  BY NeedsConstant DEF RunPool, LeanNext, scanVars
<1> QED BY <1>1, <1>2, <1>3, <1>4 DEF CommandStatus, Command!abstractVars

\* Outputs appear in the order of everything the sources need, whatever files
\* the imports lead through, none after the exit and all before success.
THEOREM CommandRefinement == LeanSpec => LeanImplementsDagBuild
<1>1. LeanInit => Command!AbstractInit
  BY DEF LeanInit, ScanInit, Init, Needs, CommandStatus, Command!AbstractInit
<1>2. LeanInv /\ [LeanNext]_leanVars => [Command!AbstractNext]_(Command!abstractVars)
  <2> SUFFICES ASSUME LeanInv, [LeanNext]_leanVars
               PROVE  [Command!AbstractNext]_(Command!abstractVars)
    OBVIOUS
  <2>1. CASE Walk
    BY <2>1, WalkRefines
  <2>2. CASE OpenPool \/ UNCHANGED leanVars
    BY <2>2, NeedsConstant DEF OpenPool, leanVars, scanVars, vars, mainVars, CommandStatus,
       Command!abstractVars
  <2>3. CASE RunPool
    <3>1. CASE Exit
      BY <2>3, <3>1, PoolExitRefines
    <3>2. ASSUME NEW m \in Modules, ProcSucceeds(m)
          PROVE  [Command!AbstractNext]_(Command!abstractVars)
      <4>1. Command!Build(m)
        BY <2>3, <3>2, PoolBuilds
      <4> QED BY <4>1 DEF Command!AbstractNext
    <3>3. CASE ~Exit /\ \A m \in Modules : ~ProcSucceeds(m)
      BY <2>3, <3>3, PoolHides
    <3> QED BY <3>1, <3>2, <3>3
  <2> QED BY <2>1, <2>2, <2>3 DEF LeanNext
<1> QED
  BY <1>1, <1>2, LeanInductive, PTL DEF LeanSpec, LeanImplementsDagBuild, Command!AbstractSpec

-----------------------------------------------------------------------------
(* What a failure wipes out.  The modules whose threads have not passed a  *)
(* test of `stop' stay without a log and out of `completed' because their  *)
(* workers can only go on to be cancelled or to the branch that raises.    *)

\* A log is written by the last step of a worker.
LogsLast == \A m \in logs : worker[m] \in WorkerFinished

Announced(m) == stop /\ worker[m] \in {"none", "queued", "spawning", "checking"}

Wiped(m) ==
  /\ stop
  /\ worker[m] \in {"none", "queued", "cancelled", "spawning", "checking", "terminating", "raised"}
  /\ m \notin logs

LEMMA LogsLastStep == IInv /\ LogsLast /\ [Next]_vars => LogsLast'
<1> SUFFICES ASSUME IInv, LogsLast, [Next]_vars PROVE LogsLast'
  OBVIOUS
<1> USE DEF IInv, TypeOK, LogsLast, WorkerStates, WorkerActive, WorkerFinished
<1>1. CASE MainThread
  <2>1. ASSUME NEW n \in Modules, Submit(n) PROVE LogsLast'
    <3>1. worker[n] = "none"
      BY <2>1 DEF Submit, Ready, Bookkeeping
    <3>2. QED
      BY <2>1, <3>1 DEF Submit
  <2>2. CASE CancelOthers
    BY <2>2 DEF CancelOthers
  <2>3. CASE UNCHANGED <<worker, logs>>
    BY <2>3
  <2>4. QED
    BY <1>1, <2>1, <2>2, <2>3 DEF MainThread, ReportCycle, FinishLoop, BeginWait, WaitReturns,
       RecordResult, PrintFails, CollectFailure, NextRound, Exit
<1>2. ASSUME NEW m \in Modules, Worker(m) PROVE LogsLast'
  BY <1>2 DEF Worker, Take, Spawn, SpawnFails, CheckStop, PollAgain, PollEnds, WriteLog,
     WriteLogFails, Reap, Step, Outcome, mainVars
<1>3. ASSUME NEW m \in Modules, Process(m) PROVE LogsLast'
  BY <1>3 DEF Process, ProcSucceeds, ProcFails, ProcKilled, ProcEnds
<1>4. CASE UNCHANGED vars
  BY <1>4 DEF vars
<1>5. QED
  BY <1>1, <1>2, <1>3, <1>4 DEF Next

\* Once wiped out a module stays so: nothing is submitted after the failure, the
\* test of `stop' leads to SIGTERM, and what follows SIGTERM raises.
LEMMA WipedStays ==
  ASSUME NEW m \in Modules
  PROVE  IInv /\ Wiped(m) /\ [Next]_vars => Wiped(m)'
<1> SUFFICES ASSUME IInv, Wiped(m), [Next]_vars PROVE Wiped(m)'
  OBVIOUS
<1> USE DEF IInv, TypeOK, Wiped
<1>1. error = "compile" /\ pc \notin {"schedule", "wait", "collect"}
  BY DEF MainBookkeeping
<1>2. CASE MainThread
  BY <1>1, <1>2 DEF MainThread, Submit, ReportCycle, FinishLoop, BeginWait, WaitReturns,
     RecordResult, PrintFails, CollectFailure, CancelOthers, NextRound, Exit
<1>3. ASSUME NEW n \in Modules, Worker(n) PROVE Wiped(m)'
  BY <1>3 DEF Worker, Take, Spawn, SpawnFails, CheckStop, SeesStop, PollAgain, PollEnds, WriteLog,
     WriteLogFails, Reap, Step, Outcome, mainVars
<1>4. ASSUME NEW n \in Modules, Process(n) PROVE Wiped(m)'
  BY <1>4 DEF Process, ProcSucceeds, ProcFails, ProcKilled, ProcEnds, mainVars
<1>5. CASE UNCHANGED vars
  BY <1>5 DEF vars
<1>6. QED
  BY <1>2, <1>3, <1>4, <1>5 DEF Next

\* For every manifest: a module whose thread has not passed a test of `stop' when
\* the failure is announced leaves no log and is not recorded, then or later.
THEOREM TracelessTheorem == LeanSpec => CanceledLeavesNoTrace
<1>1. LeanSpec => []LogsLast
  <2>1. LeanInit => LogsLast
    BY DEF LeanInit, Init, LogsLast
  <2>2. LeanInv /\ LogsLast /\ [LeanNext]_leanVars => LogsLast'
    <3>1. LeanInv /\ LogsLast /\ RunPool => LogsLast'
      BY LogsLastStep DEF LeanInv, RunPool
    <3>2. LogsLast /\ UNCHANGED <<worker, logs>> => LogsLast'
      BY DEF LogsLast
    <3>3. QED
      BY <3>1, <3>2 DEF LeanNext, Walk, OpenPool, leanVars, vars
  <2>3. QED
    BY <2>1, <2>2, LeanInductive, PTL DEF LeanSpec
<1>2. ASSUME NEW m \in Modules
      PROVE  LeanInv /\ LogsLast /\ Announced(m) => Wiped(m)
  BY DEF LogsLast, Announced, Wiped, WorkerFinished
<1>3. ASSUME NEW m \in Modules
      PROVE  LeanInv /\ Wiped(m) /\ [LeanNext]_leanVars => Wiped(m)'
  <2>1. LeanInv /\ Wiped(m) /\ RunPool => Wiped(m)'
    BY WipedStays DEF LeanInv, RunPool
  <2>2. Wiped(m) /\ UNCHANGED <<stop, worker, logs>> => Wiped(m)'
    BY DEF Wiped
  <2>3. QED
    BY <2>1, <2>2 DEF LeanNext, Walk, OpenPool, leanVars, vars, mainVars
<1>4. ASSUME NEW m \in Modules
      PROVE  LeanInv /\ Wiped(m) => m \notin logs /\ m \notin completed
  BY DEF LeanInv, IInv, TypeOK, Bookkeeping, Wiped
<1>5. ASSUME NEW m \in Modules
      PROVE  LeanSpec => [](stop /\ worker[m] \in {"none", "queued", "spawning", "checking"}
                              => [](m \notin logs /\ m \notin completed))
  <2>1. LeanInv /\ LogsLast /\ Announced(m) => Wiped(m)
    BY <1>2
  <2>2. LeanInv /\ Wiped(m) /\ [LeanNext]_leanVars => Wiped(m)'
    BY <1>3
  <2>3. LeanInv /\ Wiped(m) => m \notin logs /\ m \notin completed
    BY <1>4
  <2>4. QED
    BY <1>1, <2>1, <2>2, <2>3, LeanInductive, PTL DEF LeanSpec, Announced
<1>6. QED
  BY <1>5 DEF CanceledLeavesNoTrace

-------------------------------------------------------------------------------
(***************************************************************************)
(* The UI server.  The sources of a build under way differ from the tree   *)
(* only in what was edited since they were copied, and all of that is      *)
(* missed: nobody watches during a build (Recorded).  What is served was   *)
(* copied before what is being built, and that before the tree of now      *)
(* (Ordered).                                                              *)
(***************************************************************************)

Versions == [Inputs -> 0 .. MaxEdits]

\* What the build under way will publish differs from the tree in what is missed.
Recorded == copied # NoBuild => \A i \in Inputs : copied[i] # tree[i] => i \in missed

\* No version goes back on the way from the tree to the browser.
Ordered ==
  /\ link # NoBuild => NotOlder(tree, link)
  /\ copied # NoBuild => NotOlder(tree, copied)
  /\ copied # NoBuild /\ link # NoBuild => NotOlder(copied, link)

\* Only the first build runs without a page to serve.
Served ==
  /\ watcher = "first" => link = NoBuild
  /\ watcher \in {"starting", "watching", "settling", "building"} => link # NoBuild

UiInv == UiTypeOK /\ Recorded /\ Ordered /\ Served /\ StaleOnlyIfMissed

\* NoBuild is no version of the sources.
LEMMA NotAVersion == NoBuild \notin Versions
  BY InputsAssumption, EditsAssumption, SMT DEF Versions

\* An edit makes the tree newer, at one input.
LEMMA Edited ==
  ASSUME UiTypeOK, NEW i \in Inputs, EditOf(i)
  PROVE  /\ tree' \in Versions
         /\ \A j \in Inputs : tree[j] <= tree'[j] /\ (j # i => tree'[j] = tree[j])
  BY EditsAssumption DEF UiTypeOK, EditOf, Versions

LEMMA InitUiInv == UiInit => UiInv
<1> SUFFICES ASSUME UiInit PROVE UiInv
  OBVIOUS
<1>1. tree \in Versions
  BY EditsAssumption DEF UiInit, Versions
<1>2. UiTypeOK
  BY <1>1 DEF UiInit, UiTypeOK, WatcherStates, Building, Versions
<1>3. Recorded /\ Ordered /\ Served /\ StaleOnlyIfMissed
  BY DEF UiInit, Recorded, Ordered, Served, StaleOnlyIfMissed
<1>4. QED
  BY <1>2, <1>3 DEF UiInv

\* An edit: the invariant holds after it if `missed' grows by an input that is
\* not noticed, and if the watcher goes from waiting to settling otherwise.
LEMMA EditKeeps ==
  ASSUME UiInv, NEW i \in Inputs, NoticedEdit(i) \/ UnnoticedEdit(i)
  PROVE  UiInv'
<1>1. EditOf(i)
  BY DEF NoticedEdit, UnnoticedEdit
<1>2. /\ tree' \in Versions
      /\ \A j \in Inputs : tree[j] <= tree'[j] /\ (j # i => tree'[j] = tree[j])
  BY <1>1, Edited DEF UiInv
<1>3. UNCHANGED <<copied, link, serving, failed>>
  BY <1>1 DEF EditOf
<1>4. CASE NoticedEdit(i)
  <2>1. UiTypeOK'
    BY <1>2, <1>3, <1>4 DEF UiInv, UiTypeOK, NoticedEdit, WatcherStates, Building, Versions
  <2>2. copied = NoBuild
    BY <1>4 DEF UiInv, UiTypeOK, NoticedEdit, Building
  <2>3. Recorded' /\ Served' /\ StaleOnlyIfMissed'
    BY <1>3, <1>4, <2>2 DEF UiInv, Recorded, Served, StaleOnlyIfMissed, NoticedEdit
  <2>4. Ordered'
    BY <1>2, <1>3, <2>2, NotAVersion, EditsAssumption
       DEF UiInv, UiTypeOK, Ordered, NotOlder, Versions
  <2>5. QED
    BY <2>1, <2>3, <2>4 DEF UiInv
<1>5. CASE UnnoticedEdit(i)
  <2>1. UiTypeOK'
    BY <1>2, <1>3, <1>5 DEF UiInv, UiTypeOK, UnnoticedEdit, WatcherStates, Building, Versions
  <2>2. Recorded' /\ StaleOnlyIfMissed'
    BY <1>2, <1>3, <1>5 DEF UiInv, Recorded, StaleOnlyIfMissed, UnnoticedEdit
  <2>3. Served'
    BY <1>3, <1>5 DEF UiInv, Served, UnnoticedEdit
  <2>4. Ordered'
    BY <1>2, <1>3, NotAVersion, EditsAssumption
       DEF UiInv, UiTypeOK, Ordered, NotOlder, Versions
  <2>5. QED
    BY <2>1, <2>2, <2>3, <2>4 DEF UiInv
<1>6. QED
  BY <1>4, <1>5

\* A build that ends, the first or a later one.
LEMMA BuildKeeps ==
  ASSUME UiInv, NEW ok \in BOOLEAN, FirstBuild(ok) \/ Rebuild(ok)
  PROVE  UiInv'
<1>1. /\ copied # NoBuild /\ copied' = NoBuild
      /\ link' = (IF ok THEN copied ELSE link) /\ failed' = ~ok
      /\ UNCHANGED <<tree, missed>>
  BY DEF FirstBuild, Rebuild, AfterBuild, Published
<1>2. copied \in Versions
  BY <1>1 DEF UiInv, UiTypeOK, Versions
<1>3. UiTypeOK'
  <2>1. CASE FirstBuild(ok)
    BY <1>1, <1>2, <2>1 DEF UiInv, UiTypeOK, Served, FirstBuild, WatcherStates, Versions
  <2>2. CASE Rebuild(ok)
    BY <1>1, <1>2, <2>2
       DEF UiInv, UiTypeOK, Served, Rebuild, AfterRebuild, WatcherStates, Versions
  <2>3. QED
    BY <2>1, <2>2
<1>4. Recorded'
  BY <1>1 DEF Recorded
<1>5. Ordered'
  BY <1>1 DEF UiInv, Ordered, NotOlder
<1>6. Served'
  BY <1>1 DEF UiInv, Served, FirstBuild, Rebuild, AfterRebuild
<1>7. StaleOnlyIfMissed'
  BY <1>1 DEF UiInv, Recorded, StaleOnlyIfMissed
<1>8. QED
  BY <1>3, <1>4, <1>5, <1>6, <1>7 DEF UiInv
\* Every step keeps the invariant.
LEMMA NextUiInv == UiInv /\ [UiNext]_uiVars => UiInv'
<1> SUFFICES ASSUME UiInv, [UiNext]_uiVars PROVE UiInv'
  OBVIOUS
<1>1. ASSUME NEW i \in Inputs, NoticedEdit(i) \/ UnnoticedEdit(i) PROVE UiInv'
  BY <1>1, EditKeeps
<1>2. ASSUME NEW ok \in BOOLEAN, FirstBuild(ok) \/ Rebuild(ok) PROVE UiInv'
  BY <1>2, BuildKeeps
<1>3. CASE CopySources
  <2>1. tree \in Versions
    BY DEF UiInv, UiTypeOK, Versions
  <2>2. UiTypeOK'
    BY <1>3, <2>1 DEF UiInv, UiTypeOK, CopySources, Building, Versions
  <2>3. Recorded' /\ Served'
    BY <1>3 DEF UiInv, Recorded, Served, CopySources
  <2>4. Ordered'
    <3>1. NotOlder(tree, tree)
      BY <2>1, EditsAssumption DEF NotOlder, Versions
    <3>2. QED
      BY <1>3, <3>1 DEF UiInv, Ordered, CopySources, NotOlder
  <2>5. StaleOnlyIfMissed'
    BY <1>3 DEF UiInv, StaleOnlyIfMissed, CopySources, Building
  <2>6. QED
    BY <2>2, <2>3, <2>4, <2>5 DEF UiInv
<1>4. CASE InotifyReady \/ InotifyFails \/ Settled
  <2>1. UiTypeOK'
    BY <1>4 DEF UiInv, UiTypeOK, InotifyReady, InotifyFails, Settled, AfterSleep,
       WatcherStates, Building
  <2>2. Recorded' /\ Ordered'
    BY <1>4 DEF UiInv, Recorded, Ordered, InotifyReady, InotifyFails, Settled, NotOlder
  <2>3. Served' /\ StaleOnlyIfMissed'
    BY <1>4 DEF UiInv, Served, StaleOnlyIfMissed, InotifyReady, InotifyFails, Settled, AfterSleep
  <2>4. QED
    BY <2>1, <2>2, <2>3 DEF UiInv
<1>5. CASE UNCHANGED uiVars
  BY <1>5 DEF uiVars, UiInv, UiTypeOK, Building, Recorded, Ordered, Served, StaleOnlyIfMissed,
     NotOlder
<1>6. QED
  BY <1>1, <1>2, <1>3, <1>4, <1>5 DEF UiNext, Watcher

\* The invariant holds in every reachable state, whatever the builds and the
\* edits do.
THEOREM UiInductive == UiSpec => []UiInv
<1>1. QED
  BY InitUiInv, NextUiInv, PTL DEF UiSpec

\* The variables of the watcher keep their types, and there is a page to serve
\* exactly when the server runs (serve-binary-regions-ui).
THEOREM UiTypeCorrect == UiSpec => []UiTypeOK
<1>1. UiInv => UiTypeOK
  BY DEF UiInv
<1>2. QED
  BY <1>1, UiInductive, PTL

\* While the loop waits, the page is stale only in what was edited while it did
\* not, unless the last build has failed.
THEOREM StaleTheorem == UiSpec => []StaleOnlyIfMissed
<1>1. UiInv => StaleOnlyIfMissed
  BY DEF UiInv
<1>2. QED
  BY <1>1, UiInductive, PTL

\* One step never puts an older page in place of a newer one, and a failed
\* build puts none.
LEMMA StepServesNoOlder ==
  UiInv /\ [UiNext]_uiVars =>
    (link # NoBuild =>
       /\ link' # NoBuild
       /\ NotOlder(link', link)
       /\ failed' /\ copied # NoBuild => link' = link)
<1> SUFFICES ASSUME UiInv, [UiNext]_uiVars, link # NoBuild
             PROVE  /\ link' # NoBuild
                    /\ NotOlder(link', link)
                    /\ failed' /\ copied # NoBuild => link' = link
  OBVIOUS
<1>1. NotOlder(link, link)
  BY EditsAssumption DEF UiInv, UiTypeOK, NotOlder
<1>2. CASE link' = link
  BY <1>1, <1>2
<1>3. ASSUME NEW ok \in BOOLEAN, FirstBuild(ok) \/ Rebuild(ok)
      PROVE  /\ link' # NoBuild
             /\ NotOlder(link', link)
             /\ failed' /\ copied # NoBuild => link' = link
  BY <1>1, <1>3 DEF UiInv, Ordered, FirstBuild, Rebuild, AfterBuild, Published
<1>4. link' = link \/ \E ok \in BOOLEAN : FirstBuild(ok) \/ Rebuild(ok)
  BY DEF UiNext, Watcher, uiVars, NoticedEdit, UnnoticedEdit, EditOf, InotifyReady,
     InotifyFails, Settled, CopySources
<1>5. QED
  BY <1>2, <1>3, <1>4

\* What the browser gets is never older than what it got before.
THEOREM ServedTheorem == UiSpec => ServedNeverOlder
<1>1. QED
  BY UiInductive, StepServesNoOlder, PTL DEF UiSpec, ServedNeverOlder
================================================================================
