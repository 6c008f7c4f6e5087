----------------------------- MODULE ParallelBuild -----------------------------
(***************************************************************************)
(* tools/parallel_lean_build.py: a thread pool of at most Jobs workers     *)
(* compiles the modules of a manifest, each in a Lean process of its own,  *)
(* as soon as the modules it depends on are compiled.                      *)
(*                                                                         *)
(* Three kinds of actors interleave:                                       *)
(*   - the main thread in build(): it submits ready modules, waits for the *)
(*     first result, handles the results and, on a failure, sets `stop',   *)
(*     cancels the futures that have not begun and leaves the `with' block,*)
(*     which waits for the workers;                                        *)
(*   - one worker per submitted module in compile_module(): it starts the  *)
(*     process and polls it every 50 ms, testing `stop' before each poll;  *)
(*   - the Lean processes, which end by themselves or by SIGTERM.          *)
(***************************************************************************)
EXTENDS Manifest

CONSTANTS
  Jobs,             \* --jobs
  DependencyMaps    \* what manifest_dependencies may have found

ASSUME JobsAssumption == Jobs \in Nat \ {0}           \* line 159
ASSUME DependencyMapsAssumption == DependencyMaps \subseteq [Modules -> SUBSET Modules]

VARIABLES
  dependencies,     \* the map `dependencies'; never changes
  pc,               \* where the main thread is
  pending,          \* modules not submitted
  running,          \* modules whose futures are in the dictionary `running'
  done,             \* what concurrent.futures.wait returned, not yet handled
  completed,        \* modules recorded as compiled
  stop,             \* the event that tells the workers to stop
  error,            \* the exception that leaves build(), or "none"
  worker,           \* future and thread of each module
  proc,             \* Lean process of each module
  olean,            \* modules whose output file this command has written
  logs              \* modules whose log file this command has written

vars == <<dependencies, pc, pending, running, done, completed, stop, error,
          worker, proc, olean, logs>>
mainVars == <<pc, pending, running, done, completed, stop, error>>

(* A future is "queued" until a thread takes it; the thread starts the     *)
(* process, then alternates between testing stop ("checking") and waiting  *)
(* 50 ms ("communicating").  "exited": the process has ended on its own;   *)
(* "terminating": SIGTERM sent.                                            *)
WorkerActive == {"queued", "spawning", "checking", "communicating", "exited", "terminating"}
WorkerFinished == {"returned", "raised"}
WorkerStates == {"none", "cancelled"} \cup WorkerActive \cup WorkerFinished
ProcStates == {"none", "alive", "ok", "bad", "killed"}

TypeOK ==
  /\ dependencies \in [Modules -> SUBSET Modules]
  /\ pc \in {"schedule", "wait", "collect", "cancel", "shutdown", "exited"}
  /\ pending \subseteq Modules
  /\ running \subseteq Modules
  /\ done \subseteq Modules
  /\ completed \subseteq Modules
  /\ stop \in BOOLEAN
  /\ error \in {"none", "compile", "print", "cycle"}
  /\ worker \in [Modules -> WorkerStates]
  /\ proc \in [Modules -> ProcStates]
  /\ olean \subseteq Modules
  /\ logs \subseteq Modules

Init ==
  /\ dependencies \in DependencyMaps
  /\ pc = "schedule"
  /\ pending = Modules
  /\ running = {}
  /\ done = {}
  /\ completed = {}
  /\ stop = FALSE
  /\ error = "none"
  /\ worker = [m \in Modules |-> "none"]
  /\ proc = [m \in Modules |-> "none"]
  /\ olean = {}
  /\ logs = {}

-------------------------------------------------------------------------------
(* The main thread.                                                        *)

Ready == {m \in pending : dependencies[m] \subseteq completed}

Slots == Cardinality(running) < Jobs

\* The first of the ready modules, in sort order, is handed to the pool.
Submit(m) ==
  /\ pc = "schedule"
  /\ m \in Ready
  /\ \A n \in Ready : m <= n
  /\ Slots
  /\ pending' = pending \ {m}
  /\ running' = running \cup {m}
  /\ worker' = [worker EXCEPT ![m] = "queued"]
  /\ UNCHANGED <<dependencies, pc, done, completed, stop, error, proc, olean, logs>>

\* Mutant of Blocked: nobody looks for a cycle.
BlockedNever == FALSE

\* Mutant of Blocked: an empty ready list is taken for a cycle.
BlockedWhileRunning == pending # {} /\ Ready = {}

Blocked == pending # {} /\ Ready = {} /\ running = {}

\* Modules are left, none can be submitted and none is running.
ReportCycle ==
  /\ pc = "schedule"
  /\ Blocked
  /\ error' = "cycle"
  /\ pc' = "shutdown"
  /\ UNCHANGED <<dependencies, pending, running, done, completed, stop, worker, proc,
                 olean, logs>>

LoopEnds == pending = {} /\ running = {}

FinishLoop ==
  /\ pc = "schedule"
  /\ LoopEnds
  /\ pc' = "shutdown"
  /\ UNCHANGED <<dependencies, pending, running, done, completed, stop, error, worker,
                 proc, olean, logs>>

BeginWait ==
  /\ pc = "schedule"
  /\ running # {}
  /\ Ready = {} \/ ~Slots
  /\ pc' = "wait"
  /\ UNCHANGED <<dependencies, pending, running, done, completed, stop, error, worker,
                 proc, olean, logs>>

\* wait() returns some of the futures that have finished, at least one: a
\* future that finishes while wait() is collecting may or may not be included.
WaitReturns ==
  /\ pc = "wait"
  /\ \E D \in (SUBSET {m \in running : worker[m] \in WorkerFinished}) \ {{}} : done' = D
  /\ pc' = "collect"
  /\ UNCHANGED <<dependencies, pending, running, completed, stop, error, worker, proc,
                 olean, logs>>

\* A result: its log is printed and the module is recorded.
RecordResult(m) ==
  /\ pc = "collect"
  /\ m \in done
  /\ worker[m] = "returned"
  /\ running' = running \ {m}
  /\ done' = done \ {m}
  /\ completed' = completed \cup {m}
  /\ UNCHANGED <<dependencies, pc, pending, stop, error, worker, proc, olean, logs>>

\* A result whose log cannot be printed: the exception is raised outside the
\* try statement, so `stop' stays clear.
PrintFails(m) ==
  /\ pc = "collect"
  /\ m \in done
  /\ worker[m] = "returned"
  /\ running' = running \ {m}
  /\ done' = done \ {m}
  /\ error' = "print"
  /\ pc' = "shutdown"
  /\ UNCHANGED <<dependencies, pending, completed, stop, worker, proc, olean, logs>>

FailureStops == stop' = TRUE /\ pc' = "cancel"

\* future.result() raises: tell the workers, then cancel, then re-raise.
CollectFailure(m) ==
  /\ pc = "collect"
  /\ m \in done
  /\ worker[m] = "raised"
  /\ running' = running \ {m}
  /\ done' = done \ {m}
  /\ FailureStops
  /\ error' = "compile"
  /\ UNCHANGED <<dependencies, pending, completed, worker, proc, olean, logs>>

\* cancel() has an effect on the futures no thread has taken.
CancelOthers ==
  /\ pc = "cancel"
  /\ worker' = [m \in Modules |-> IF m \in running /\ worker[m] = "queued"
                                  THEN "cancelled" ELSE worker[m]]
  /\ pc' = "shutdown"
  /\ UNCHANGED <<dependencies, pending, running, done, completed, stop, error, proc,
                 olean, logs>>

NextRound ==
  /\ pc = "collect"
  /\ done = {}
  /\ pc' = "schedule"
  /\ UNCHANGED <<dependencies, pending, running, done, completed, stop, error, worker,
                 proc, olean, logs>>

\* Mutant of WorkersJoined: shutdown(wait=False).
WorkersAbandoned == TRUE

WorkersJoined == \A m \in Modules : worker[m] \notin WorkerActive

\* The executor's __exit__ waits for the workers, then main() exits.
Exit ==
  /\ pc = "shutdown"
  /\ WorkersJoined
  /\ pc' = "exited"
  /\ UNCHANGED <<dependencies, pending, running, done, completed, stop, error, worker,
                 proc, olean, logs>>

MainThread ==
  \/ \E m \in Modules : Submit(m)
  \/ ReportCycle
  \/ FinishLoop
  \/ BeginWait
  \/ WaitReturns
  \/ \E m \in Modules : RecordResult(m)
  \/ \E m \in Modules : PrintFails(m)
  \/ \E m \in Modules : CollectFailure(m)
  \/ CancelOthers
  \/ NextRound
  \/ Exit

-------------------------------------------------------------------------------
(* The workers: compile_module().                                          *)

Step(m, from, to) ==
  /\ worker[m] = from
  /\ worker' = [worker EXCEPT ![m] = to]

\* A thread of the pool takes the future; it cannot be cancelled any more.
Take(m) ==
  /\ Step(m, "queued", "spawning")
  /\ UNCHANGED <<dependencies, mainVars, proc, olean, logs>>

Spawn(m) ==
  /\ Step(m, "spawning", "checking")
  /\ proc' = [proc EXCEPT ![m] = "alive"]
  /\ UNCHANGED <<dependencies, mainVars, olean, logs>>

\* mkdir or Popen raises OSError.
SpawnFails(m) ==
  /\ Step(m, "spawning", "raised")
  /\ UNCHANGED <<dependencies, mainVars, proc, olean, logs>>

\* Mutant of SeesStop: the event is never looked at.
SeesStopNever == FALSE

SeesStop == stop

CheckStop(m) ==
  /\ IF SeesStop THEN Step(m, "checking", "terminating")
                 ELSE Step(m, "checking", "communicating")
  /\ UNCHANGED <<dependencies, mainVars, proc, olean, logs>>

\* Mutant of PollExpires: communicate() without a timeout.
PollExpiresNever(m) == FALSE

PollExpires(m) == proc[m] = "alive"

PollAgain(m) ==
  /\ PollExpires(m)
  /\ Step(m, "communicating", "checking")
  /\ UNCHANGED <<dependencies, mainVars, proc, olean, logs>>

PollEnds(m) ==
  /\ proc[m] \in {"ok", "bad"}
  /\ Step(m, "communicating", "exited")
  /\ UNCHANGED <<dependencies, mainVars, proc, olean, logs>>

Outcome(m) == IF proc[m] = "ok" THEN "returned" ELSE "raised"

\* The log is written whatever the exit code, then the code decides.
WriteLog(m) ==
  /\ Step(m, "exited", Outcome(m))
  /\ logs' = logs \cup {m}
  /\ UNCHANGED <<dependencies, mainVars, proc, olean>>

\* The log cannot be decoded or written: a failure although the process may
\* have succeeded.
WriteLogFails(m) ==
  /\ Step(m, "exited", "raised")
  /\ UNCHANGED <<dependencies, mainVars, proc, olean, logs>>

\* Mutant of Reaped: terminate() without the communicate() that waits.
ReapedAtOnce(m) == TRUE

Reaped(m) == proc[m] # "alive"

\* The signalled process is gone: the worker raises, whatever it ended with.
Reap(m) ==
  /\ Reaped(m)
  /\ Step(m, "terminating", "raised")
  /\ UNCHANGED <<dependencies, mainVars, proc, olean, logs>>

Worker(m) ==
  \/ Take(m)
  \/ Spawn(m)
  \/ SpawnFails(m)
  \/ CheckStop(m)
  \/ PollAgain(m)
  \/ PollEnds(m)
  \/ WriteLog(m)
  \/ WriteLogFails(m)
  \/ Reap(m)

-------------------------------------------------------------------------------
(* The Lean processes (not under src/): an exit code of 0 means that the   *)
(* output is written.  A process that has been sent SIGTERM may still end  *)
(* by itself before the signal arrives.                                    *)

ProcEnds(m, how) ==
  /\ proc[m] = "alive"
  /\ proc' = [proc EXCEPT ![m] = how]
  /\ UNCHANGED <<dependencies, mainVars, worker, logs>>

ProcSucceeds(m) ==
  /\ ProcEnds(m, "ok")
  /\ olean' = olean \cup {m}

ProcFails(m) ==
  /\ ProcEnds(m, "bad")
  /\ UNCHANGED olean

ProcKilled(m) ==
  /\ worker[m] = "terminating"
  /\ ProcEnds(m, "killed")
  /\ UNCHANGED olean

Process(m) == ProcSucceeds(m) \/ ProcFails(m) \/ ProcKilled(m)

-------------------------------------------------------------------------------
Next ==
  \/ MainThread
  \/ \E m \in Modules : Worker(m)
  \/ \E m \in Modules : Process(m)

Spec == Init /\ [][Next]_vars

-------------------------------------------------------------------------------
(* Properties.                                                             *)

Active(m) == worker[m] \in WorkerActive

Alive(m) == proc[m] = "alive"

\* A module is compiled only against outputs of this run: whenever its process
\* exists, whatever became of it, all it depends on was recorded and written.
CompiledInOrder ==
  \A m \in Modules : proc[m] # "none" => dependencies[m] \subseteq completed \cap olean

\* At most --jobs modules are in the hands of threads, hence at most that many
\* Lean processes are alive, also while a failed build winds down.
AtMostJobs ==
  /\ Cardinality({m \in Modules : Active(m)}) <= Jobs
  /\ \A m \in Modules : Alive(m) => Active(m)

\* Exit status 0: every module has an output, a log and a process that
\* succeeded, and nothing was cancelled on the way.
SuccessIsComplete ==
  pc = "exited" /\ error = "none" =>
    /\ completed = Modules
    /\ olean = Modules
    /\ logs = Modules
    /\ \A m \in Modules : proc[m] = "ok"

\* When the command has exited, whatever the reason, no process it started is
\* left that could still write an output.
NoOrphans == pc = "exited" => \A m \in Modules : ~Alive(m)

\* A knot: modules none of which can be first.
Knot(S) == S # {} /\ \A m \in S : dependencies[m] \cap S # {}

\* "dependency cycle or missing completion" is reported only of a manifest that
\* has a cycle, and only after all the rest has been compiled.
CycleIsReal ==
  error = "cycle" => /\ Knot(pending)
                     /\ completed = Modules \ pending
                     /\ ~stop

\* No member of a knot, and so nothing that needs one, is ever submitted.
KnotNeverStarts ==
  \A S \in SUBSET Modules : Knot(S) => \A m \in S : worker[m] = "none"

\* A module whose thread has not passed a test of `stop' when the failure is
\* announced is wiped out: even if a process is still started for it, it
\* leaves no log and is not recorded.
CanceledLeavesNoTrace ==
  \A m \in Modules :
    [](stop /\ worker[m] \in {"none", "queued", "spawning", "checking"}
         => [](m \notin logs /\ m \notin completed))

\* After a failure nothing is submitted, recorded or reported any more.
FailureIsFinal ==
  [][error # "none" => UNCHANGED <<pending, completed, error>>]_vars

\* Once a failure is announced the command ends although a Lean process may
\* never end by itself.
StopReachesEveryone == stop ~> pc = "exited"

\* The command implements DagBuild: an output counts as soon as it is written.
Abstract == INSTANCE DagBuild WITH
  built <- olean,
  status <- IF pc # "exited" THEN "running"
            ELSE IF error = "none" THEN "ok" ELSE "failed"

\* Outputs appear in dependency order, none after the exit, all before success.
ImplementsDagBuild == Abstract!AbstractSpec
===============================================================================
