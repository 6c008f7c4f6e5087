------------------------------- MODULE LeanBuild -------------------------------
(***************************************************************************)
(* The whole of build() in tools/parallel_lean_build.py: the walk over the *)
(* imports (ManifestDependencies), then the pool (ParallelBuild) on what   *)
(* the walk has found.  A source that cannot be read ends the command      *)
(* before anything is compiled.                                            *)
(***************************************************************************)
EXTENDS ManifestDependencies, ParallelBuild

VARIABLE building       \* has the pool been opened?

leanVars == <<scanVars, vars, building>>

LeanInit ==
  /\ ScanInit
  /\ Init
  /\ building = FALSE

Walk ==
  /\ ~building
  /\ ScanNext
  /\ UNCHANGED <<vars, building>>

\* Mutant of MapReady: the pool opens on a map that is still being filled.
MapReadyEarly == scan # "failed"

MapReady == scan = "done"

\* `dependencies' is assigned and the pool is opened.
OpenPool ==
  /\ ~building
  /\ MapReady
  /\ building' = TRUE
  /\ dependencies' = found
  /\ UNCHANGED <<scanVars, mainVars, worker, proc, olean, logs>>

RunPool ==
  /\ building
  /\ Next
  /\ UNCHANGED <<scanVars, building>>

LeanNext == Walk \/ OpenPool \/ RunPool

LeanSpec == LeanInit /\ [][LeanNext]_leanVars

(* The walk reads one file after the other; then the interpreter and the   *)
(* operating system run every thread and a process dies of SIGTERM.  A     *)
(* Lean process may run for ever: the code sets no limit to it.            *)
Pool(A) == building /\ A /\ UNCHANGED <<scanVars, building>>

Scheduling ==
  /\ WF_leanVars(Walk) /\ WF_leanVars(OpenPool) /\ WF_leanVars(Pool(MainThread))
  /\ \A m \in Modules : WF_leanVars(Pool(Worker(m))) /\ WF_leanVars(Pool(ProcKilled(m)))

FairLeanSpec == LeanSpec /\ Scheduling

-------------------------------------------------------------------------------
\* A set that holds what m imports and what the files in it import, as far as
\* they can be read; the modules of the manifest are files like the others.
ClosedThrough(m, Z) ==
  /\ imports[m] \subseteq Z
  /\ \A x \in Z : Readable(x) \/ x \in Modules => imports[x] \subseteq Z

NeedsTransitively(m, d) == \A Z \in SUBSET Names : ClosedThrough(m, Z) => d \in Z

\* A module is compiled only when every module of the manifest it needs, at
\* whatever distance and through whatever files, has its output: the map holds
\* the nearest modules only, the order it imposes is transitive.
TransitiveImportsBuilt ==
  \A m \in Modules : proc[m] # "none" =>
    \A d \in Modules : NeedsTransitively(m, d) => d \in olean

\* The command ends, though the other files may import each other, provided
\* that every Lean process does.
BuildEnds ==
  (\A m \in Modules : Alive(m) ~> ~Alive(m)) => <>(scan = "failed" \/ pc = "exited")

\* The whole command is a DagBuild of what the modules need by the sources: an
\* output counts as soon as it is written.
Needs == [m \in Modules |-> {d \in Modules : NeedsTransitively(m, d)}]

CommandStatus ==
  IF scan = "failed" \/ (pc = "exited" /\ error # "none") THEN "failed"
  ELSE IF pc = "exited" THEN "ok" ELSE "running"

Command == INSTANCE DagBuild WITH
  dependencies <- Needs, built <- olean, status <- CommandStatus

\* Outputs appear after all that they need at whatever distance, none after the
\* exit, all before success.
LeanImplementsDagBuild == Command!AbstractSpec
===============================================================================
