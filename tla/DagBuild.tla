------------------------------- MODULE DagBuild -------------------------------
(***************************************************************************)
(* What tools/parallel_lean_build.py promises its caller (nix/evm-sail.nix *)
(* runs it and then collects the .olean files): outputs appear one after   *)
(* the other in dependency order while the command runs, the command       *)
(* succeeds only when every output is there, and once it has exited no     *)
(* output is written any more.  Nothing is said of threads, processes,     *)
(* logs or the order in which results are collected.                       *)
(***************************************************************************)
EXTENDS FiniteSets

CONSTANT Modules        \* the modules of the manifest

VARIABLES
  dependencies,         \* manifest modules each module needs; never changes
  built,                \* modules whose output this command has written
  status                \* "running", or the exit status: "ok", "failed"

abstractVars == <<dependencies, built, status>>

AbstractTypeOK ==
  /\ dependencies \in [Modules -> SUBSET Modules]
  /\ built \subseteq Modules
  /\ status \in {"running", "ok", "failed"}

AbstractInit ==
  /\ dependencies \in [Modules -> SUBSET Modules]
  /\ built = {}
  /\ status = "running"

\* The output of m is written; those it is compiled against are there.
Build(m) ==
  /\ status = "running"
  /\ m \notin built
  /\ dependencies[m] \subseteq built
  /\ built' = built \cup {m}
  /\ UNCHANGED <<dependencies, status>>

Succeed ==
  /\ status = "running"
  /\ built = Modules
  /\ status' = "ok"
  /\ UNCHANGED <<dependencies, built>>

\* A compiler, the operating system or the manifest may be at fault: the
\* abstract command may fail at any time.
Fail ==
  /\ status = "running"
  /\ status' = "failed"
  /\ UNCHANGED <<dependencies, built>>

AbstractNext ==
  \/ \E m \in Modules : Build(m)
  \/ Succeed
  \/ Fail

AbstractSpec == AbstractInit /\ [][AbstractNext]_abstractVars
===============================================================================
