-------------------------- MODULE ManifestDependencies --------------------------
(***************************************************************************)
(* tools/parallel_lean_build.py, build() up to the thread pool: for each   *)
(* module of the manifest, manifest_dependencies() walks the imports of    *)
(* its source.  An import that is in the manifest is a dependency and is   *)
(* not followed; any other import is followed when a source root is given  *)
(* and the file exists under it.                                           *)
(*                                                                         *)
(* The work list is a set here: a name that is in the list twice is        *)
(* skipped the second time, which changes nothing.                         *)
(***************************************************************************)
EXTENDS Manifest

CONSTANTS
  Others,           \* the other modules anything imports
  NoModule,         \* no call of manifest_dependencies() is under way
  Trees             \* the sources there may be: [imports, present, sourceRoot]

Names == Modules \cup Others

ASSUME NamesAssumption == Modules \cap Others = {} /\ NoModule \notin Names
ASSUME TreesAssumption ==
  Trees \subseteq [imports : [Names -> SUBSET Names], present : SUBSET Names, sourceRoot : BOOLEAN]

VARIABLES
  imports,          \* the import lines of each file
  present,          \* the files that exist
  sourceRoot,       \* is --source-root given?
  left,             \* modules of the manifest still to be scanned
  current,          \* the module being scanned
  work,             \* the list `pending' of manifest_dependencies()
  seen,             \* the set `visited' of the call for each module
  found,            \* the set `dependencies' of the call for each module
  scan              \* "going", "done", or "failed": an OSError

treeVars == <<imports, present, sourceRoot>>
scanVars == <<imports, present, sourceRoot, left, current, work, seen, found, scan>>

ScanTypeOK ==
  /\ imports \in [Names -> SUBSET Names]
  /\ present \subseteq Names
  /\ sourceRoot \in BOOLEAN
  /\ left \subseteq Modules
  /\ current \in Modules \cup {NoModule}
  /\ work \subseteq Names
  /\ seen \in [Modules -> SUBSET Names]
  /\ found \in [Modules -> SUBSET Modules]
  /\ scan \in {"going", "done", "failed"}
  /\ \A m \in Modules : found[m] \subseteq seen[m]

ScanInit ==
  /\ \E tree \in Trees :
       imports = tree.imports /\ present = tree.present /\ sourceRoot = tree.sourceRoot
  /\ left = Modules
  /\ current = NoModule
  /\ work = {}
  /\ seen = [m \in Modules |-> {}]
  /\ found = [m \in Modules |-> {}]
  /\ scan = "going"

-------------------------------------------------------------------------------
BeginScan(m) ==
  /\ scan = "going" /\ current = NoModule
  /\ m \in left
  /\ m \in present
  /\ current' = m
  /\ work' = imports[m]
  /\ UNCHANGED <<treeVars, left, seen, found, scan>>

\* The source named in the manifest cannot be read.
SourceMissing(m) ==
  /\ scan = "going" /\ current = NoModule
  /\ m \in left
  /\ m \notin present
  /\ scan' = "failed"
  /\ UNCHANGED <<treeVars, left, current, work, seen, found>>

\* Mutant of NotVisited: no visited set.
NotVisitedAny(x) == TRUE

NotVisited(x) == x \notin seen[current]

SkipVisited(x) ==
  /\ x \in work
  /\ ~NotVisited(x)
  /\ work' = work \ {x}
  /\ UNCHANGED <<treeVars, left, current, seen, found, scan>>

Visit(x) == seen' = [seen EXCEPT ![current] = @ \cup {x}]

\* An import that is in the manifest.
RecordDependency(x) ==
  /\ x \in work \cap Modules
  /\ NotVisited(x)
  /\ Visit(x)
  /\ found' = [found EXCEPT ![current] = @ \cup {x}]
  /\ work' = work \ {x}
  /\ UNCHANGED <<treeVars, left, current, scan>>

\* Mutant of Followed: only the direct imports count.
FollowedNever(x) == FALSE

\* Is the file of x read for more imports?
Followed(x) == x \in Others /\ sourceRoot /\ x \in present

FollowImport(x) ==
  /\ x \in work \cap Others
  /\ NotVisited(x)
  /\ Visit(x)
  /\ work' = (work \ {x}) \cup (IF Followed(x) THEN imports[x] ELSE {})
  /\ UNCHANGED <<treeVars, left, current, found, scan>>

EndScan ==
  /\ scan = "going" /\ current # NoModule
  /\ work = {}
  /\ left' = left \ {current}
  /\ current' = NoModule
  /\ UNCHANGED <<treeVars, work, seen, found, scan>>

ScanDone ==
  /\ scan = "going" /\ current = NoModule
  /\ left = {}
  /\ scan' = "done"
  /\ UNCHANGED <<treeVars, left, current, work, seen, found>>

ScanNext ==
  \/ \E m \in Modules : BeginScan(m) \/ SourceMissing(m)
  \/ \E x \in work : SkipVisited(x) \/ RecordDependency(x) \/ FollowImport(x)
  \/ EndScan
  \/ ScanDone

ScanSpec == ScanInit /\ [][ScanNext]_scanVars

-------------------------------------------------------------------------------
(* Properties.                                                             *)

\* May the walk read on at x?  What the command line allows, said of the
\* file tree alone.
Readable(x) == x \in Others \cap present /\ sourceRoot

\* A set of names that holds what m imports and what the readable files in it
\* import.  The least such set is what m reaches without passing a module of
\* the manifest.
Closed(m, Z) ==
  /\ imports[m] \subseteq Z
  /\ \A x \in Z : Readable(x) => imports[x] \subseteq Z

\* The result for each module is what it reaches without passing a module of
\* the manifest: nothing is missed and nothing is added, import cycles among
\* the other files and missing files notwithstanding.
DependenciesExact ==
  scan = "done" =>
    \A m \in Modules :
      /\ Closed(m, seen[m])
      /\ found[m] = seen[m] \cap Modules
      /\ \A Z \in SUBSET Names : Closed(m, Z) => found[m] \subseteq Z
===============================================================================
