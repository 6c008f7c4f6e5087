-------------------------------- MODULE UiWatcher --------------------------------
(***************************************************************************)
(* serve-binary-regions-ui: a background loop waits for an event on the    *)
(* watched inputs, sleeps 0.2 s, rebuilds and waits again, while           *)
(* tools/serve_static_no_cache.py serves whatever the link                 *)
(* result-binary-regions-ui points to.                                     *)
(*                                                                         *)
(* inotifywait runs without --monitor: it sets its watches up anew each    *)
(* time and exits at the first event, so that nobody watches during the    *)
(* sleep and the build.  nix (not under src/) copies the sources at some   *)
(* moment of the build; what is edited later is not in it.                 *)
(***************************************************************************)
EXTENDS Integers, FiniteSets

CONSTANTS
  Watched,      \* inputs in watch_inputs
  Unwatched,    \* inputs of the build that are not
  MaxEdits,     \* bound: edits in one run
  NoBuild       \* nothing is being built

Inputs == Watched \cup Unwatched

ASSUME InputsAssumption == Watched \cap Unwatched = {} /\ NoBuild \notin [Inputs -> Nat]
ASSUME EditsAssumption == MaxEdits \in Nat

VARIABLES
  tree,         \* version of each input in the working tree
  watcher,      \* "first" build, "starting" inotifywait, "watching", "settling",
                \* "building", "ended"
  copied,       \* the sources of the build under way, or NoBuild
  link,         \* the sources of the build the link points to
  serving,      \* is the server up?
  failed,       \* has the last build failed?
  missed        \* inputs edited since the last copy while nobody watched, or
                \* not watched at all

uiVars == <<tree, watcher, copied, link, serving, failed, missed>>

WatcherStates == {"first", "starting", "watching", "settling", "building", "ended"}

Building == watcher \in {"first", "building"}

UiTypeOK ==
  /\ tree \in [Inputs -> 0 .. MaxEdits]
  /\ watcher \in WatcherStates
  /\ copied \in [Inputs -> 0 .. MaxEdits] \cup {NoBuild}
  /\ link \in [Inputs -> 0 .. MaxEdits] \cup {NoBuild}
  /\ serving \in BOOLEAN /\ failed \in BOOLEAN
  /\ missed \subseteq Inputs
  /\ serving <=> link # NoBuild
  /\ copied # NoBuild => Building

UiInit ==
  /\ tree = [i \in Inputs |-> 0]
  /\ watcher = "first"
  /\ copied = NoBuild
  /\ link = NoBuild
  /\ serving = FALSE /\ failed = FALSE
  /\ missed = {}

-------------------------------------------------------------------------------
EditOf(i) ==
  /\ tree[i] < MaxEdits
  /\ tree' = [tree EXCEPT ![i] = @ + 1]
  /\ UNCHANGED <<copied, link, serving, failed>>

\* An edit of a watched input while inotifywait runs: it exits.
NoticedEdit(i) ==
  /\ i \in Watched
  /\ watcher \in {"starting", "watching"}
  /\ EditOf(i)
  /\ watcher' = "settling"
  /\ UNCHANGED missed

\* Any other edit; the watch on i may not be set up yet.
UnnoticedEdit(i) ==
  /\ ~(i \in Watched /\ watcher = "watching")
  /\ EditOf(i)
  /\ missed' = missed \cup {i}
  /\ UNCHANGED watcher

InotifyReady ==
  /\ watcher = "starting"
  /\ watcher' = "watching"
  /\ UNCHANGED <<tree, copied, link, serving, failed, missed>>

\* A watched path does not exist just now, or the limit of watches is reached:
\* the condition of the loop is false.
InotifyFails ==
  /\ watcher \in {"starting", "watching"}
  /\ watcher' = "ended"
  /\ UNCHANGED <<tree, copied, link, serving, failed, missed>>

\* Mutant of AfterSleep: the event was only there to be slept over.
AfterSleepWatches == "starting"

AfterSleep == "building"

Settled ==
  /\ watcher = "settling"
  /\ watcher' = AfterSleep
  /\ UNCHANGED <<tree, copied, link, serving, failed, missed>>

\* nix copies the sources.
CopySources ==
  /\ Building
  /\ copied = NoBuild
  /\ copied' = tree
  /\ missed' = {}
  /\ UNCHANGED <<tree, watcher, link, serving, failed>>

\* Mutant of Published: the link is replaced although the build has failed.
PublishedAlways(ok) == copied

Published(ok) == IF ok THEN copied ELSE link

AfterBuild(ok) ==
  /\ copied # NoBuild
  /\ copied' = NoBuild
  /\ link' = Published(ok)
  /\ failed' = ~ok

\* The build before the loop: the script ends if it fails (set -e).
FirstBuild(ok) ==
  /\ watcher = "first"
  /\ AfterBuild(ok)
  /\ watcher' = IF ok THEN "starting" ELSE "ended"
  /\ serving' = ok
  /\ UNCHANGED <<tree, missed>>

AfterRebuild(ok) == "starting"

Rebuild(ok) ==
  /\ watcher = "building"
  /\ AfterBuild(ok)
  /\ watcher' = AfterRebuild(ok)
  /\ UNCHANGED <<tree, serving, missed>>

Watcher ==
  \/ InotifyReady
  \/ Settled
  \/ CopySources
  \/ \E ok \in BOOLEAN : FirstBuild(ok) \/ Rebuild(ok)

UiNext ==
  \/ \E i \in Inputs : NoticedEdit(i) \/ UnnoticedEdit(i)
  \/ InotifyFails
  \/ Watcher

(* The loop runs and builds end, well or badly.                            *)
UiSpec == UiInit /\ [][UiNext]_uiVars /\ WF_uiVars(Watcher)

-------------------------------------------------------------------------------
(* Properties.                                                             *)

NotOlder(s, t) == \A i \in Inputs : t[i] <= s[i]

\* What is served comes from a build that succeeded and from sources that are
\* not older than what was served before; a failed build leaves it alone.
ServedNeverOlder ==
  [][link # NoBuild =>
       /\ link' # NoBuild
       /\ NotOlder(link', link)
       /\ failed' /\ copied # NoBuild => link' = link]_uiVars

\* While the loop waits for events, what is served differs from the tree only
\* in inputs that were edited while nobody watched or that nobody watches,
\* unless the last build has failed.
StaleOnlyIfMissed ==
  watcher \in {"starting", "watching"} /\ ~failed =>
    \A i \in Inputs : link[i] # tree[i] => i \in missed

\* Whatever was in the tree when the event arrived is served in the end, or the
\* build has failed.
NoticedIsServed ==
  \A i \in Inputs : \A v \in 1 .. MaxEdits :
    watcher = "settling" /\ tree[i] = v ~> failed \/ (link # NoBuild /\ link[i] >= v)
===============================================================================
