---------------------------- MODULE PatternCover ----------------------------
(***************************************************************************)
(* greedy_cover of tools/pattern_cover.py, a step for each window that it  *)
(* considers.  All windows have the length `size`, a window stands for its *)
(* first item.                                                             *)
(***************************************************************************)
EXTENDS Integers, Sequences, FiniteSets, Functions

CONSTANT minimum_uses
ASSUME MinimumAssumption == minimum_uses \in Nat \ {0}

VARIABLES
  size,
  candidates,   \* sequence of the windows of a key, each in ascending order
  covered,      \* the items that a placed window has claimed
  placements,   \* the windows placed in each round
  at,           \* candidate and window that come next
  chosen,       \* windows of this candidate, disjoint and unclaimed
  limit,        \* last item of the last of them
  best,         \* the most that a candidate of this round had so far
  running

coverVars == <<size, candidates, covered, placements, at, chosen, limit, best, running>>

Items(window) == window..(window + size - 1)
Covering(windows) == UNION {Items(w) : w \in windows}

CoverInit ==
  /\ covered = {} /\ placements = <<>>
  /\ at = <<1, 1>> /\ chosen = {} /\ limit = -1
  /\ best = {} /\ running = TRUE

More == at[1] \in DOMAIN candidates /\ at[2] \in DOMAIN candidates[at[1]]

\* Mutant of Fits: the window may start on the last item of the one before.
FitsTouching(window) == window >= limit /\ Items(window) \cap covered = {}

Fits(window) == window > limit /\ Items(window) \cap covered = {}

Consider ==
  /\ running /\ More
  /\ LET window == candidates[at[1]][at[2]]
     IN IF Fits(window)
        THEN chosen' = chosen \cup {window} /\ limit' = window + size - 1
        ELSE UNCHANGED <<chosen, limit>>
  /\ at' = <<at[1], at[2] + 1>>
  /\ UNCHANGED <<size, candidates, covered, placements, best, running>>

\* Mutant of Fresh: the scan goes on from where the last candidate ended.
FreshChosen == chosen' = {} /\ UNCHANGED limit

\* Each candidate is scanned from the start.
Fresh == chosen' = {} /\ limit' = -1

\* The first candidate with the most windows is the best.
NextCandidate ==
  /\ running /\ ~More /\ at[1] \in DOMAIN candidates
  /\ best' = IF at[1] = 1 \/ Cardinality(chosen) > Cardinality(best) THEN chosen ELSE best
  /\ at' = <<at[1] + 1, 1>> /\ Fresh
  /\ UNCHANGED <<size, candidates, covered, placements, running>>

RoundEnds == running /\ at[1] \notin DOMAIN candidates

Place ==
  /\ RoundEnds /\ Cardinality(best) >= minimum_uses
  /\ covered' = covered \cup Covering(best)
  /\ placements' = Append(placements, best)
  /\ at' = <<1, 1>> /\ Fresh /\ best' = {}
  /\ UNCHANGED <<size, candidates, running>>

Stop ==
  /\ RoundEnds /\ Cardinality(best) < minimum_uses
  /\ running' = FALSE
  /\ UNCHANGED <<size, candidates, covered, placements, at, chosen, limit, best>>

CoverNext == Consider \/ NextCandidate \/ Place \/ Stop

-----------------------------------------------------------------------------
\* One call of the function.
CoverSpec ==
  /\ size \in Nat \ {0} /\ candidates \in Seq(Seq(Nat)) /\ CoverInit
  /\ [][CoverNext]_coverVars

Apart(v, w) == v + size <= w \/ w + size <= v

\* Placed windows are disjoint, in a round and between rounds, there are
\* enough of them in each, and what is covered is what they cover: no line is
\* counted twice (greedy_cover).
CoverIsDisjoint ==
  /\ \A k \in DOMAIN placements : Cardinality(placements[k]) >= minimum_uses
  /\ \A k, m \in DOMAIN placements : \A v \in placements[k], w \in placements[m] :
       (k # m \/ v # w) => Apart(v, w)
  /\ covered = UNION {Covering(placements[k]) : k \in DOMAIN placements}

\* Each round places as many windows as any candidate has that are disjoint
\* and unclaimed, and the last one leaves none with enough of them: the scan
\* from the left misses nothing (greedy_cover).
PlacesMost ==
  [][LET Could(n) == \E k \in DOMAIN candidates : \E S \in SUBSET Range(candidates[k]) :
                        /\ Cardinality(S) = n /\ Covering(S) \cap covered = {}
                        /\ \A v, w \in S : v = w \/ Apart(v, w)
     IN /\ Len(placements') > Len(placements) => ~Could(Cardinality(best) + 1)
        /\ running' # running => ~Could(minimum_uses)]_coverVars
=============================================================================
