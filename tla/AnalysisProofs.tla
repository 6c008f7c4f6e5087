--------------------------- MODULE AnalysisProofs ---------------------------
(***************************************************************************)
(* Of the study of proof text: that the greedy cover covers no line twice  *)
(* and places the most windows, for any candidates and any length, and     *)
(* that the recovery of declarations is a closure, for any text.  Of the   *)
(* boundary manifest, for every program, every set of inlined instances    *)
(* and every order in which a set of children is walked: that its depths   *)
(* are least, and that a run of a program which is what the generator      *)
(* takes it for leaves an instance by one of the exits listed for it.      *)
(***************************************************************************)
EXTENDS ProofText, LevelManifest, FiniteSetTheorems, SequenceLemmas

Free(windows) ==
  /\ \A v, w \in windows : v = w \/ Apart(v, w)
  /\ \A w \in windows : Items(w) \cap covered = {}

CoverInv ==
  /\ size \in Nat \ {0} /\ candidates \in Seq(Seq(Nat))
  /\ at \in Nat \X Nat /\ limit \in Int
  /\ chosen \in SUBSET Int /\ best \in SUBSET Int
  /\ placements \in Seq(SUBSET Int)
  /\ \A w \in chosen : w + size - 1 <= limit
  /\ Free(chosen) /\ Free(best)
  /\ CoverIsDisjoint

\* Two windows without a common item lie one before the other.
LEMMA DisjointIsApart ==
  ASSUME NEW v \in Int, NEW w \in Int, size \in Nat \ {0}, Items(v) \cap Items(w) = {}
  PROVE  Apart(v, w)
<1>1. CASE v <= w
  <2>1. w \in Items(w)
    BY DEF Items
  <2>2. w \notin Items(v)
    BY <2>1
  <2> QED BY <1>1, <2>2 DEF Items, Apart
<1>2. CASE w <= v
  <2>1. v \in Items(v)
    BY DEF Items
  <2>2. v \notin Items(w)
    BY <2>1
  <2> QED BY <1>2, <2>2 DEF Items, Apart
<1> QED BY <1>1, <1>2

LEMMA CoverInitially ==
  ASSUME size \in Nat \ {0}, candidates \in Seq(Seq(Nat)), CoverInit
  PROVE  CoverInv
BY DEF CoverInit, CoverInv, Free, CoverIsDisjoint

\* A window that fits is behind all that are chosen.
LEMMA ConsiderStep == CoverInv /\ Consider => CoverInv'
<1> SUFFICES ASSUME CoverInv, Consider PROVE CoverInv'
  OBVIOUS
<1> DEFINE window == candidates[at[1]][at[2]]
<1>1. window \in Nat
  BY DEF CoverInv, Consider, More
<1>2. UNCHANGED <<size, candidates, covered, placements, best>> /\ at' = <<at[1], at[2] + 1>>
  BY DEF Consider
<1>3. Free(best)' /\ CoverIsDisjoint'
  BY <1>2 DEF CoverInv, Free, CoverIsDisjoint, Apart, Items, Covering
<1>4. CASE Fits(window)
  <2>1. chosen' = chosen \cup {window} /\ limit' = window + size - 1
    BY <1>4 DEF Consider
  <2>2. \A w \in chosen : w \in Int /\ w + size - 1 <= limit /\ limit < window
    BY <1>4 DEF CoverInv, Fits
  <2>3. \A w \in chosen : w + size - 1 <= limit'
    BY <1>1, <2>1, <2>2 DEF CoverInv
  <2>4. \A w \in chosen : Apart(w, window) /\ Apart(window, w)
    BY <1>1, <2>2 DEF CoverInv, Apart
  <2>5. \A v, w \in chosen' : v = w \/ Apart(v, w)
    BY <2>1, <2>4 DEF CoverInv, Free
  <2>6. \A w \in chosen' : Items(w) \cap covered = {}
    BY <1>4, <2>1 DEF CoverInv, Free, Fits
  <2>7. Free(chosen)'
    BY <1>2, <2>5, <2>6 DEF Free, Apart, Items
  <2>8. \A w \in chosen' : w + size' - 1 <= limit'
    BY <1>1, <1>2, <2>1, <2>3 DEF CoverInv
  <2>9. chosen' \in SUBSET Int /\ limit' \in Int
    <3>1. window \in Int /\ window + size - 1 \in Int /\ chosen \in SUBSET Int
      BY <1>1 DEF CoverInv
    <3> HIDE DEF window
    <3> QED BY <2>1, <3>1
  <2> QED BY <1>2, <1>3, <2>7, <2>8, <2>9 DEF CoverInv
<1>5. CASE ~Fits(window)
  <2>1. UNCHANGED <<chosen, limit>>
    BY <1>5 DEF Consider
  <2>2. Free(chosen)'
    BY <1>2, <2>1 DEF CoverInv, Free, Apart, Items
  <2> QED BY <1>2, <1>3, <2>1, <2>2 DEF CoverInv
<1> QED BY <1>4, <1>5

LEMMA NextCandidateStep == CoverInv /\ NextCandidate => CoverInv'
<1> SUFFICES ASSUME CoverInv, NextCandidate PROVE CoverInv'
  OBVIOUS
<1>1. UNCHANGED <<size, candidates, covered, placements>> /\ at' = <<at[1] + 1, 1>>
      /\ chosen' = {} /\ limit' = -1 /\ best' \in {chosen, best}
  BY DEF NextCandidate, Fresh
<1>2. Free(chosen)' /\ Free(best)'
  BY <1>1 DEF CoverInv, Free, Apart, Items
<1>3. CoverIsDisjoint'
  BY <1>1 DEF CoverInv, CoverIsDisjoint, Apart, Items, Covering
<1> QED BY <1>1, <1>2, <1>3 DEF CoverInv

\* What is placed was unclaimed, so it is apart from all that was placed.
LEMMA PlaceStep == CoverInv /\ Place => CoverInv'
<1> SUFFICES ASSUME CoverInv, Place PROVE CoverInv'
  OBVIOUS
<1>1. UNCHANGED <<size, candidates>> /\ at' = <<1, 1>> /\ chosen' = {} /\ limit' = -1
      /\ best' = {} /\ covered' = covered \cup Covering(best)
      /\ placements' = Append(placements, best) /\ Cardinality(best) >= minimum_uses
  BY DEF Place, Fresh
<1>2. Free(chosen)' /\ Free(best)'
  BY <1>1 DEF Free
<1> DEFINE n == Len(placements)
<1>3. /\ DOMAIN placements = 1..n /\ DOMAIN placements' = 1..(n + 1) /\ n \in Nat
      /\ placements'[n + 1] = best /\ placements' \in Seq(SUBSET Int)
      /\ \A k \in 1..n : placements'[k] = placements[k]
  BY <1>1 DEF CoverInv
<1>4. \A k \in 1..n : \A v \in placements[k] : \A w \in best : Apart(v, w) /\ Apart(w, v)
  <2> SUFFICES ASSUME NEW k \in 1..n, NEW v \in placements[k], NEW w \in best
               PROVE  Apart(v, w) /\ Apart(w, v)
    OBVIOUS
  <2>1. v \in Int /\ w \in Int /\ size \in Nat \ {0}
    BY <1>3 DEF CoverInv
  <2>2. Items(v) \subseteq covered
    BY <1>3 DEF CoverInv, CoverIsDisjoint, Covering
  <2>3. Items(v) \cap Items(w) = {}
    BY <2>2 DEF CoverInv, Free
  <2>4. Apart(v, w)
    BY <2>1, <2>3, DisjointIsApart
  <2> QED BY <2>4 DEF Apart
<1>5. CoverIsDisjoint'
  <2>1. \A k \in DOMAIN placements' : Cardinality(placements'[k]) >= minimum_uses
    BY <1>1, <1>3 DEF CoverInv, CoverIsDisjoint
  <2>2. ASSUME NEW k \in DOMAIN placements', NEW m \in DOMAIN placements',
               NEW v \in placements'[k], NEW w \in placements'[m], k # m \/ v # w
        PROVE  Apart(v, w)
    <3>1. CASE k = n + 1 /\ m = n + 1
      BY <1>3, <2>2, <3>1 DEF CoverInv, Free
    <3>2. CASE k \in 1..n /\ m = n + 1
      BY <1>3, <1>4, <3>2
    <3>3. CASE k = n + 1 /\ m \in 1..n
      BY <1>3, <1>4, <3>3
    <3>4. CASE k \in 1..n /\ m \in 1..n
      BY <1>3, <2>2, <3>4 DEF CoverInv, CoverIsDisjoint
    <3> QED BY <1>3, <3>1, <3>2, <3>3, <3>4
  <2>3. covered' = UNION {Covering(placements'[k]) : k \in DOMAIN placements'}
    <3>1. covered = UNION {Covering(placements[k]) : k \in 1..n}
      BY <1>3 DEF CoverInv, CoverIsDisjoint
    <3>2. covered' = (UNION {Covering(placements'[k]) : k \in 1..n}) \cup Covering(placements'[n + 1])
      BY <1>1, <1>3, <3>1
    <3>3. 1..(n + 1) = 1..n \cup {n + 1}
      BY <1>3
    <3> QED BY <1>3, <3>2, <3>3
  <2>4. (\A k, m \in DOMAIN placements : \A v \in placements[k], w \in placements[m] :
           (k # m \/ v # w) => Apart(v, w))'
    BY <1>1, <2>2 DEF Apart
  <2>5. (covered = UNION {Covering(placements[k]) : k \in DOMAIN placements})'
    BY <1>1, <2>3 DEF Covering, Items
  <2>6. (\A k \in DOMAIN placements : Cardinality(placements[k]) >= minimum_uses)'
    BY <2>1
  <2> QED BY <2>4, <2>5, <2>6 DEF CoverIsDisjoint
<1> QED BY <1>1, <1>2, <1>3, <1>5 DEF CoverInv

LEMMA CoverKept == CoverInv /\ [CoverNext]_coverVars => CoverInv'
<1> SUFFICES ASSUME CoverInv, [CoverNext]_coverVars PROVE CoverInv'
  OBVIOUS
<1>1. CASE Stop
  BY <1>1 DEF Stop, CoverInv, Free, CoverIsDisjoint, Apart, Items, Covering
<1>2. CASE UNCHANGED coverVars
  BY <1>2 DEF coverVars, CoverInv, Free, CoverIsDisjoint, Apart, Items, Covering
<1> QED BY <1>1, <1>2, ConsiderStep, NextCandidateStep, PlaceStep DEF CoverNext

\* No call of greedy_cover ever covers an item twice, whatever the candidates
\* are, how long their windows and how many uses are asked for.
THEOREM CoverIsAlwaysDisjoint == CoverSpec => []CoverIsDisjoint
<1>1. size \in Nat \ {0} /\ candidates \in Seq(Seq(Nat)) /\ CoverInit => CoverInv
  BY CoverInitially
<1>2. CoverInv => CoverIsDisjoint
  BY DEF CoverInv
<1> QED BY <1>1, <1>2, CoverKept, PTL DEF CoverSpec
-----------------------------------------------------------------------------
\* The scan from the left misses nothing.

\* The windows of a candidate as groups() lists them, in the order of the stream.
ListedInOrder ==
  \A k \in DOMAIN candidates : \A m, n \in DOMAIN candidates[k] :
    m < n => candidates[k][m] <= candidates[k][n]

Seen == {candidates[at[1]][n] : n \in 1..(at[2] - 1)}

\* No free windows among W are more than those in C, and none are as many that
\* all end before the last of C does.
AsMany(W, C) == \A S \in SUBSET W : Free(S) => Cardinality(S) <= Cardinality(C)
EndsFirst(W, C) ==
  \A S \in SUBSET W : Free(S) /\ (\A v \in S : v + size - 1 < limit)
                        => Cardinality(S) < Cardinality(C)

ScanIsBest ==
  /\ at[2] \in 1..(Len(candidates[at[1]]) + 1)
  /\ chosen \subseteq Seen
  /\ limit = -1 \/ (EndsFirst(Seen, chosen) /\ \E u \in Seen : limit = u + size - 1)
  /\ AsMany(Seen, chosen)

MostInv ==
  /\ ListedInOrder
  /\ IsFiniteSet(chosen) /\ IsFiniteSet(best) /\ at[1] \in Nat \ {0}
  /\ \A k \in DOMAIN candidates : k < at[1] => AsMany(Range(candidates[k]), best)
  /\ at[1] \in DOMAIN candidates => ScanIsBest

\* A window more among those seen.
LEMMA OneWindowMore ==
  ASSUME size \in Nat \ {0}, limit \in Int, NEW W \in SUBSET Nat, IsFiniteSet(W),
         NEW C \in SUBSET W, NEW w \in Nat, \A v \in W : v <= w, AsMany(W, C),
         limit = -1 \/ (EndsFirst(W, C) /\ \E u \in W : limit = u + size - 1)
  PROVE  /\ Fits(w) /\ (\A v \in C : v + size - 1 <= limit) =>
              /\ AsMany(W \cup {w}, C \cup {w})
              /\ \A S \in SUBSET (W \cup {w}) :
                   Free(S) /\ (\A v \in S : v + size - 1 < w + size - 1)
                     => Cardinality(S) < Cardinality(C \cup {w})
         /\ ~Fits(w) => /\ AsMany(W \cup {w}, C)
                        /\ limit = -1 \/ EndsFirst(W \cup {w}, C)
<1>1. IsFiniteSet(C) /\ Cardinality(C) \in Nat
  BY FS_Subset, FS_CardinalityType
<1>2. ASSUME NEW S \in SUBSET (W \cup {w}), Free(S), w \in S
      PROVE  /\ S \ {w} \in SUBSET W /\ Free(S \ {w})
             /\ \A v \in S \ {w} : v + size <= w
             /\ Cardinality(S) = Cardinality(S \ {w}) + 1
             /\ Cardinality(S \ {w}) \in Nat
  <2>1. S \ {w} \in SUBSET W /\ Free(S \ {w})
    BY <1>2 DEF Free
  <2>2. ASSUME NEW v \in S \ {w} PROVE v + size <= w
    <3>1. v \in Nat /\ v <= w /\ Apart(v, w)
      BY <1>2, <2>2 DEF Free
    <3> QED BY <3>1 DEF Apart
  <2>3. IsFiniteSet(S \ {w}) /\ w \notin S \ {w} /\ S = (S \ {w}) \cup {w}
    BY <1>2, <2>1, FS_Subset
  <2>4. Cardinality((S \ {w}) \cup {w}) = Cardinality(S \ {w}) + 1
    BY <2>3, FS_AddElement
  <2> QED BY <2>1, <2>2, <2>3, <2>4, FS_CardinalityType
<1>3. ASSUME NEW S \in SUBSET (W \cup {w}), w \notin S
      PROVE  S \in SUBSET W /\ Cardinality(S) \in Nat
  BY <1>3, FS_Subset, FS_CardinalityType
<1>4. ASSUME Fits(w), \A v \in C : v + size - 1 <= limit
      PROVE  /\ AsMany(W \cup {w}, C \cup {w})
             /\ \A S \in SUBSET (W \cup {w}) :
                  Free(S) /\ (\A v \in S : v + size - 1 < w + size - 1)
                    => Cardinality(S) < Cardinality(C \cup {w})
  <2>1. w \notin C
    <3>1. w > limit
      BY <1>4 DEF Fits
    <3>2. ~(w + size - 1 <= limit)
      BY <3>1
    <3> QED BY <1>4, <3>2
  <2>2. Cardinality(C \cup {w}) = Cardinality(C) + 1
    BY <1>1, <2>1, FS_AddElement
  <2>3. ASSUME NEW S \in SUBSET (W \cup {w}), Free(S)
        PROVE  Cardinality(S) <= Cardinality(C \cup {w})
    <3>1. CASE w \in S
      <4>1. Cardinality(S \ {w}) <= Cardinality(C)
        BY <1>2, <2>3, <3>1 DEF AsMany
      <4> QED BY <1>1, <1>2, <2>2, <2>3, <3>1, <4>1
    <3>2. CASE w \notin S
      BY <1>1, <1>3, <2>2, <2>3, <3>2 DEF AsMany
    <3> QED BY <3>1, <3>2
  <2>4. ASSUME NEW S \in SUBSET (W \cup {w}), Free(S), \A v \in S : v + size - 1 < w + size - 1
        PROVE  Cardinality(S) < Cardinality(C \cup {w})
    <3>1. w \notin S
      BY <2>4
    <3> QED BY <1>1, <1>3, <2>2, <2>4, <3>1 DEF AsMany
  <2> QED BY <2>3, <2>4 DEF AsMany
<1>5. ASSUME ~Fits(w)
      PROVE  AsMany(W \cup {w}, C) /\ (limit = -1 \/ EndsFirst(W \cup {w}, C))
  <2>1. CASE Items(w) \cap covered # {}
    <3>1. ASSUME NEW S \in SUBSET (W \cup {w}), Free(S) PROVE S \in SUBSET W
      <4>1. w \notin S
        BY <2>1, <3>1 DEF Free
      <4> QED BY <4>1
    <3> QED BY <3>1 DEF AsMany, EndsFirst
  <2>2. CASE Items(w) \cap covered = {}
    <3>1. w <= limit /\ limit # -1
      BY <1>5, <2>2 DEF Fits
    <3>2. PICK u \in W : limit = u + size - 1
      BY <3>1
    <3>3. limit <= w + size - 1
      <4>1. u \in Nat /\ u <= w
        BY <3>2
      <4> QED BY <3>2, <4>1
    <3>4. ASSUME NEW S \in SUBSET (W \cup {w}), Free(S) PROVE Cardinality(S) <= Cardinality(C)
      <4>1. CASE w \in S
        <5>0. /\ S \ {w} \in SUBSET W /\ Free(S \ {w})
              /\ \A v \in S \ {w} : v + size <= w
              /\ Cardinality(S) = Cardinality(S \ {w}) + 1
              /\ Cardinality(S \ {w}) \in Nat
          BY <1>2, <3>4, <4>1, Zenon
        <5>1. \A v \in S \ {w} : v + size - 1 < limit
          <6> SUFFICES ASSUME NEW v \in S \ {w} PROVE v + size - 1 < limit
            OBVIOUS
          <6>1. v \in Nat /\ v + size <= w
            BY <5>0
          <6> QED BY <3>1, <6>1
        <5>2. Cardinality(S \ {w}) < Cardinality(C)
          BY <3>1, <5>0, <5>1 DEF EndsFirst
        <5> QED BY <1>1, <5>0, <5>2
      <4>2. CASE w \notin S
        BY <1>3, <3>4, <4>2 DEF AsMany
      <4> QED BY <4>1, <4>2
    <3>5. ASSUME NEW S \in SUBSET (W \cup {w}), Free(S), \A v \in S : v + size - 1 < limit
          PROVE  Cardinality(S) < Cardinality(C)
      <4>1. w \notin S
        <5> SUFFICES ASSUME w \in S PROVE FALSE
          OBVIOUS
        <5>1. w + size - 1 < limit
          BY <3>5
        <5> QED BY <3>3, <5>1
      <4> QED BY <1>3, <3>1, <3>5, <4>1 DEF EndsFirst
    <3> QED BY <3>4, <3>5 DEF AsMany, EndsFirst
  <2> QED BY <2>1, <2>2
<1> QED BY <1>4, <1>5
LEMMA SeenIs ==
  ASSUME at[2] \in Nat \ {0}, at[1] \in DOMAIN candidates, candidates \in Seq(Seq(Nat)),
         at[2] - 1 <= Len(candidates[at[1]])
  PROVE  Seen \in SUBSET Nat /\ IsFiniteSet(Seen)
<1> DEFINE f == [n \in 1..(at[2] - 1) |-> candidates[at[1]][n]]
<1>1. candidates[at[1]] \in Seq(Nat)
  OBVIOUS
<1>2. \A n \in 1..(at[2] - 1) : candidates[at[1]][n] \in Nat
  <2> DEFINE windows == candidates[at[1]]
  <2>1. windows \in Seq(Nat) /\ at[2] - 1 <= Len(windows)
    BY <1>1
  <2>2. \A n \in 1..Len(windows) : windows[n] \in Nat
    BY <1>1
  <2> HIDE DEF windows
  <2>3. \A n \in 1..(at[2] - 1) : n \in 1..Len(windows)
    BY <2>1
  <2>4. \A n \in 1..(at[2] - 1) : windows[n] \in Nat
    BY <2>2, <2>3
  <2> QED BY <2>4 DEF windows
<1>3. IsFiniteSet(1..(at[2] - 1))
  <2>1. at[2] - 1 \in Int /\ 1 \in Int
    OBVIOUS
  <2> HIDE DEF f
  <2> QED BY <2>1, FS_Interval
<1>4. Seen = {f[n] : n \in 1..(at[2] - 1)}
  BY DEF Seen
<1>5. IsFiniteSet({f[n] : n \in 1..(at[2] - 1)})
  <2>1. f \in [1..(at[2] - 1) -> Nat]
    BY <1>2
  <2>2. f \in Surjection(1..(at[2] - 1), {f[n] : n \in 1..(at[2] - 1)})
    BY <2>1 DEF Surjection
  <2> HIDE DEF f
  <2> QED BY <1>3, <2>2, FS_Surjection
<1> QED BY <1>2, <1>4, <1>5 DEF Seen

LEMMA WindowsFinite ==
  ASSUME NEW windows \in Seq(Nat)
  PROVE  IsFiniteSet(Range(windows))
<1>1. DOMAIN windows = 1..Len(windows) /\ Len(windows) \in Int /\ 1 \in Int
  OBVIOUS
<1>2. IsFiniteSet(DOMAIN windows)
  BY <1>1, FS_Interval
<1>3. windows \in Surjection(DOMAIN windows, Range(windows))
  <2>1. windows = [i \in DOMAIN windows |-> windows[i]]
    OBVIOUS
  <2> QED BY <2>1 DEF Surjection, Range
<1> QED BY <1>2, <1>3, FS_Surjection

LEMMA MoreAreAsMany ==
  ASSUME NEW W, IsFiniteSet(W), NEW C, NEW D, AsMany(W, C),
         IsFiniteSet(C), IsFiniteSet(D), Cardinality(C) <= Cardinality(D)
  PROVE  AsMany(W, D)
<1>1. Cardinality(C) \in Nat /\ Cardinality(D) \in Nat
  BY FS_CardinalityType
<1>2. ASSUME NEW S \in SUBSET W, Free(S) PROVE Cardinality(S) <= Cardinality(D)
  <2>1. Cardinality(S) \in Nat
    BY FS_Subset, FS_CardinalityType
  <2>2. Cardinality(S) <= Cardinality(C)
    BY <1>2 DEF AsMany
  <2> QED BY <1>1, <2>1, <2>2
<1> QED BY <1>2 DEF AsMany

\* A scan that has seen nothing.
LEMMA NothingToPlace == AsMany({}, {})
<1>1. Cardinality({}) = 0
  BY FS_EmptySet
<1>2. ASSUME NEW S \in SUBSET {} PROVE Cardinality(S) = 0
  <2>1. S = {}
    OBVIOUS
  <2> QED BY <1>1, <2>1
<1> QED BY <1>1, <1>2 DEF AsMany

\* A scan that has seen everything.
LEMMA ScanEnds ==
  ASSUME CoverInv, MostInv, at[1] \in DOMAIN candidates, ~More
  PROVE  AsMany(Range(candidates[at[1]]), chosen)
<1> DEFINE windows == candidates[at[1]]
<1>1. windows \in Seq(Nat) /\ DOMAIN windows = 1..Len(windows) /\ Len(windows) \in Nat
  BY DEF CoverInv
<1>2. at[2] = Len(windows) + 1
  BY <1>1 DEF MostInv, ScanIsBest, More
<1>3. Seen = {windows[n] : n \in 1..Len(windows)}
  BY <1>1, <1>2 DEF Seen
<1>4. Range(windows) = {windows[n] : n \in 1..Len(windows)}
  BY <1>1 DEF Range
<1> QED BY <1>3, <1>4 DEF MostInv, ScanIsBest

LEMMA MostByConsider == CoverInv /\ MostInv /\ Consider => MostInv'
<1> SUFFICES ASSUME CoverInv, MostInv, Consider PROVE MostInv'
  OBVIOUS
<1> DEFINE windows == candidates[at[1]]
           window == candidates[at[1]][at[2]]
<1>1. /\ UNCHANGED <<size, candidates, covered, best>> /\ at' = <<at[1], at[2] + 1>>
      /\ at[1] \in DOMAIN candidates /\ at[2] \in DOMAIN windows
      /\ IF Fits(window)
         THEN chosen' = chosen \cup {window} /\ limit' = window + size - 1
         ELSE UNCHANGED <<chosen, limit>>
  BY DEF Consider, More
<1>2. windows \in Seq(Nat) /\ DOMAIN windows = 1..Len(windows) /\ Len(windows) \in Nat /\ window \in Nat
  BY <1>1 DEF CoverInv
<1>3. at[2] \in Nat \ {0} /\ at[2] <= Len(windows) /\ ScanIsBest
  BY <1>1, <1>2 DEF MostInv
<1>4. Seen \in SUBSET Nat /\ IsFiniteSet(Seen)
  BY <1>1, <1>2, <1>3, SeenIs DEF CoverInv
<1>5. \A v \in Seen : v <= window
  <2> SUFFICES ASSUME NEW n \in 1..(at[2] - 1) PROVE windows[n] <= window
    BY DEF Seen
  <2>1. n \in DOMAIN windows /\ n < at[2]
    BY <1>2, <1>3
  <2> QED BY <1>1, <2>1 DEF MostInv, ListedInOrder
<1>6. Seen' = Seen \cup {window}
  <2>1. Seen' = {windows[n] : n \in 1..((at[2] + 1) - 1)}
    BY <1>1 DEF Seen
  <2>2. 1..((at[2] + 1) - 1) = 1..(at[2] - 1) \cup {at[2]}
    BY <1>3
  <2> QED BY <2>1, <2>2 DEF Seen
<1>7. /\ \A W, C : AsMany(W, C)' <=> AsMany(W, C)
      /\ ListedInOrder' <=> ListedInOrder
      /\ \A S : Free(S)' <=> Free(S)
  BY <1>1 DEF AsMany, Free, ListedInOrder, Apart, Items
<1>8. ScanIsBest'
  <2>1. at'[2] \in 1..(Len(candidates'[at'[1]]) + 1)
    BY <1>1, <1>2, <1>3
  <2>2. chosen \subseteq Seen /\ AsMany(Seen, chosen) /\ limit \in Int /\ size \in Nat \ {0}
        /\ (limit = -1 \/ (EndsFirst(Seen, chosen) /\ \E u \in Seen : limit = u + size - 1))
        /\ \A v \in chosen : v + size - 1 <= limit
    BY <1>3 DEF ScanIsBest, CoverInv
  <2>3. /\ Fits(window) =>
             /\ AsMany(Seen \cup {window}, chosen \cup {window})
             /\ \A S \in SUBSET (Seen \cup {window}) :
                  Free(S) /\ (\A v \in S : v + size - 1 < window + size - 1)
                    => Cardinality(S) < Cardinality(chosen \cup {window})
        /\ ~Fits(window) => /\ AsMany(Seen \cup {window}, chosen)
                            /\ limit = -1 \/ EndsFirst(Seen \cup {window}, chosen)
    <3> HIDE DEF window, windows
    <3> QED BY <1>2, <1>4, <1>5, <2>2, OneWindowMore
  <2>4. CASE Fits(window)
    <3>1. chosen' = chosen \cup {window} /\ limit' = window + size - 1 /\ size' = size
      BY <1>1, <2>4
    <3>2. EndsFirst(Seen, chosen)'
      BY <1>6, <1>7, <2>3, <2>4, <3>1 DEF EndsFirst
    <3>3. AsMany(Seen, chosen)'
      BY <1>6, <1>7, <2>3, <2>4, <3>1
    <3>4. chosen' \subseteq Seen' /\ \E u \in Seen' : limit' = u + size' - 1
      BY <1>6, <2>2, <3>1
    <3> QED BY <2>1, <3>2, <3>3, <3>4 DEF ScanIsBest
  <2>5. CASE ~Fits(window)
    <3>1. chosen' = chosen /\ limit' = limit /\ size' = size
      BY <1>1, <2>5
    <3>2. limit = -1 \/ EndsFirst(Seen, chosen)'
      BY <1>6, <1>7, <2>3, <2>5, <3>1 DEF EndsFirst
    <3>3. AsMany(Seen, chosen)'
      BY <1>6, <1>7, <2>3, <2>5, <3>1
    <3>4. chosen' \subseteq Seen' /\ (limit = -1 \/ \E u \in Seen' : limit' = u + size' - 1)
      BY <1>6, <2>2, <3>1
    <3> QED BY <2>1, <3>1, <3>2, <3>3, <3>4 DEF ScanIsBest
  <2> QED BY <2>4, <2>5
<1>9. IsFiniteSet(chosen')
  BY <1>1, FS_AddElement DEF MostInv
<1> QED BY <1>1, <1>7, <1>8, <1>9 DEF MostInv

LEMMA MostByNextCandidate == CoverInv /\ MostInv /\ NextCandidate => MostInv'
<1> SUFFICES ASSUME CoverInv, MostInv, NextCandidate PROVE MostInv'
  OBVIOUS
<1>1. /\ UNCHANGED <<size, candidates, covered>> /\ at' = <<at[1] + 1, 1>>
      /\ chosen' = {} /\ limit' = -1 /\ ~More /\ at[1] \in DOMAIN candidates
      /\ best' = IF at[1] = 1 \/ Cardinality(chosen) > Cardinality(best) THEN chosen ELSE best
  BY DEF NextCandidate, Fresh
<1>2. AsMany(Range(candidates[at[1]]), chosen)
  BY <1>1, ScanEnds
<1>3. at[1] \in Nat \ {0} /\ at'[1] = at[1] + 1 /\ at'[2] = 1
  BY <1>1 DEF MostInv
<1>4. \A W, C : AsMany(W, C)' <=> AsMany(W, C)
  BY <1>1 DEF AsMany, Free, Apart, Items
<1>5. ASSUME NEW k \in DOMAIN candidates, k < at[1] + 1
      PROVE  AsMany(Range(candidates[k]), best')
  <2>1. k \in Nat /\ candidates[k] \in Seq(Nat)
    BY DEF CoverInv
  <2>2. IsFiniteSet(Range(candidates[k]))
    BY <2>1, WindowsFinite
  <2>3. IsFiniteSet(chosen) /\ IsFiniteSet(best)
        /\ Cardinality(chosen) \in Nat /\ Cardinality(best) \in Nat
    BY FS_CardinalityType DEF MostInv
  <2>4. CASE at[1] = 1 \/ Cardinality(chosen) > Cardinality(best)
    <3>1. best' = chosen
      BY <1>1, <2>4
    <3>2. CASE k = at[1]
      BY <1>2, <3>1, <3>2
    <3>3. CASE k < at[1]
      <4>1. AsMany(Range(candidates[k]), best)
        BY <3>3 DEF MostInv
      <4>2. k # 0
        BY DEF CoverInv
      <4>3. Cardinality(best) <= Cardinality(chosen)
        BY <1>3, <2>1, <2>3, <2>4, <3>3, <4>2
      <4> QED BY <2>2, <2>3, <3>1, <4>1, <4>3, MoreAreAsMany
    <3> QED BY <1>3, <1>5, <2>1, <3>2, <3>3
  <2>5. CASE ~(at[1] = 1 \/ Cardinality(chosen) > Cardinality(best))
    <3>1. best' = best /\ Cardinality(chosen) <= Cardinality(best)
      BY <1>1, <2>3, <2>5
    <3>2. CASE k = at[1]
      BY <1>2, <2>2, <2>3, <3>1, <3>2, MoreAreAsMany
    <3>3. CASE k < at[1]
      BY <3>1, <3>3 DEF MostInv
    <3> QED BY <1>3, <1>5, <2>1, <3>2, <3>3
  <2> QED BY <2>4, <2>5
<1>6. ASSUME at'[1] \in DOMAIN candidates' PROVE ScanIsBest'
  <2>1. candidates'[at'[1]] \in Seq(Nat)
    BY <1>1, <1>6 DEF CoverInv
  <2>2. Len(candidates'[at'[1]]) \in Nat
    BY <2>1
  <2>3. at'[2] \in 1..(Len(candidates'[at'[1]]) + 1)
    BY <1>3, <2>2
  <2>4. Seen' = {}
    BY <1>3 DEF Seen
  <2>5. AsMany(Seen, chosen)'
    BY <1>1, <1>4, <2>4, NothingToPlace
  <2> QED BY <1>1, <2>3, <2>4, <2>5 DEF ScanIsBest
<1>7. ListedInOrder'
  BY <1>1 DEF MostInv, ListedInOrder
<1>8. IsFiniteSet(chosen') /\ IsFiniteSet(best')
  BY <1>1, FS_EmptySet DEF MostInv
<1>9. \A k \in DOMAIN candidates' : k < at'[1] => AsMany(Range(candidates[k]), best)'
  BY <1>1, <1>3, <1>4, <1>5
<1> QED BY <1>1, <1>3, <1>6, <1>7, <1>8, <1>9 DEF MostInv

LEMMA MostByPlace == CoverInv /\ MostInv /\ Place => MostInv'
<1> SUFFICES ASSUME CoverInv, MostInv, Place PROVE MostInv'
  OBVIOUS
<1>1. /\ UNCHANGED <<size, candidates>> /\ at' = <<1, 1>>
      /\ chosen' = {} /\ limit' = -1 /\ best' = {}
  BY DEF Place, Fresh
<1>2. ASSUME at'[1] \in DOMAIN candidates' PROVE ScanIsBest'
  <2>1. candidates'[at'[1]] \in Seq(Nat)
    BY <1>1, <1>2 DEF CoverInv
  <2>2. Len(candidates'[at'[1]]) \in Nat
    BY <2>1
  <2>3. at'[2] \in 1..(Len(candidates'[at'[1]]) + 1)
    BY <1>1, <2>2
  <2>4. Seen' = {}
    BY <1>1 DEF Seen
  <2>5. AsMany(Seen, chosen)'
    <3>1. ASSUME NEW S \in SUBSET {} PROVE Cardinality(S) = 0 /\ Cardinality({}) = 0
      <4>1. S = {}
        OBVIOUS
      <4> QED BY <4>1, FS_EmptySet
    <3> QED BY <1>1, <2>4, <3>1 DEF AsMany
  <2> QED BY <1>1, <2>3, <2>4, <2>5 DEF ScanIsBest
<1>3. ListedInOrder'
  BY <1>1 DEF MostInv, ListedInOrder
<1>4. IsFiniteSet(chosen') /\ IsFiniteSet(best')
  BY <1>1, FS_EmptySet
<1>5. \A k \in DOMAIN candidates' : ~(k < at'[1])
  BY <1>1 DEF CoverInv
<1> QED BY <1>1, <1>2, <1>3, <1>4, <1>5 DEF MostInv

LEMMA MostInitially ==
  ASSUME CoverInit, ListedInOrder, candidates \in Seq(Seq(Nat))
  PROVE  MostInv
<1>1. at = <<1, 1>> /\ chosen = {} /\ limit = -1 /\ best = {}
  BY DEF CoverInit
<1>2. ASSUME at[1] \in DOMAIN candidates PROVE ScanIsBest
  <2>1. candidates[at[1]] \in Seq(Nat)
    BY <1>2
  <2>2. Len(candidates[at[1]]) \in Nat
    BY <2>1
  <2>3. at[2] \in 1..(Len(candidates[at[1]]) + 1)
    BY <1>1, <2>2
  <2>4. Seen = {}
    BY <1>1 DEF Seen
  <2> QED BY <1>1, <2>3, <2>4, NothingToPlace DEF ScanIsBest
<1>3. \A k \in DOMAIN candidates : ~(k < at[1])
  BY <1>1
<1> QED BY <1>1, <1>2, <1>3, FS_EmptySet DEF MostInv

\* When the round ends, best has the most windows of all candidates.
LEMMA BestIsMost ==
  ASSUME CoverInv, MostInv, RoundEnds,
         NEW n \in Nat, n > Cardinality(best),
         NEW k \in DOMAIN candidates, NEW S \in SUBSET Range(candidates[k]),
         Cardinality(S) = n, Covering(S) \cap covered = {},
         \A v, w \in S : v = w \/ Apart(v, w)
  PROVE  FALSE
<1>1. Cardinality(best) \in Nat
  BY FS_CardinalityType DEF MostInv
<1>2. Free(S)
  BY DEF Free, Covering
<1>3. k < at[1]
  <2>1. DOMAIN candidates = 1..Len(candidates) /\ Len(candidates) \in Nat
    BY DEF CoverInv
  <2>2. at[1] \in Nat \ {0} /\ at[1] \notin 1..Len(candidates)
    BY <2>1 DEF MostInv, RoundEnds
  <2> QED BY <2>1, <2>2
<1>4. Cardinality(S) <= Cardinality(best)
  BY <1>2, <1>3 DEF MostInv, AsMany
<1> QED BY <1>1, <1>4

LEMMA MostInvKept == CoverInv /\ MostInv /\ [CoverNext]_coverVars => MostInv'
<1> SUFFICES ASSUME CoverInv, MostInv, [CoverNext]_coverVars PROVE MostInv'
  OBVIOUS
<1>1. CASE UNCHANGED <<size, candidates, covered, at, chosen, limit, best>>
  BY <1>1 DEF MostInv, ListedInOrder, AsMany, ScanIsBest, EndsFirst, Seen, Free, Apart, Items
<1>2. CASE Stop
  BY <1>1, <1>2 DEF Stop
<1>3. CASE UNCHANGED coverVars
  BY <1>1, <1>3 DEF coverVars
<1> QED
  BY <1>2, <1>3, MostByConsider, MostByNextCandidate, MostByPlace DEF CoverNext

\* Each round of a call of greedy_cover places the most windows that any
\* candidate has, and the last one leaves none with enough, whatever the
\* candidates are, if each lists its windows in order, as groups() does.
THEOREM CoverPlacesMost == CoverSpec /\ ListedInOrder => PlacesMost
<1>1. size \in Nat \ {0} /\ candidates \in Seq(Seq(Nat)) /\ CoverInit /\ ListedInOrder
        => CoverInv /\ MostInv
  BY CoverInitially, MostInitially
<1>2. CoverInv /\ MostInv /\ [CoverNext]_coverVars => CoverInv' /\ MostInv'
  BY CoverKept, MostInvKept
<1> DEFINE
  Could(n) == \E k \in DOMAIN candidates : \E S \in SUBSET Range(candidates[k]) :
                /\ Cardinality(S) = n /\ Covering(S) \cap covered = {}
                /\ \A v, w \in S : v = w \/ Apart(v, w)
<1>3. CoverInv /\ MostInv /\ [CoverNext]_coverVars =>
        [/\ Len(placements') > Len(placements) => ~Could(Cardinality(best) + 1)
         /\ running' # running => ~Could(minimum_uses)]_coverVars
  <2> SUFFICES ASSUME CoverInv, MostInv, CoverNext
               PROVE  /\ Len(placements') > Len(placements) => ~Could(Cardinality(best) + 1)
                      /\ running' # running => ~Could(minimum_uses)
    OBVIOUS
  <2>1. Cardinality(best) \in Nat
    BY FS_CardinalityType DEF MostInv
  <2>2. Len(placements') > Len(placements) => Place
    <3>1. Len(placements) \in Nat
      BY DEF CoverInv
    <3> QED BY <3>1 DEF CoverNext, Consider, NextCandidate, Stop
  <2>3. running' # running => Stop
    BY DEF CoverNext, Consider, NextCandidate, Place
  <2>4. ASSUME Place PROVE ~Could(Cardinality(best) + 1)
    <3>1. Cardinality(best) + 1 \in Nat /\ Cardinality(best) + 1 > Cardinality(best)
      BY <2>1
    <3> QED BY <2>4, <3>1, BestIsMost DEF Place
  <2>5. ASSUME Stop PROVE ~Could(minimum_uses)
    <3>1. minimum_uses \in Nat /\ minimum_uses > Cardinality(best) /\ RoundEnds
      BY <2>1, <2>5, MinimumAssumption DEF Stop
    <3> QED BY <3>1, BestIsMost
  <2> HIDE DEF Could
  <2> QED BY <2>2, <2>3, <2>4, <2>5
<1> QED BY <1>1, <1>2, <1>3, PTL DEF CoverSpec, PlacesMost

-----------------------------------------------------------------------------
\* The recovery of the declarations behind opaque ones.

SourceNames == {row.name : row \in source_rows}
Anchored(S) ==
  \A anchor \in anchors : \A row \in source_rows :
    anchor.first \in row.first..row.last => row.name \in S
ClosedText(S) == (SourceNames \ PrimedNames) \cap Bodies(S) \subseteq S

\* Nothing is selected that a set with the anchors and closed under mention
\* could do without.
RecoveryInv ==
  step \in {"sweep", "count"} =>
    /\ selected \subseteq SourceNames
    /\ Anchored(selected)
    /\ \A S \in SUBSET SourceNames : Anchored(S) /\ ClosedText(S) => selected \subseteq S
    /\ step = "count" => ClosedText(selected)

\* More names have more text.
LEMMA BodiesMonotone ==
  ASSUME NEW S, NEW T, S \subseteq T
  PROVE  Bodies(S) \subseteq Bodies(T)
BY DEF Bodies

LEMMA AnchorStep == Anchor => RecoveryInv'
<1> SUFFICES ASSUME Anchor PROVE RecoveryInv'
  OBVIOUS
<1>1. UNCHANGED <<text, rows>> /\ step' = "sweep"
      /\ selected' = {row.name : row \in {r \in source_rows :
                       \E anchor \in anchors : anchor.first \in r.first..r.last}}
  BY DEF Anchor
<1>2. source_rows' = source_rows /\ anchors' = anchors
  BY <1>1 DEF source_rows, anchors, SourceRow, Headers
<1> HIDE DEF Anchor
<1>3. (selected \subseteq SourceNames)' /\ Anchored(selected)'
  BY <1>1, <1>2 DEF SourceNames, Anchored
<1>4. (\A S \in SUBSET SourceNames : Anchored(S) /\ ClosedText(S) => selected \subseteq S)'
  BY <1>1, <1>2 DEF SourceNames, Anchored
<1> QED BY <1>1, <1>3, <1>4 DEF RecoveryInv

LEMMA SweepStep == RecoveryInv /\ Sweep => RecoveryInv'
<1> SUFFICES ASSUME RecoveryInv, Sweep PROVE RecoveryInv'
  OBVIOUS
<1>1. UNCHANGED <<step, text, rows>> /\ step = "sweep" /\ selected' = selected \cup Found
  BY DEF Sweep
<1>2. source_rows' = source_rows /\ anchors' = anchors
  BY <1>1 DEF source_rows, anchors, SourceRow, Headers
<1>3. Found = (SourceNames \ PrimedNames) \cap Bodies(selected)
  BY DEF Found, SourceNames
<1>4. ASSUME NEW S \in SUBSET SourceNames, Anchored(S), ClosedText(S)
      PROVE  selected \cup Found \subseteq S
  <2>1. selected \subseteq S
    BY <1>1, <1>4 DEF RecoveryInv
  <2>2. Bodies(selected) \subseteq Bodies(S)
    BY <2>1, BodiesMonotone
  <2> QED BY <1>3, <1>4, <2>1, <2>2 DEF ClosedText
<1>5. (selected \subseteq SourceNames)' /\ Anchored(selected)'
  BY <1>1, <1>2, <1>3 DEF RecoveryInv, SourceNames, Anchored
<1>6. (\A S \in SUBSET SourceNames : Anchored(S) /\ ClosedText(S) => selected \subseteq S)'
  BY <1>1, <1>2, <1>4 DEF SourceNames, Anchored, ClosedText, Bodies
<1> QED BY <1>1, <1>5, <1>6 DEF RecoveryInv

\* The rows that are recovered are not private, so the anchors stay.
LEMMA ExpandStep == RecoveryInv /\ Expand => RecoveryInv'
<1> SUFFICES ASSUME RecoveryInv, Expand PROVE RecoveryInv'
  OBVIOUS
<1>1. UNCHANGED <<text, selected>> /\ step = "sweep" /\ step' = "count"
      /\ rows' = rows \cup Recovered /\ Found \subseteq selected
  BY DEF Expand, NothingNew
<1>2. source_rows' = source_rows
  BY <1>1 DEF source_rows, SourceRow, Headers
<1>3. \A row \in Recovered : ~row.private
  BY DEF Recovered
<1>4. anchors' = anchors
  BY <1>1, <1>3 DEF anchors
<1>5. ClosedText(selected)
  BY <1>1 DEF ClosedText, Found, SourceNames
<1> QED BY <1>1, <1>2, <1>4, <1>5 DEF RecoveryInv, SourceNames, Anchored, ClosedText, Bodies

\* Where the recovery stops it has selected the least set of declarations that
\* contains those with an opaque one in them and all that the text of a member
\* names, for every text, every list of rows and any names.
THEOREM RecoveryIsAlwaysClosure == TextSpec => []RecoveryIsClosure
<1>1. TextInit => RecoveryInv
  BY DEF TextInit, RecoveryInv
<1>2. RecoveryInv /\ [TextNext]_proofVars => RecoveryInv'
  <2> SUFFICES ASSUME RecoveryInv, [TextNext]_proofVars PROVE RecoveryInv'
    OBVIOUS
  <2>1. CASE Count \/ Read \/ Group
    <3>1. step' \notin {"sweep", "count"}
      BY <2>1 DEF Count, Read, Group
    <3> QED BY <3>1 DEF RecoveryInv
  <2>2. CASE Cover \/ UNCHANGED proofVars
    <3>1. UNCHANGED <<step, text, rows, selected>>
      BY <2>2 DEF Cover, textVars, proofVars
    <3>2. source_rows' = source_rows /\ anchors' = anchors
      BY <3>1 DEF source_rows, anchors, SourceRow, Headers
    <3> QED BY <3>1, <3>2 DEF RecoveryInv, SourceNames, Anchored, ClosedText, Bodies
  <2> QED BY <2>1, <2>2, AnchorStep, SweepStep, ExpandStep DEF TextNext
<1>3. RecoveryInv => RecoveryIsClosure
  <2> SUFFICES ASSUME RecoveryInv, step = "count" PROVE RecoveryIsClosure
    BY DEF RecoveryIsClosure
  <2>1. /\ selected \subseteq SourceNames /\ Anchored(selected) /\ ClosedText(selected)
        /\ \A S \in SUBSET SourceNames : Anchored(S) /\ ClosedText(S) => selected \subseteq S
    BY DEF RecoveryInv
  <2>2. \A S \in SUBSET selected : Anchored(S) /\ ClosedText(S) => S = selected
    BY <2>1
  <2> QED BY <2>1, <2>2 DEF RecoveryIsClosure, Anchored, ClosedText, SourceNames
<1> QED BY <1>1, <1>2, <1>3, PTL DEF TextSpec

-----------------------------------------------------------------------------
(* What the search has found is reached by calls and inlinings, from        *)
(* something that is nearer by now; what it is done with needs no more; and *)
(* the queue holds what it is not done with.                                *)
Reached ==
  \A id \in DOMAIN depths \ {"main"} :
    \E c \in DOMAIN depths : id \in Edges(c) /\ depths[id] >= depths[c] + 1

Settled(c) ==
  \A id \in Edges(c) : id \in DOMAIN depths /\ depths[id] <= depths[c] + 1

DepthsInv ==
  /\ IsFiniteSet(DOMAIN inlined)
  /\ "main" \in DOMAIN depths /\ depths["main"] = 0
  /\ \A id \in DOMAIN depths : depths[id] \in Nat
  /\ pending \in Seq(DOMAIN depths)
  /\ Reached
  /\ \A c \in DOMAIN depths \ Range(pending) : Settled(c)

-------------------------------------------------------------------------------
LEMMA EdgesFinite ==
  ASSUME IsFiniteSet(DOMAIN inlined), NEW id
  PROVE  IsFiniteSet(Edges(id))
<1> DEFINE callees == {code[p].to : p \in {q \in Calls : CallOwner(q) = id}}
           f == [p \in {q \in Calls : CallOwner(q) = id} |-> code[p].to]
<1>1. IsFiniteSet(Children(id))
  <2>1. Children(id) \in SUBSET DOMAIN inlined
    BY DEF Children
  <2> QED
    BY <2>1, FS_Subset
<1>2. IsFiniteSet(callees)
  <2>1. {q \in Calls : CallOwner(q) = id} \in SUBSET Pcs
    BY DEF Calls
  <2>2. IsFiniteSet({q \in Calls : CallOwner(q) = id})
    BY <2>1, FiniteAssumption, FS_Subset
  <2>3. f \in Surjection({q \in Calls : CallOwner(q) = id}, callees)
    BY DEF Surjection
  <2> QED
    BY <2>2, <2>3, FS_Surjection
<1>3. IsFiniteSet(Children(id) \cup callees)
  BY <1>1, <1>2, FS_Union
<1> QED
  BY <1>3 DEF Edges

\* An order of a finite set holds all of it.
LEMMA OrderHoldsAll ==
  ASSUME NEW S, IsFiniteSet(S), NEW order \in SetToSeqs(S)
  PROVE  order \in Seq(S) /\ Range(order) = S
<1>1. Cardinality(S) \in Nat
  BY FS_CardinalityType
<1>2. order \in [1 .. Cardinality(S) -> S]
      /\ \A i, j \in 1 .. Cardinality(S) : i # j => order[i] # order[j]
  BY DEF SetToSeqs
<1>3. order \in Injection(1 .. Cardinality(S), S)
  BY <1>2 DEF Injection, IsInjective
<1>4. Cardinality(1 .. Cardinality(S)) = Cardinality(S)
  BY <1>1, FS_Interval
<1>5. order \in Surjection(1 .. Cardinality(S), S)
  BY <1>3, <1>4, FS_Injection
<1>6. order \in Seq(S)
  BY <1>1, <1>2
<1>7. Range(order) = S
  BY <1>5 DEF Surjection, Range
<1> QED
  BY <1>6, <1>7

LEMMA DepthsInvInitially == ManifestInit => DepthsInv
<1> SUFFICES ASSUME ManifestInit PROVE DepthsInv
  OBVIOUS
<1>1. IsFiniteSet(DOMAIN inlined)
  BY FiniteAssumption DEF ManifestInit
<1>2. depths = [id \in {"main"} |-> 0] /\ pending = <<"main">>
  BY DEF ManifestInit
<1>3. DOMAIN depths = {"main"} /\ depths["main"] = 0
  BY <1>2
<1>4. pending \in Seq(DOMAIN depths) /\ Range(pending) = {"main"}
  BY <1>2, <1>3 DEF Range
<1> QED
  BY <1>1, <1>3, <1>4 DEF DepthsInv, Reached

LEMMA KeptByVisit == DepthsInv /\ Visit => DepthsInv'
<1> SUFFICES ASSUME DepthsInv, Visit PROVE DepthsInv'
  OBVIOUS
<1> DEFINE parent == pending[1]
           closer == Closer(parent)
           now == depths[parent] + 1
<1>1. /\ code' = code /\ inlined' = inlined
      /\ \A c : Edges(c)' = Edges(c)
  BY DEF Visit, programVars, Edges, Children, Calls, CallOwner, FunctionAt, Descendants, Closure, Ids
<1>2. pending \in Seq(DOMAIN depths) /\ pending # <<>>
  BY DEF DepthsInv, Visit
<1>3. /\ parent \in DOMAIN depths /\ Tail(pending) \in Seq(DOMAIN depths)
      /\ Range(pending) = {parent} \cup Range(Tail(pending))
  <2>1. Len(pending) \in Nat /\ Len(pending) >= 1 /\ DOMAIN pending = 1 .. Len(pending)
    BY <1>2
  <2>2. /\ Tail(pending) \in Seq(DOMAIN depths) /\ Len(Tail(pending)) = Len(pending) - 1
        /\ \A i \in 1 .. Len(pending) - 1 : Tail(pending)[i] = pending[i + 1]
    BY <1>2
  <2>3. ASSUME NEW k \in DOMAIN pending PROVE pending[k] \in {parent} \cup Range(Tail(pending))
    <3>1. CASE k # 1
      <4>1. k - 1 \in DOMAIN Tail(pending) /\ Tail(pending)[k - 1] = pending[k]
        BY <2>1, <2>2, <3>1
      <4> QED
        BY <4>1 DEF Range
    <3> QED
      BY <3>1
  <2>4. ASSUME NEW k \in DOMAIN Tail(pending) PROVE Tail(pending)[k] \in Range(pending)
    <3>1. k + 1 \in DOMAIN pending /\ Tail(pending)[k] = pending[k + 1]
      BY <2>1, <2>2
    <3> QED
      BY <3>1 DEF Range
  <2>5. parent \in Range(pending) /\ parent \in DOMAIN depths
    BY <1>2, <2>1 DEF Range
  <2> QED
    BY <2>2, <2>3, <2>4, <2>5 DEF Range
<1>4. /\ closer \in SUBSET Edges(parent) /\ IsFiniteSet(closer)
      /\ \A c \in closer : c \notin DOMAIN depths \/ depths[c] > now
      /\ \A c \in Edges(parent) \ closer : c \in DOMAIN depths /\ ~(depths[c] > now)
  <2>1. closer \in SUBSET Edges(parent)
    BY DEF Closer
  <2>2. IsFiniteSet(closer)
    BY <2>1, EdgesFinite, FS_Subset DEF DepthsInv
  <2> QED
    BY <2>1, <2>2 DEF Closer, DepthBelow
<1>5. depths' = [id \in DOMAIN depths \cup closer |-> IF id \in closer THEN now ELSE depths[id]]
  BY DEF Visit, DepthBelow
<1>6. PICK order \in SetToSeqs(closer) : pending' = Tail(pending) \o order
  BY DEF Visit
<1>7. order \in Seq(closer) /\ Range(order) = closer
  BY <1>4, OrderHoldsAll
<1>8. now \in Nat /\ now > 0 /\ now = depths[parent] + 1 /\ depths[parent] \in Nat
      /\ (\A id \in DOMAIN depths : depths[id] \in Nat)
  BY <1>3 DEF DepthsInv
<1> HIDE DEF parent, closer, now
<1>9. /\ DOMAIN depths' = DOMAIN depths \cup closer
      /\ \A id \in closer : depths'[id] = now
      /\ \A id \in DOMAIN depths \ closer : depths'[id] = depths[id]
      /\ \A id \in DOMAIN depths : depths'[id] <= depths[id]
  <2>1. DOMAIN depths' = DOMAIN depths \cup closer
    BY <1>5
  <2>2. \A id \in closer : depths'[id] = now
    BY <1>5
  <2>3. \A id \in DOMAIN depths \ closer : depths'[id] = depths[id]
    BY <1>5
  <2>4. ASSUME NEW id \in DOMAIN depths PROVE depths'[id] <= depths[id]
    BY <1>4, <1>8, <2>2, <2>3
  <2> QED
    BY <2>1, <2>2, <2>3, <2>4
<1>10. parent \notin closer /\ depths'[parent] = depths[parent] /\ "main" \notin closer
  <2>1. parent \notin closer
    BY <1>3, <1>4, <1>8
  <2>2. "main" \notin closer
    BY <1>4, <1>8 DEF DepthsInv
  <2> QED
    BY <1>3, <1>9, <2>1, <2>2
<1>11. pending' \in Seq(DOMAIN depths') /\ Range(pending') = Range(Tail(pending)) \cup closer
  <2>1. Tail(pending) \in Seq(DOMAIN depths') /\ order \in Seq(DOMAIN depths')
    BY <1>3, <1>7, <1>9
  <2>2. Tail(pending) \o order \in Seq(DOMAIN depths')
    BY <2>1, ConcatProperties
  <2>3. Range(Tail(pending) \o order) = Range(Tail(pending)) \cup Range(order)
    BY <2>1, RangeOfConcatenation
  <2> QED
    BY <1>6, <1>7, <2>2, <2>3
<1>12. Reached'
  <2> SUFFICES ASSUME NEW id \in DOMAIN depths', id # "main"
               PROVE  \E c \in DOMAIN depths' : id \in Edges(c) /\ depths'[id] >= depths'[c] + 1
    BY <1>1 DEF Reached
  <2>1. CASE id \in closer
    BY <1>3, <1>4, <1>8, <1>9, <1>10, <2>1
  <2>2. CASE id \notin closer
    <3>1. id \in DOMAIN depths /\ depths'[id] = depths[id]
      BY <1>9, <2>2
    <3>2. PICK c \in DOMAIN depths : id \in Edges(c) /\ depths[id] >= depths[c] + 1
      BY <3>1 DEF DepthsInv, Reached
    <3>3. c \in DOMAIN depths' /\ depths'[c] <= depths[c] /\ depths'[c] \in Nat
      BY <1>8, <1>9
    <3>4. depths'[id] >= depths'[c] + 1
      BY <1>8, <3>1, <3>2, <3>3
    <3> QED
      BY <3>2, <3>3, <3>4
  <2> QED
    BY <2>1, <2>2
<1>13. ASSUME NEW c \in DOMAIN depths' \ Range(pending') PROVE Settled(c)'
  <2>1. c \in DOMAIN depths /\ c \notin closer /\ depths'[c] = depths[c]
    BY <1>9, <1>11
  <2>2. CASE c = parent
    <3>1. ASSUME NEW id \in Edges(parent) PROVE id \in DOMAIN depths' /\ depths'[id] <= now
      <4>1. CASE id \in closer
        BY <1>8, <1>9, <4>1
      <4>2. CASE id \notin closer
        <5>1. id \in DOMAIN depths /\ ~(depths[id] > now) /\ depths'[id] = depths[id]
          BY <1>4, <1>9, <4>2
        <5> QED
          BY <1>8, <1>9, <5>1
      <4> QED
        BY <4>1, <4>2
    <3> QED
      BY <1>1, <1>8, <1>10, <2>2, <3>1 DEF Settled
  <2>3. CASE c # parent
    <3>1. Settled(c)
      BY <1>3, <1>11, <2>1, <2>3 DEF DepthsInv
    <3>2. ASSUME NEW id \in Edges(c) PROVE id \in DOMAIN depths' /\ depths'[id] <= depths'[c] + 1
      <4>1. id \in DOMAIN depths /\ depths[id] <= depths[c] + 1
        BY <3>1 DEF Settled
      <4>2. id \in DOMAIN depths' /\ depths'[id] <= depths[id] /\ depths'[id] \in Nat
        BY <1>8, <1>9, <4>1
      <4> QED
        BY <1>8, <2>1, <4>1, <4>2
    <3> QED
      BY <1>1, <3>2 DEF Settled
  <2> QED
    BY <2>2, <2>3
<1>14. \A id \in DOMAIN depths' : depths'[id] \in Nat
  BY <1>8, <1>9
<1>15. IsFiniteSet(DOMAIN inlined') /\ "main" \in DOMAIN depths' /\ depths'["main"] = 0
  BY <1>1, <1>9, <1>10 DEF DepthsInv
<1> QED
  BY <1>11, <1>12, <1>13, <1>14, <1>15 DEF DepthsInv

LEMMA DepthsInvKept == DepthsInv /\ [ManifestNext]_manifestVars => DepthsInv'
<1> SUFFICES ASSUME DepthsInv, [ManifestNext]_manifestVars PROVE DepthsInv'
  OBVIOUS
<1>1. ASSUME UNCHANGED <<programVars, depths, pending>> PROVE DepthsInv'
  <2>1. code' = code /\ inlined' = inlined /\ depths' = depths /\ pending' = pending
    BY <1>1 DEF programVars
  <2>2. \A c : Edges(c)' = Edges(c)
    BY <2>1 DEF Edges, Children, Calls, CallOwner, FunctionAt, Descendants, Closure, Ids
  <2>3. \A c : Settled(c)' <=> Settled(c)
    BY <2>1, <2>2 DEF Settled
  <2> QED
    BY <2>1, <2>2, <2>3 DEF DepthsInv, Reached
<1>2. ManifestNext => Visit \/ UNCHANGED <<programVars, depths, pending>>
  BY DEF ManifestNext, Inherit, ReturnsDone, Select, Step, Call, TailCall, Return, Move
<1>3. UNCHANGED manifestVars => UNCHANGED <<programVars, depths, pending>>
  BY DEF manifestVars
<1> QED
  BY <1>1, <1>2, <1>3, KeptByVisit

LEMMA DepthsInvSuffices == DepthsInv => DepthsShortest
<1> SUFFICES ASSUME DepthsInv, pending = <<>>
             PROVE  /\ depths["main"] = 0
                    /\ \A id \in DOMAIN depths : Edges(id) \subseteq DOMAIN depths
                    /\ \A id \in DOMAIN depths \ {"main"} :
                         LET callers == {c \in DOMAIN depths : id \in Edges(c)} IN
                         /\ \A c \in callers : depths[id] <= depths[c] + 1
                         /\ \E c \in callers : depths[id] = depths[c] + 1
  BY DEF DepthsShortest
<1>1. Range(pending) = {}
  BY DEF Range
<1>2. \A c \in DOMAIN depths : Settled(c)
  BY <1>1 DEF DepthsInv
<1>3. ASSUME NEW id \in DOMAIN depths \ {"main"}
      PROVE  \E c \in DOMAIN depths : id \in Edges(c) /\ depths[id] = depths[c] + 1
  <2>1. PICK c \in DOMAIN depths : id \in Edges(c) /\ depths[id] >= depths[c] + 1
    BY DEF DepthsInv, Reached
  <2>2. depths[id] <= depths[c] + 1 /\ depths[id] \in Nat /\ depths[c] \in Nat
    BY <1>2, <2>1 DEF Settled, DepthsInv
  <2> QED
    BY <2>1, <2>2
<1> QED
  BY <1>2, <1>3 DEF DepthsInv, Settled

\* The depths that the search ends with are those of the shortest ways from main,
\* whatever functions and inlined instances there are and in whatever order the
\* children of each are walked.
THEOREM DepthsTheorem == ManifestSpec => []DepthsShortest
<1>1. ManifestSpec => []DepthsInv
  BY DepthsInvInitially, DepthsInvKept, PTL DEF ManifestSpec
<1> QED
  BY <1>1, DepthsInvSuffices, PTL

-----------------------------------------------------------------------------
\* The program is one of those that the assumptions describe.
Shaped == code \in Codes /\ inlined \in Inlinings

\* Each program counter of the program is in one function, FunctionAt of it.
LEMMA FunctionAtIs ==
  /\ \A p \in Pcs : FunctionAt(p) \in DOMAIN Functions /\ p \in Functions[FunctionAt(p)]
  /\ \A f \in DOMAIN Functions : Functions[f] \subseteq Pcs
                                  /\ \A p \in Functions[f] : FunctionAt(p) = f
<1>1. ASSUME NEW p \in Pcs
      PROVE  FunctionAt(p) \in DOMAIN Functions /\ p \in Functions[FunctionAt(p)]
  <2>1. \E f \in DOMAIN Functions : p \in Functions[f]
    BY DEF Pcs
  <2> QED BY <2>1 DEF FunctionAt
<1>2. ASSUME NEW f \in DOMAIN Functions PROVE Functions[f] \subseteq Pcs
  BY DEF Pcs
<1>3. ASSUME NEW f \in DOMAIN Functions, NEW p \in Functions[f] PROVE FunctionAt(p) = f
  <2>1. FunctionAt(p) \in DOMAIN Functions /\ p \in Functions[FunctionAt(p)]
    BY <1>1, <1>2
  <2> QED BY <2>1, LayoutAssumption
<1> QED BY <1>1, <1>2, <1>3

\* There are finitely many instances.
LEMMA IdsFinite == ASSUME Shaped PROVE IsFiniteSet(Ids)
<1>1. IsFiniteSet(DOMAIN Functions) /\ IsFiniteSet(DOMAIN inlined)
  BY LayoutAssumption, FiniteAssumption DEF Shaped
<1> QED BY <1>1, FS_Union DEF Ids

\* An instance has program counters, all of them in its parent.
LEMMA PcsAre ==
  ASSUME Shaped, NEW i \in Ids
  PROVE  /\ PcsOf(i) # {}
         /\ IsInlined(i) => inlined[i].parent \in Ids /\ PcsOf(i) \subseteq PcsOf(inlined[i].parent)
         /\ ~IsInlined(i) => i \in DOMAIN Functions /\ PcsOf(i) = Functions[i]
<1>1. CASE IsInlined(i)
  <2>1. /\ inlined[i].parent \in DOMAIN Functions \cup DOMAIN inlined
        /\ inlined[i].pcs # {}
        /\ inlined[i].pcs \subseteq IF inlined[i].parent \in DOMAIN inlined
                                    THEN inlined[inlined[i].parent].pcs
                                    ELSE Functions[inlined[i].parent]
    BY <1>1, InliningsAssumption DEF Shaped, IsInlined
  <2> QED BY <1>1, <2>1 DEF PcsOf, IsInlined, Ids
<1>2. CASE ~IsInlined(i)
  BY <1>2, LayoutAssumption DEF PcsOf, IsInlined, Ids
<1> QED BY <1>1, <1>2

\* What holds of functions and of what is inlined into what it holds of.
LEMMA RankInduction ==
  ASSUME Shaped, NEW T \in SUBSET Ids, DOMAIN Functions \subseteq T,
         \A i \in DOMAIN inlined : inlined[i].parent \in T => i \in T
  PROVE  T = Ids
<1> SUFFICES ASSUME Ids \ T # {} PROVE FALSE
  OBVIOUS
<1>1. PICK rank \in [DOMAIN inlined -> 0 .. Cardinality(DOMAIN inlined)] :
        \A i \in DOMAIN inlined :
          inlined[i].parent \in DOMAIN inlined => rank[inlined[i].parent] < rank[i]
  BY InliningsAssumption DEF Shaped
<1>2. Ids \ T \subseteq DOMAIN inlined
  BY DEF Ids
<1> DEFINE R == {rank[i] : i \in Ids \ T}
<1>3. R \in SUBSET Nat /\ R # {}
  BY <1>1, <1>2
<1>4. PICK r \in R : \A s \in R : r <= s
  <2> HIDE DEF R
  <2> QED BY <1>3, Least
<1>5. PICK i \in Ids \ T : rank[i] = r
  BY <1>4
<1>6. i \in DOMAIN inlined /\ inlined[i].parent \in Ids \ T
  <2>1. i \in DOMAIN inlined
    BY <1>2, <1>5
  <2>2. inlined[i].parent \in Ids
    BY <2>1, PcsAre DEF IsInlined
  <2> QED BY <1>5, <2>1, <2>2
<1>7. rank[inlined[i].parent] < rank[i]
  BY <1>1, <1>2, <1>6
<1>8. rank[i] <= rank[inlined[i].parent]
  BY <1>4, <1>5, <1>6
<1>9. rank[i] \in Nat /\ rank[inlined[i].parent] \in Nat
  BY <1>1, <1>2, <1>6
<1> QED BY <1>7, <1>8, <1>9

\* The function that an instance is in has all of its program counters.
LEMMA AncestorIs ==
  ASSUME Shaped
  PROVE  \A i \in Ids :
           /\ ConcreteAncestor(i) \in DOMAIN Functions
           /\ PcsOf(i) \subseteq Functions[ConcreteAncestor(i)]
           /\ IsInlined(i) => ConcreteAncestor(i) = ConcreteAncestor(inlined[i].parent)
           /\ ~IsInlined(i) => ConcreteAncestor(i) = i
<1> DEFINE Solves(w) == w = [i \in Ids |-> IF IsInlined(i) THEN w[inlined[i].parent] ELSE i]
           T == {i \in Ids : \E f \in DOMAIN Functions : PcsOf(i) \subseteq Functions[f]}
<1>1. T = Ids
  <2>1. DOMAIN Functions \subseteq T
    <3> SUFFICES ASSUME NEW f \in DOMAIN Functions PROVE f \in T
      OBVIOUS
    <3>1. f \in Ids /\ ~IsInlined(f)
      BY InliningsAssumption DEF Ids, IsInlined, Shaped
    <3> QED BY <3>1, PcsAre
  <2>2. ASSUME NEW i \in DOMAIN inlined, inlined[i].parent \in T PROVE i \in T
    <3>1. i \in Ids /\ IsInlined(i)
      BY DEF Ids, IsInlined
    <3>2. PcsOf(i) \subseteq PcsOf(inlined[i].parent)
      BY <3>1, PcsAre
    <3> QED BY <2>2, <3>1, <3>2
  <2>3. T \in SUBSET Ids
    OBVIOUS
  <2> HIDE DEF T
  <2> QED BY <2>1, <2>2, <2>3, RankInduction
<1> DEFINE u == [i \in Ids |-> FunctionAt(CHOOSE p \in PcsOf(i) : TRUE)]
<1>2. ASSUME NEW i \in Ids
      PROVE  u[i] \in DOMAIN Functions /\ PcsOf(i) \subseteq Functions[u[i]]
  <2>1. PICK f \in DOMAIN Functions : PcsOf(i) \subseteq Functions[f]
    BY <1>1
  <2>2. (CHOOSE p \in PcsOf(i) : TRUE) \in PcsOf(i)
    BY PcsAre
  <2>3. u[i] = f
    BY <2>1, <2>2, FunctionAtIs
  <2> QED BY <2>1, <2>3
<1>3. ASSUME NEW i \in Ids, NEW f \in DOMAIN Functions, PcsOf(i) \subseteq Functions[f]
      PROVE  u[i] = f
  <2>1. PICK p : p \in PcsOf(i)
    BY PcsAre
  <2> HIDE DEF u
  <2>2. p \in Functions[f] /\ p \in Functions[u[i]]
    BY <1>2, <1>3, <2>1
  <2> QED BY <1>2, <2>2, FunctionAtIs
<1>4. Solves(u)
  <2>1. ASSUME NEW i \in Ids PROVE u[i] = IF IsInlined(i) THEN u[inlined[i].parent] ELSE i
    <3> HIDE DEF u
    <3>1. CASE IsInlined(i)
      <4>1. inlined[i].parent \in Ids /\ PcsOf(i) \subseteq PcsOf(inlined[i].parent)
        BY <3>1, PcsAre
      <4>2. /\ u[inlined[i].parent] \in DOMAIN Functions
            /\ PcsOf(i) \subseteq Functions[u[inlined[i].parent]]
        BY <1>2, <4>1
      <4> QED BY <1>3, <3>1, <4>2
    <3>2. CASE ~IsInlined(i)
      BY <1>3, <3>2, PcsAre
    <3> QED BY <3>1, <3>2
  <2>2. u = [i \in Ids |-> u[i]]
    OBVIOUS
  <2> HIDE DEF u
  <2> QED BY <2>1, <2>2
<1> DEFINE w == CHOOSE v : Solves(v)
<1>5. Solves(w)
  <2>1. \E v : Solves(v)
    BY <1>4
  <2> QED BY <2>1
<1>6. \A i \in Ids : ConcreteAncestor(i) = w[i]
  BY DEF ConcreteAncestor
<1> HIDE DEF w
<1>7. \A i \in Ids : w[i] = IF IsInlined(i) THEN w[inlined[i].parent] ELSE i
  BY <1>5
<1> DEFINE Q == {i \in Ids : w[i] \in DOMAIN Functions /\ PcsOf(i) \subseteq Functions[w[i]]}
<1>8. Q = Ids
  <2>1. ASSUME NEW f \in DOMAIN Functions PROVE f \in Q
    <3>1. f \in Ids /\ ~IsInlined(f)
      BY InliningsAssumption DEF Ids, IsInlined, Shaped
    <3>2. PcsOf(f) = Functions[f]
      BY <3>1, PcsAre
    <3> QED BY <1>7, <3>1, <3>2
  <2>2. ASSUME NEW i \in DOMAIN inlined, inlined[i].parent \in Q PROVE i \in Q
    <3>1. i \in Ids /\ IsInlined(i)
      BY DEF Ids, IsInlined
    <3>2. PcsOf(i) \subseteq PcsOf(inlined[i].parent)
      BY <3>1, PcsAre
    <3>3. w[i] = w[inlined[i].parent]
      BY <1>7, <3>1
    <3> QED BY <2>2, <3>1, <3>2, <3>3
  <2>3. Q \in SUBSET Ids
    OBVIOUS
  <2> HIDE DEF Q
  <2> QED BY <2>1, <2>2, <2>3, RankInduction
<1>9. ASSUME NEW i \in Ids, IsInlined(i) PROVE inlined[i].parent \in Ids
  BY <1>9, PcsAre
<1>10. \A i \in Ids : w[i] \in DOMAIN Functions /\ PcsOf(i) \subseteq Functions[w[i]]
  BY <1>8
<1> HIDE DEF Q, u, T
<1> QED BY <1>6, <1>7, <1>9, <1>10

-----------------------------------------------------------------------------
\* What is inlined into an instance, at any depth.

\* A closure is the least set that holds S and where its edges lead.
LEMMA ClosureIs ==
  ASSUME NEW S, NEW edges, IsFiniteSet(DOMAIN edges)
  PROVE  LET closure == Closure(S, edges) IN
         /\ S \subseteq closure
         /\ ClosedUnder(closure, edges, DOMAIN edges)
         /\ \A T : S \subseteq T /\ ClosedUnder(T, edges, DOMAIN edges) => closure \subseteq T
<1>1. Closure(S, edges) = Layers(S, edges, DOMAIN edges)[Cardinality(DOMAIN edges)]
  BY DEF Closure, Layers
<1> QED BY <1>1, LayersAreLeast

\* The descendants of an instance are the least set with its children and theirs.
LEMMA DescendantsAre ==
  ASSUME Shaped
  PROVE  \A id :
           /\ Children(id) \subseteq Descendants(id) /\ Descendants(id) \subseteq DOMAIN inlined
           /\ \A i \in Descendants(id) : Children(i) \subseteq Descendants(id)
           /\ \A T : Children(id) \subseteq T /\ (\A i \in T \cap Ids : Children(i) \subseteq T)
                => Descendants(id) \subseteq T
<1> SUFFICES ASSUME NEW id
             PROVE  /\ Children(id) \subseteq Descendants(id)
                    /\ Descendants(id) \subseteq DOMAIN inlined
                    /\ \A i \in Descendants(id) : Children(i) \subseteq Descendants(id)
                    /\ \A T : Children(id) \subseteq T /\ (\A i \in T \cap Ids : Children(i) \subseteq T)
                         => Descendants(id) \subseteq T
  OBVIOUS
<1> DEFINE edges == [i \in Ids |-> Children(i)]
           D == Descendants(id)
<1>1. DOMAIN edges = Ids /\ \A i \in Ids : edges[i] = Children(i)
  OBVIOUS
<1>2. D = Closure(Children(id), edges)
  BY DEF Descendants
<1>3. IsFiniteSet(DOMAIN edges)
  BY <1>1, IdsFinite
<1> HIDE DEF edges, D
<1>4. /\ Children(id) \subseteq D
      /\ ClosedUnder(D, edges, DOMAIN edges)
      /\ \A T : Children(id) \subseteq T /\ ClosedUnder(T, edges, DOMAIN edges) => D \subseteq T
  BY <1>2, <1>3, ClosureIs
<1>5. \A T : ClosedUnder(T, edges, DOMAIN edges) <=> \A i \in T \cap Ids : Children(i) \subseteq T
  BY <1>1 DEF ClosedUnder
<1>6. \A i : Children(i) \subseteq DOMAIN inlined
  BY DEF Children
<1>7. \A T : Children(id) \subseteq T /\ (\A i \in T \cap Ids : Children(i) \subseteq T)
        => D \subseteq T
  BY <1>4, <1>5
<1>8. D \subseteq DOMAIN inlined
  BY <1>6, <1>7
<1>9. \A i \in D : Children(i) \subseteq D
  BY <1>4, <1>5, <1>8 DEF Ids
<1> QED BY <1>4, <1>7, <1>8, <1>9 DEF D

\* What is inlined into a descendant is a descendant, in the same function.
LEMMA DescendantsCompose ==
  ASSUME Shaped
  PROVE  /\ \A id : \A i \in Descendants(id) : Descendants(i) \subseteq Descendants(id)
         /\ \A id : \A j \in Descendants(id) :
              j \in Children(id) \/ \E c \in Children(id) : j \in Descendants(c)
         /\ \A id \in Ids : \A i \in Descendants(id) :
              PcsOf(i) \subseteq PcsOf(id) /\ ConcreteAncestor(i) = ConcreteAncestor(id)
<1>1. ASSUME NEW id, NEW i \in Descendants(id) PROVE Descendants(i) \subseteq Descendants(id)
  BY DescendantsAre
<1>2. ASSUME NEW id, NEW j \in Descendants(id)
      PROVE  j \in Children(id) \/ \E c \in Children(id) : j \in Descendants(c)
  <2> DEFINE T == Children(id) \cup UNION {Descendants(c) : c \in Children(id)}
  <2>1. \A i \in T \cap Ids : Children(i) \subseteq T
    BY DescendantsAre
  <2>2. Descendants(id) \subseteq T
    <3>1. Children(id) \subseteq T
      OBVIOUS
    <3> HIDE DEF T
    <3> QED BY <2>1, <3>1, DescendantsAre
  <2> QED BY <2>2
<1>3. ASSUME NEW id \in Ids, NEW j \in Descendants(id)
      PROVE  PcsOf(j) \subseteq PcsOf(id) /\ ConcreteAncestor(j) = ConcreteAncestor(id)
  <2> DEFINE T == {i \in Ids : /\ PcsOf(i) \subseteq PcsOf(id)
                               /\ ConcreteAncestor(i) = ConcreteAncestor(id)}
  <2>1. ASSUME NEW u \in Ids, NEW i \in Children(u)
        PROVE  i \in Ids /\ PcsOf(i) \subseteq PcsOf(u)
               /\ ConcreteAncestor(i) = ConcreteAncestor(u)
    <3>1. i \in Ids /\ IsInlined(i) /\ inlined[i].parent = u
      BY DEF Children, Ids, IsInlined
    <3> QED BY <3>1, PcsAre, AncestorIs
  <2>2. Children(id) \subseteq T
    BY <2>1
  <2>3. \A i \in T \cap Ids : Children(i) \subseteq T
    BY <2>1
  <2>4. Descendants(id) \subseteq T
    <3> HIDE DEF T
    <3> QED BY <2>2, <2>3, DescendantsAre
  <2> QED BY <2>4
<1> QED BY <1>1, <1>2, <1>3

\* Instances can be ranked so that each is above its descendants.
LEMMA RankExists ==
  ASSUME Shaped
  PROVE  \E r \in [Ids -> Nat] : \A i \in Ids : \A j \in Descendants(i) : r[j] < r[i]
<1> DEFINE K == Cardinality(DOMAIN inlined)
<1>1. K \in Nat
  <2>1. IsFiniteSet(DOMAIN inlined)
    BY FiniteAssumption DEF Shaped
  <2> QED BY <2>1, FS_CardinalityType
<1>2. PICK rank \in [DOMAIN inlined -> 0 .. K] :
        \A i \in DOMAIN inlined :
          inlined[i].parent \in DOMAIN inlined => rank[inlined[i].parent] < rank[i]
  BY InliningsAssumption DEF Shaped
<1> HIDE DEF K
<1> DEFINE r == [i \in Ids |-> IF i \in DOMAIN inlined THEN K - rank[i] ELSE K + 1]
<1>3. r \in [Ids -> Nat]
  <2>1. \A i \in DOMAIN inlined : K - rank[i] \in Nat
    BY <1>1, <1>2
  <2> QED BY <1>1, <2>1
<1>4. ASSUME NEW u \in Ids, NEW i \in Children(u) PROVE i \in Ids /\ r[i] < r[u]
  <2>1. i \in DOMAIN inlined /\ i \in Ids /\ inlined[i].parent = u
    BY DEF Children, Ids
  <2>2. rank[i] \in 0 .. K
    BY <1>2, <2>1
  <2>3. CASE u \in DOMAIN inlined
    <3>1. rank[u] < rank[i] /\ rank[u] \in 0 .. K
      BY <1>2, <2>1, <2>3
    <3>2. r[i] = K - rank[i] /\ r[u] = K - rank[u]
      BY <2>1, <2>3
    <3> HIDE DEF r
    <3> QED BY <1>1, <2>1, <2>2, <3>1, <3>2
  <2>4. CASE u \notin DOMAIN inlined
    <3>1. r[i] = K - rank[i] /\ r[u] = K + 1
      BY <2>1, <2>4
    <3> HIDE DEF r
    <3> QED BY <1>1, <2>1, <2>2, <3>1
  <2> QED BY <2>3, <2>4
<1> HIDE DEF r
<1>5. ASSUME NEW id \in Ids, NEW j \in Descendants(id) PROVE r[j] < r[id]
  <2> DEFINE T == {i \in Ids : r[i] < r[id]}
  <2>1. Children(id) \subseteq T
    BY <1>4
  <2>2. ASSUME NEW u \in T \cap Ids, NEW i \in Children(u) PROVE i \in T
    <3>1. r[u] < r[id] /\ r[i] < r[u] /\ i \in Ids
      BY <1>4, <2>2
    <3>2. r[u] \in Nat /\ r[i] \in Nat /\ r[id] \in Nat
      BY <1>3, <3>1
    <3> QED BY <3>1, <3>2
  <2>3. Descendants(id) \subseteq T
    <3> HIDE DEF T
    <3> QED BY <2>1, <2>2, DescendantsAre
  <2> QED BY <2>3
<1> QED BY <1>3, <1>5

\* An inlined instance is a descendant of the function that it is in.
LEMMA InlinedIsDescendant ==
  ASSUME Shaped, NEW i \in Ids, IsInlined(i)
  PROVE  i \in Descendants(ConcreteAncestor(i))
<1> DEFINE T == {j \in Ids : IsInlined(j) => j \in Descendants(ConcreteAncestor(j))}
<1>1. DOMAIN Functions \subseteq T
  BY InliningsAssumption DEF Ids, IsInlined, Shaped
<1>2. ASSUME NEW j \in DOMAIN inlined, inlined[j].parent \in T PROVE j \in T
  <2> DEFINE u == inlined[j].parent
  <2>1. j \in Ids /\ IsInlined(j) /\ u \in Ids /\ j \in Children(u)
    BY <1>2 DEF Ids, IsInlined, Children
  <2>2. ConcreteAncestor(j) = ConcreteAncestor(u)
    BY <2>1, AncestorIs
  <2>3. CASE IsInlined(u)
    <3>1. u \in Descendants(ConcreteAncestor(u))
      BY <1>2, <2>3
    <3> QED BY <2>1, <2>2, <3>1, DescendantsAre
  <2>4. CASE ~IsInlined(u)
    <3>1. ConcreteAncestor(u) = u
      BY <2>1, <2>4, AncestorIs
    <3> QED BY <2>1, <2>2, <3>1, DescendantsAre
  <2> QED BY <2>3, <2>4
<1>3. T = Ids
  <2>1. T \in SUBSET Ids
    OBVIOUS
  <2> HIDE DEF T
  <2> QED BY <1>1, <1>2, <2>1, RankInduction
<1> QED BY <1>3

\* Of two instances that share a program counter one is inside the other.
LEMMA SharersAreNested ==
  ASSUME Shaped, NEW p, NEW i \in Ids, NEW j \in Ids, p \in PcsOf(i), p \in PcsOf(j)
  PROVE  i = j \/ i \in Descendants(j) \/ j \in Descendants(i)
<1> DEFINE Nested(a, b) == a = b \/ a \in Descendants(b) \/ b \in Descendants(a)
           T == {a \in Ids : p \in PcsOf(a) => \A b \in Ids : p \in PcsOf(b) => Nested(a, b)}
<1>1. ASSUME NEW f \in DOMAIN Functions PROVE f \in T
  <2>1. f \in Ids /\ ~IsInlined(f)
    BY InliningsAssumption DEF Ids, IsInlined, Shaped
  <2>2. ASSUME p \in PcsOf(f), NEW b \in Ids, p \in PcsOf(b) PROVE Nested(f, b)
    <3>1. PcsOf(f) = Functions[f]
      BY <2>1, PcsAre
    <3>2. p \in Functions[ConcreteAncestor(b)] /\ ConcreteAncestor(b) \in DOMAIN Functions
      BY <2>2, AncestorIs
    <3>3. ConcreteAncestor(b) = f
      BY <2>2, <3>1, <3>2, FunctionAtIs
    <3> QED BY <2>2, <3>3, AncestorIs, InlinedIsDescendant
  <2> QED BY <2>1, <2>2
<1>2. ASSUME NEW a \in DOMAIN inlined, inlined[a].parent \in T PROVE a \in T
  <2> DEFINE u == inlined[a].parent
  <2>1. a \in Ids /\ IsInlined(a) /\ u \in Ids /\ a \in Children(u) /\ PcsOf(a) \subseteq PcsOf(u)
    <3>1. a \in Ids /\ IsInlined(a) /\ a \in Children(u)
      BY DEF Ids, IsInlined, Children
    <3> QED BY <1>2, <3>1, PcsAre
  <2>2. ASSUME p \in PcsOf(a), NEW b \in Ids, p \in PcsOf(b) PROVE Nested(a, b)
    <3>1. Nested(u, b)
      BY <1>2, <2>1, <2>2
    <3>2. CASE u = b \/ u \in Descendants(b)
      BY <2>1, <3>2, DescendantsAre
    <3>3. CASE b \in Descendants(u)
      <4>1. PICK c \in Children(u) : b = c \/ b \in Descendants(c)
        BY <3>3, DescendantsCompose
      <4>2. c \in Ids /\ c \in DOMAIN inlined /\ inlined[c].parent = u
        BY DEF Children, Ids
      <4>3. p \in PcsOf(c)
        BY <2>2, <4>1, <4>2, DescendantsCompose
      <4>4. c = a
        <5>1. p \in inlined[a].pcs /\ p \in inlined[c].pcs
          BY <2>2, <4>2, <4>3 DEF PcsOf, IsInlined
        <5> QED BY <4>2, <5>1, InliningsAssumption DEF Shaped
      <4> QED BY <4>1, <4>4
    <3> QED BY <3>1, <3>2, <3>3
  <2> HIDE DEF Nested
  <2> QED BY <2>1, <2>2
<1>3. T = Ids
  <2>1. T \in SUBSET Ids
    OBVIOUS
  <2> HIDE DEF T
  <2> QED BY <1>1, <1>2, <2>1, RankInduction
<1> QED BY <1>3

\* Each program counter of an instance is its own or that of one inside it.
LEMMA LocalsCover ==
  ASSUME Shaped, NEW id \in Ids, NEW p \in PcsOf(id)
  PROVE  \E i \in {id} \cup Descendants(id) : p \in LocalPcs(i)
<1>1. PICK r \in [Ids -> Nat] : \A i \in Ids : \A j \in Descendants(i) : r[j] < r[i]
  BY RankExists
<1> DEFINE B == {i \in {id} \cup Descendants(id) : p \in PcsOf(i)}
           R == {r[i] : i \in B}
<1>2. B \subseteq Ids /\ id \in B
  BY DescendantsAre DEF Ids
<1>3. PICK n \in R : \A m \in R : n <= m
  <2>1. R \in SUBSET Nat /\ R # {}
    BY <1>1, <1>2
  <2> HIDE DEF R
  <2> QED BY <2>1, Least
<1>4. PICK i \in B : r[i] = n
  BY <1>3
<1>5. ASSUME p \in InlineDescendantPcs(i) PROVE FALSE
  <2>1. PICK j \in Descendants(i) : p \in PcsOf(j)
    BY <1>5 DEF InlineDescendantPcs
  <2>2. j \in B
    BY <1>4, <2>1, DescendantsCompose
  <2>3. r[j] < r[i] /\ r[i] <= r[j]
    BY <1>1, <1>2, <1>3, <1>4, <2>1, <2>2
  <2>4. r[i] \in Nat /\ r[j] \in Nat
    BY <1>1, <1>2, <2>2
  <2> QED BY <2>3, <2>4
<1> QED BY <1>4, <1>5 DEF LocalPcs

-----------------------------------------------------------------------------
\* The extent of an instance.

\* A call belongs to the instance of whose own program counters it is one.
LEMMA OwnerIs ==
  ASSUME Shaped, NEW i \in Ids, NEW p \in LocalPcs(i)
  PROVE  CallOwner(p) = i
<1> DEFINE around == {j \in DOMAIN inlined : p \in inlined[j].pcs}
           narrowest == {j \in around : \A k \in around :
                           Cardinality(inlined[j].pcs) <= Cardinality(inlined[k].pcs)}
<1>1. CallOwner(p) = IF around = {} THEN FunctionAt(p)
                     ELSE CHOOSE j \in narrowest : \A k \in narrowest : k \notin Descendants(j)
  BY DEF CallOwner
<1>2. p \in PcsOf(i) /\ \A j \in Descendants(i) : p \notin PcsOf(j)
  BY DEF LocalPcs, InlineDescendantPcs
<1>3. \A j \in around : j \in Ids /\ IsInlined(j) /\ p \in PcsOf(j) /\ PcsOf(j) = inlined[j].pcs
  BY DEF Ids, IsInlined, PcsOf
<1>4. \A j \in around : i = j \/ i \in Descendants(j)
  BY <1>2, <1>3, SharersAreNested
<1>5. CASE IsInlined(i)
  <2>1. i \in around
    BY <1>2, <1>5 DEF IsInlined, PcsOf
  <2>2. ASSUME NEW j \in around
        PROVE  Cardinality(inlined[i].pcs) <= Cardinality(inlined[j].pcs)
    <3>1. inlined[i].pcs \subseteq inlined[j].pcs
      <4>1. CASE i = j
        BY <4>1
      <4>2. CASE i \in Descendants(j)
        BY <1>3, <2>1, <4>2, DescendantsCompose
      <4> QED BY <1>4, <4>1, <4>2
    <3>2. inlined[j].pcs \subseteq Pcs
      BY <1>3, AncestorIs, FunctionAtIs
    <3>3. IsFiniteSet(inlined[j].pcs)
      BY <3>2, FiniteAssumption, FS_Subset
    <3> QED BY <3>1, <3>3, FS_Subset
  <2>3. i \in narrowest
    BY <2>1, <2>2
  <2>4. \A k \in narrowest : k \notin Descendants(i)
    BY <1>2, <1>3
  <2>5. ASSUME NEW j \in narrowest, \A k \in narrowest : k \notin Descendants(j) PROVE j = i
    BY <1>4, <2>3, <2>5
  <2>6. (CHOOSE j \in narrowest : \A k \in narrowest : k \notin Descendants(j)) = i
    <3> HIDE DEF narrowest
    <3> QED BY <2>3, <2>4, <2>5
  <2> HIDE DEF narrowest, around
  <2> QED BY <1>1, <2>1, <2>6
<1>6. CASE ~IsInlined(i)
  <2>1. i \in DOMAIN Functions /\ PcsOf(i) = Functions[i] /\ FunctionAt(p) = i
    BY <1>2, <1>6, PcsAre, FunctionAtIs
  <2>2. ASSUME NEW j \in around PROVE FALSE
    <3>1. i \in Descendants(j)
      BY <1>3, <1>4, <1>6
    <3>2. IsInlined(i)
      BY <3>1, DescendantsAre DEF IsInlined
    <3> QED BY <1>6, <3>2
  <2> HIDE DEF narrowest, around
  <2> QED BY <1>1, <2>1, <2>2
<1> QED BY <1>5, <1>6

\* What an instance holds and what it calls are instances.
LEMMA EdgesAreIds == ASSUME Shaped, NEW i PROVE Edges(i) \subseteq Ids
<1>1. \A p \in Calls : code[p].to \in DOMAIN Functions
  BY CodeAssumption DEF Shaped, Calls
<1> QED BY <1>1 DEF Edges, Children, Ids

\* What an instance is made of is the least set with it that holds what it calls.
LEMMA ReachableIs ==
  ASSUME Shaped, NEW id \in Ids
  PROVE  /\ id \in Reachable(id) /\ Reachable(id) \subseteq Ids
         /\ \A i \in Reachable(id) : Edges(i) \subseteq Reachable(id)
         /\ \A T \in SUBSET Ids : id \in T /\ (\A i \in T : Edges(i) \subseteq T)
              => Reachable(id) \subseteq T
<1> DEFINE edges == [i \in Ids |-> Edges(i)]
           R == Reachable(id)
<1>1. DOMAIN edges = Ids /\ \A i \in Ids : edges[i] = Edges(i)
  OBVIOUS
<1>2. R = Closure({id}, edges)
  BY DEF Reachable
<1>3. IsFiniteSet(DOMAIN edges)
  BY <1>1, IdsFinite
<1>4. \A i \in Ids : Edges(i) \subseteq Ids
  BY EdgesAreIds
<1> HIDE DEF edges, R
<1>5. /\ {id} \subseteq R
      /\ ClosedUnder(R, edges, DOMAIN edges)
      /\ \A T : {id} \subseteq T /\ ClosedUnder(T, edges, DOMAIN edges) => R \subseteq T
  BY <1>2, <1>3, ClosureIs
<1>6. \A T : ClosedUnder(T, edges, DOMAIN edges) <=> \A i \in T \cap Ids : Edges(i) \subseteq T
  BY <1>1 DEF ClosedUnder
<1>7. R \subseteq Ids
  BY <1>4, <1>5, <1>6
<1>8. \A i \in R : Edges(i) \subseteq R
  BY <1>5, <1>6, <1>7
<1>9. \A T \in SUBSET Ids : id \in T /\ (\A i \in T : Edges(i) \subseteq T) => R \subseteq T
  BY <1>5, <1>6
<1> QED BY <1>5, <1>7, <1>8, <1>9 DEF R

\* The instances that one is made of have all their program counters in it.
LEMMA PartsReachable ==
  ASSUME Shaped, NEW id \in Ids, NEW i \in Reachable(id)
  PROVE  /\ Descendants(i) \subseteq Reachable(id)
         /\ PcsOf(i) \subseteq ExecutionPcs(id)
         /\ i = id \/ i \in Descendants(id) \/ ConcreteAncestor(i) \in Reachable(id)
<1>1. ASSUME NEW j \in Reachable(id) PROVE Descendants(j) \subseteq Reachable(id)
  <2>1. \A k \in Reachable(id) : Children(k) \subseteq Reachable(id)
    BY ReachableIs DEF Edges
  <2> QED BY <1>1, <2>1, DescendantsAre
<1>2. PcsOf(i) \subseteq ExecutionPcs(id)
  <2> SUFFICES ASSUME NEW p \in PcsOf(i) PROVE p \in ExecutionPcs(id)
    OBVIOUS
  <2>1. i \in Ids
    BY ReachableIs
  <2>2. PICK j \in {i} \cup Descendants(i) : p \in LocalPcs(j)
    BY <2>1, LocalsCover
  <2> QED BY <1>1, <2>2 DEF ExecutionPcs
<1>3. i = id \/ i \in Descendants(id) \/ ConcreteAncestor(i) \in Reachable(id)
  <2> DEFINE R == Reachable(id)
             T == {j \in R : j = id \/ j \in Descendants(id) \/ ConcreteAncestor(j) \in R}
  <2>1. R \subseteq Ids /\ id \in R /\ \A j \in R : Edges(j) \subseteq R
    BY ReachableIs
  <2> HIDE DEF R
  <2>2. ASSUME NEW j \in T, NEW k \in Edges(j) PROVE k \in T
    <3>1. k \in R /\ j \in Ids
      BY <2>1
    <3>2. CASE k \in Children(j)
      <4>1. k \in Ids /\ IsInlined(k) /\ inlined[k].parent = j
        BY <3>2 DEF Children, Ids, IsInlined
      <4>2. ConcreteAncestor(k) = ConcreteAncestor(j)
        BY <4>1, AncestorIs
      <4> QED BY <3>1, <3>2, <4>2, DescendantsAre
    <3>3. CASE k \notin Children(j)
      <4>1. PICK q \in Calls : k = code[q].to
        BY <2>2, <3>3 DEF Edges
      <4>2. k \in DOMAIN Functions /\ k \in Ids
        BY <4>1, CodeAssumption DEF Shaped, Calls, Ids
      <4>3. ConcreteAncestor(k) = k
        <5>1. ~IsInlined(k)
          BY <4>2, InliningsAssumption DEF Shaped, IsInlined
        <5> QED BY <4>2, <5>1, AncestorIs
      <4> QED BY <3>1, <4>3
    <3> QED BY <3>2, <3>3
  <2>3. R \subseteq T
    <3>1. T \in SUBSET Ids /\ id \in T
      BY <2>1
    <3> HIDE DEF T
    <3>2. \A j \in T : Edges(j) \subseteq T
      BY <2>2
    <3> QED BY <3>1, <3>2, ReachableIs DEF R
  <2> QED BY <2>3 DEF R
<1> QED BY <1>1, <1>2, <1>3

\* An instance is entered at one of its program counters.
LEMMA EntryIs == ASSUME Shaped, NEW i \in Ids PROVE EntryOf(i) \in PcsOf(i)
<1>1. PcsOf(i) \in SUBSET Nat /\ PcsOf(i) # {}
  BY PcsAre, AncestorIs, LayoutAssumption
<1>2. \E p \in PcsOf(i) : \A q \in PcsOf(i) : p <= q
  BY <1>1, Least
<1> QED BY <1>2 DEF EntryOf

\* An inlined instance absorbs only program counters of the function it is in.
LEMMA GapsAreIn ==
  ASSUME Shaped, NEW id \in Ids, NEW p \in Absorbed(id)
  PROVE  IsInlined(id) /\ p \in Functions[ConcreteAncestor(id)]
<1>1. IsInlined(id) /\ p \in Pcs /\ EntryOf(id) <= p
  BY DEF Absorbed
<1>2. PICK q \in PcsOf(id) : p <= q
  BY DEF Absorbed
<1> DEFINE f == ConcreteAncestor(id)
<1>3. f \in DOMAIN Functions /\ EntryOf(id) \in Functions[f] /\ q \in Functions[f]
  BY EntryIs, AncestorIs
<1>4. p \in Nat
  BY <1>1, LayoutAssumption DEF Pcs
<1>5. EntryOf(id) \in Nat /\ q \in Nat /\ EntryOf(id) .. q \subseteq Functions[f]
  BY <1>3, LayoutAssumption
<1>6. p \in EntryOf(id) .. q
  BY <1>1, <1>2, <1>4, <1>5
<1> QED BY <1>1, <1>5, <1>6

\* An extent has all of a function or what is inlined into it.
LEMMA ExtentIs ==
  ASSUME Shaped, NEW id \in Ids, NEW p \in Subtree(id)
  PROVE  /\ p \in Pcs
         /\ \/ /\ FunctionAt(p) \in Reachable(id)
               /\ Functions[FunctionAt(p)] \subseteq Subtree(id)
            \/ /\ IsInlined(id) /\ FunctionAt(p) = ConcreteAncestor(id)
               /\ p \in PcsOf(id) \cup Absorbed(id)
<1>1. CASE p \in Absorbed(id)
  <2>1. IsInlined(id) /\ p \in Functions[ConcreteAncestor(id)]
        /\ ConcreteAncestor(id) \in DOMAIN Functions
    BY <1>1, GapsAreIn, AncestorIs
  <2> QED BY <1>1, <2>1, FunctionAtIs
<1>2. CASE p \in ExecutionPcs(id)
  <2>1. PICK i \in Reachable(id) : p \in LocalPcs(i)
    BY <1>2 DEF ExecutionPcs
  <2>2. i \in Ids /\ p \in PcsOf(i)
    BY <2>1, ReachableIs DEF LocalPcs
  <2> DEFINE f == ConcreteAncestor(i)
  <2>3. f \in DOMAIN Functions /\ f \in Ids /\ p \in Functions[f] /\ p \in Pcs /\ FunctionAt(p) = f
    BY <2>2, AncestorIs, FunctionAtIs DEF Ids
  <2>4. ~IsInlined(f) /\ PcsOf(f) = Functions[f]
    <3>1. ~IsInlined(f)
      BY <2>3, InliningsAssumption DEF Shaped, IsInlined
    <3> QED BY <2>3, <3>1, PcsAre
  <2> HIDE DEF f
  <2>5. CASE f \in Reachable(id)
    <3>1. Functions[f] \subseteq Subtree(id)
      BY <2>4, <2>5, PartsReachable DEF Subtree
    <3> QED BY <2>3, <2>5, <3>1
  <2>6. CASE f \notin Reachable(id)
    <3>1. i = id \/ i \in Descendants(id)
      BY <2>1, <2>6, PartsReachable DEF f
    <3>2. f = ConcreteAncestor(id) /\ p \in PcsOf(id)
      BY <2>2, <3>1, DescendantsCompose DEF f
    <3>3. IsInlined(id)
      <4>1. ~IsInlined(id) => f = id
        BY <3>2, AncestorIs
      <4> QED BY <2>6, <4>1, ReachableIs
    <3> QED BY <2>3, <3>2, <3>3
  <2> QED BY <2>5, <2>6
<1> QED BY <1>1, <1>2 DEF Subtree

\* What an instance reaches calls only what it reaches.
LEMMA CallIsReached ==
  ASSUME Shaped, NEW id \in Ids, NEW i \in Reachable(id), NEW p \in LocalPcs(i), p \in Calls
  PROVE  code[p].to \in Reachable(id) /\ Functions[code[p].to] \subseteq Subtree(id)
<1>1. i \in Ids /\ CallOwner(p) = i
  BY ReachableIs, OwnerIs
<1>2. code[p].to \in Edges(i)
  BY <1>1 DEF Edges
<1>3. code[p].to \in Reachable(id)
  BY <1>2, ReachableIs
<1>4. code[p].to \in DOMAIN Functions /\ ~IsInlined(code[p].to) /\ code[p].to \in Ids
  BY CodeAssumption, InliningsAssumption DEF Shaped, Calls, IsInlined, Ids
<1>5. Functions[code[p].to] \subseteq Subtree(id)
  <2>1. PcsOf(code[p].to) = Functions[code[p].to]
    BY <1>4, PcsAre
  <2> QED BY <1>3, <2>1, PartsReachable DEF Subtree
<1> QED BY <1>3, <1>5

\* An extent has all of each function that is called from within it.
LEMMA CallStays ==
  ASSUME Shaped, BodiesCallOthers, NEW id \in Ids, NEW p \in Subtree(id),
         code[p].kind \in {"call", "tail"}
  PROVE  Functions[code[p].to] \subseteq Subtree(id)
<1>1. p \in Pcs
  BY ExtentIs
<1>2. p \notin Absorbed(id)
  <2>1. IsInlined(id) => p \notin Absorbed(id)
    BY DEF BodiesCallOthers, IsInlined
  <2>2. ~IsInlined(id) => Absorbed(id) = {}
    BY DEF Absorbed
  <2> QED BY <2>1, <2>2
<1>3. CASE code[p].to = FunctionAt(p)
  <2>1. ASSUME IsInlined(id), FunctionAt(p) = ConcreteAncestor(id), p \in PcsOf(id) PROVE FALSE
    <3>1. p \in SelfCalls(ConcreteAncestor(id))
      BY <1>1, <1>3, <2>1, FunctionAtIs DEF SelfCalls
    <3> QED BY <2>1, <3>1 DEF BodiesCallOthers, IsInlined
  <2> QED BY <1>2, <1>3, <2>1, ExtentIs
<1>4. CASE code[p].to # FunctionAt(p)
  <2>1. p \in Calls
    BY <1>1, <1>4 DEF Calls
  <2>2. PICK i \in Reachable(id) : p \in LocalPcs(i)
    BY <1>2 DEF Subtree, ExecutionPcs
  <2> QED BY <2>1, <2>2, CallIsReached
<1> QED BY <1>3, <1>4

-----------------------------------------------------------------------------
\* Calls that are the last act of a function.

\* What f becomes by such calls, g among them.
TailTo(f, g) ==
  \A T \in SUBSET DOMAIN Functions :
    f \in T /\ (\A p \in TailCalls : FunctionAt(p) \in T => code[p].to \in T) => g \in T

\* TailTo is closed under calls that are the last act of a function.
LEMMA TailToIs ==
  ASSUME Shaped
  PROVE  /\ \A f : TailTo(f, f)
         /\ \A f : \A p \in TailCalls : TailTo(f, FunctionAt(p)) => TailTo(f, code[p].to)
         /\ \A f \in DOMAIN Functions : \A g : TailTo(f, g) => g \in DOMAIN Functions
<1>1. \A p \in TailCalls : code[p].to \in DOMAIN Functions
  BY CodeAssumption DEF Shaped, TailCalls, Calls
<1>2. ASSUME NEW f \in DOMAIN Functions, NEW g, TailTo(f, g) PROVE g \in DOMAIN Functions
  BY <1>1, <1>2 DEF TailTo
<1>3. ASSUME NEW f, NEW p \in TailCalls, TailTo(f, FunctionAt(p)) PROVE TailTo(f, code[p].to)
  BY <1>3 DEF TailTo
<1>4. \A f : TailTo(f, f)
  BY DEF TailTo
<1> QED BY <1>2, <1>3, <1>4

\* What a part of an instance is made of the instance is made of.
LEMMA ReachableGrows ==
  ASSUME Shaped, NEW id \in Ids, NEW i \in Reachable(id)
  PROVE  Reachable(i) \subseteq Reachable(id)
<1>1. i \in Ids /\ Reachable(id) \in SUBSET Ids
  BY ReachableIs
<1>2. \A j \in Reachable(id) : Edges(j) \subseteq Reachable(id)
  BY ReachableIs
<1> QED BY <1>1, <1>2, ReachableIs

\* A function is made of all that it becomes.
LEMMA TailIsReached ==
  ASSUME Shaped, NEW f \in DOMAIN Functions, NEW g, TailTo(f, g)
  PROVE  g \in Reachable(f)
<1> DEFINE T == Reachable(f) \cap DOMAIN Functions
<1>1. f \in Ids /\ f \in T
  BY ReachableIs DEF Ids
<1>2. ASSUME NEW p \in TailCalls, FunctionAt(p) \in T PROVE code[p].to \in T
  <2> DEFINE h == FunctionAt(p)
  <2>1. p \in Calls /\ p \in Pcs
    BY DEF TailCalls, Calls
  <2>2. h \in Ids /\ ~IsInlined(h) /\ p \in Functions[h]
    BY <1>2, <2>1, FunctionAtIs, InliningsAssumption DEF Shaped, Ids, IsInlined
  <2>3. p \in PcsOf(h)
    BY <2>2, PcsAre
  <2>4. PICK i \in {h} \cup Descendants(h) : p \in LocalPcs(i)
    BY <2>2, <2>3, LocalsCover
  <2>5. i \in Reachable(f)
    BY <1>1, <1>2, <2>4, PartsReachable
  <2>6. code[p].to \in Reachable(f)
    BY <1>1, <2>1, <2>4, <2>5, CallIsReached
  <2>7. code[p].to \in DOMAIN Functions
    BY <2>1, CodeAssumption DEF Shaped, Calls
  <2> QED BY <2>6, <2>7
<1>3. T \in SUBSET DOMAIN Functions
  OBVIOUS
<1>4. g \in T
  <2> HIDE DEF T
  <2> QED BY <1>1, <1>2, <1>3 DEF TailTo
<1> QED BY <1>4

\* A function that calls itself and returns becomes no other.
LEMMA TailFromSelf ==
  ASSUME Shaped, SelfCallsReturn, NEW f \in DOMAIN Functions, NEW q \in SelfCalls(f), Links(q),
         NEW g, TailTo(f, g)
  PROVE  g = f
<1>1. ASSUME NEW p \in TailCalls, FunctionAt(p) \in {f} PROVE FALSE
  <2>1. \A k \in SelfCalls(FunctionAt(p)) : ~Links(k)
    BY DEF SelfCallsReturn
  <2> QED BY <1>1, <2>1
<1>2. {f} \in SUBSET DOMAIN Functions
  OBVIOUS
<1>3. g \in {f}
  BY <1>1, <1>2 DEF TailTo
<1> QED BY <1>3

\* zkvm_exit() becomes nothing and is made of itself alone.
LEMMA ExitIsFinal ==
  ASSUME Shaped, "zkvm_exit" \in DOMAIN Functions
  PROVE  /\ \A g : TailTo("zkvm_exit", g) => g = "zkvm_exit"
         /\ Subtree("zkvm_exit") = Functions["zkvm_exit"]
<1> DEFINE x == "zkvm_exit"
<1>1. ASSUME NEW p \in Calls PROVE FunctionAt(p) # x
  <2>1. p \in Pcs /\ code[p].kind \in {"call", "tail"}
    BY DEF Calls
  <2> QED BY <2>1, CodeAssumption DEF Shaped
<1>2. ASSUME NEW g, TailTo(x, g) PROVE g = x
  <2>1. \A p \in TailCalls : FunctionAt(p) \notin {x}
    BY <1>1 DEF TailCalls
  <2>2. {x} \in SUBSET DOMAIN Functions
    OBVIOUS
  <2>3. g \in {x}
    BY <1>2, <2>1, <2>2 DEF TailTo
  <2> QED BY <2>3
<1>3. x \in Ids /\ ~IsInlined(x) /\ PcsOf(x) = Functions[x] /\ ConcreteAncestor(x) = x
  <2>1. x \in Ids /\ ~IsInlined(x)
    BY InliningsAssumption DEF Shaped, Ids, IsInlined
  <2> QED BY <2>1, PcsAre, AncestorIs
<1> HIDE DEF x
<1> DEFINE T == {i \in Ids : ConcreteAncestor(i) = x}
<1>4. ASSUME NEW i \in T, NEW j \in Edges(i) PROVE j \in T
  <2>1. CASE j \in Children(i)
    <3>1. j \in Ids /\ IsInlined(j) /\ inlined[j].parent = i
      BY <2>1 DEF Children, Ids, IsInlined
    <3> QED BY <3>1, AncestorIs
  <2>2. CASE j \notin Children(i)
    <3>1. PICK q \in Calls : CallOwner(q) = i
      BY <2>2, <1>4 DEF Edges
    <3>2. q \in Pcs /\ FunctionAt(q) # x
      BY <1>1 DEF Calls
    <3>3. FunctionAt(q) \in DOMAIN Functions /\ q \in Functions[FunctionAt(q)]
      BY <3>2, FunctionAtIs
    <3> DEFINE f == FunctionAt(q)
    <3>4. f \in Ids /\ ~IsInlined(f) /\ PcsOf(f) = Functions[f] /\ ConcreteAncestor(f) = f
      <4>1. f \in Ids /\ ~IsInlined(f)
        BY <3>3, InliningsAssumption DEF Shaped, Ids, IsInlined
      <4> QED BY <4>1, PcsAre, AncestorIs
    <3>5. PICK k \in {f} \cup Descendants(f) : q \in LocalPcs(k)
      BY <3>3, <3>4, LocalsCover
    <3>6. k \in Ids /\ ConcreteAncestor(k) = f
      BY <3>4, <3>5, DescendantsAre, DescendantsCompose DEF Ids
    <3>7. k = i
      BY <3>1, <3>5, <3>6, OwnerIs
    <3> QED BY <1>4, <3>2, <3>6, <3>7
  <2> QED BY <2>1, <2>2
<1>5. Reachable(x) \subseteq T
  <2>1. T \in SUBSET Ids /\ x \in T
    BY <1>3
  <2> HIDE DEF T
  <2> QED BY <1>3, <1>4, <2>1, ReachableIs
<1>6. Subtree(x) \subseteq Functions[x]
  <2>1. Absorbed(x) = {}
    BY <1>3 DEF Absorbed
  <2>2. ASSUME NEW i \in Reachable(x), NEW p \in LocalPcs(i) PROVE p \in Functions[x]
    BY <1>5, AncestorIs DEF LocalPcs
  <2> QED BY <2>1, <2>2 DEF Subtree, ExecutionPcs
<1>7. Functions[x] \subseteq Subtree(x)
  BY <1>3, ReachableIs, PartsReachable DEF Subtree
<1> QED BY <1>2, <1>6, <1>7 DEF x

-----------------------------------------------------------------------------
\* The return addresses, after the fixpoint.

TargetsInv ==
  /\ return_targets = [f \in DOMAIN Functions |-> return_targets[f]]
  /\ \A p \in Calls : Links(p) => p + 1 \in return_targets[code[p].to]
  /\ phase # "returns" =>
       \A p \in TailCalls : return_targets[FunctionAt(p)] \subseteq return_targets[code[p].to]

\* What a function becomes returns wherever the function may return to.
LEMMA TargetsInherited ==
  ASSUME Shaped, TargetsInv, phase # "returns", NEW f \in DOMAIN Functions, NEW g, TailTo(f, g)
  PROVE  return_targets[f] \subseteq return_targets[g]
<1> DEFINE T == {h \in DOMAIN Functions : return_targets[f] \subseteq return_targets[h]}
<1>1. f \in T /\ T \in SUBSET DOMAIN Functions
  OBVIOUS
<1>2. ASSUME NEW p \in TailCalls, FunctionAt(p) \in T PROVE code[p].to \in T
  <2>1. code[p].to \in DOMAIN Functions
    BY CodeAssumption DEF Shaped, TailCalls, Calls
  <2>2. return_targets[FunctionAt(p)] \subseteq return_targets[code[p].to]
    BY DEF TargetsInv
  <2> QED BY <1>2, <2>1, <2>2
<1>3. g \in T
  <2> HIDE DEF T
  <2> QED BY <1>1, <1>2 DEF TailTo
<1> QED BY <1>3

-----------------------------------------------------------------------------
\* The stack of return addresses.

\* The function that runs above k return addresses of the stack st.
Runs(k, here, st) == FunctionAt(IF k \in DOMAIN st THEN st[k] - 1 ELSE here)

\* What runs above a return address is what the call before it has become.
StackIs(here, st) ==
  /\ here \in Pcs /\ st \in Seq(Nat)
  /\ \A k \in DOMAIN st :
       /\ st[k] - 1 \in Pcs /\ code[st[k] - 1].kind = "call"
       /\ TailTo(code[st[k] - 1].to, Runs(k + 1, here, st))

\* An instance has been entered above d return addresses: what is on the stack
\* above them are calls that it holds, and below them is a call of its function.
EnteredAbove(id, d, here, st) ==
  /\ d \in 0 .. Len(st)
  /\ \A k \in DOMAIN st : k > d => st[k] - 1 \in Subtree(id)
  /\ TailTo(ConcreteAncestor(id), Runs(d + 1, here, st))
  /\ d # 0 => TailTo(code[st[d] - 1].to, ConcreteAncestor(id))

Inside(id, here, st) == here \in Subtree(id) /\ \E d : EnteredAbove(id, d, here, st)

\* A function starts at one of its program counters.
LEMMA StartIsIn == ASSUME NEW f \in DOMAIN Functions PROVE Start(f) \in Functions[f]
<1>1. Functions[f] \in SUBSET Nat /\ Functions[f] # {}
  BY LayoutAssumption
<1>2. \E p \in Functions[f] : \A q \in Functions[f] : p <= q
  BY <1>1, Least
<1> QED BY <1>2 DEF Start

\* A run that is at the entry of an instance is inside it.
LEMMA EnteredIsInside ==
  ASSUME Shaped, NEW id \in Ids, NEW st, StackIs(EntryOf(id), st)
  PROVE  Inside(id, EntryOf(id), st)
<1> DEFINE n == Len(st)
           here == EntryOf(id)
           h == ConcreteAncestor(id)
<1>1. st \in Seq(Nat) /\ n \in Nat /\ DOMAIN st = 1 .. n
  BY DEF StackIs
<1>2. here \in PcsOf(id) /\ h \in DOMAIN Functions /\ here \in Functions[h] /\ FunctionAt(here) = h
  BY EntryIs, AncestorIs, FunctionAtIs
<1>3. here \in Subtree(id)
  BY <1>2, ReachableIs, PartsReachable DEF Subtree
<1>4. Runs(n + 1, here, st) = h
  BY <1>1, <1>2 DEF Runs
<1>5. n # 0 => TailTo(code[st[n] - 1].to, h)
  <2>1. n # 0 => n \in DOMAIN st
    BY <1>1
  <2> HIDE DEF n, h, here
  <2> QED BY <1>4, <2>1 DEF StackIs, here
<1>6. \A k \in DOMAIN st : ~(k > n)
  BY <1>1
<1>7. TailTo(h, Runs(n + 1, here, st))
  BY <1>4, TailToIs
<1>8. n \in 0 .. Len(st)
  BY <1>1
<1>9. EnteredAbove(id, n, here, st)
  <2> HIDE DEF n, h, here
  <2> QED BY <1>5, <1>6, <1>7, <1>8 DEF EnteredAbove, h
<1> QED BY <1>3, <1>9 DEF Inside

\* If the same functions run above the same return addresses, and at the top
\* what the one there becomes, then nothing has changed for the stack.
LEMMA StackStays ==
  ASSUME Shaped, NEW here, NEW to \in Pcs, NEW st, StackIs(here, st),
         \A f : TailTo(f, FunctionAt(here)) => TailTo(f, FunctionAt(to))
  PROVE  /\ StackIs(to, st)
         /\ \A id, d : EnteredAbove(id, d, here, st) => EnteredAbove(id, d, to, st)
<1>1. \A f, k : TailTo(f, Runs(k, here, st)) => TailTo(f, Runs(k, to, st))
  BY DEF Runs
<1> QED BY <1>1 DEF StackIs, EnteredAbove

\* Where an instruction leads that neither calls nor returns is its own function.
LEMMA SuccessorsStay ==
  ASSUME Shaped, NEW here \in Pcs, code[here].kind \in {"plain", "ecall", "branch", "jump"},
         NEW to \in Successors(here)
  PROVE  to \in Functions[FunctionAt(here)] /\ to \in Pcs /\ FunctionAt(to) = FunctionAt(here)
<1>1. code[here].kind \in {"branch", "jump"} => code[here].to \in Functions[FunctionAt(here)]
  BY CodeAssumption DEF Shaped
<1>2. to \in Functions[FunctionAt(here)]
  BY <1>1 DEF Successors
<1> QED BY <1>2, FunctionAtIs

\* A run goes on inside an instance or by an exit when it neither calls nor returns.
LEMMA StepLeaves ==
  ASSUME Shaped, NEW here, NEW st, StackIs(here, st), NEW to \in Successors(here),
         code[here].kind \in {"plain", "ecall", "branch", "jump"}
  PROVE  /\ StackIs(to, st)
         /\ \A id \in Ids : Inside(id, here, st) =>
              /\ to \in Subtree(id) => Inside(id, to, st)
              /\ to \in Subtree(id) \cup Exits(id, Subtree(id))
<1>1. here \in Pcs
  BY DEF StackIs
<1>2. to \in Functions[FunctionAt(here)] /\ to \in Pcs /\ FunctionAt(to) = FunctionAt(here)
  BY <1>1, SuccessorsStay
<1>3. StackIs(to, st) /\ \A id, d : EnteredAbove(id, d, here, st) => EnteredAbove(id, d, to, st)
  BY <1>2, StackStays
<1>4. ASSUME NEW id \in Ids, Inside(id, here, st)
      PROVE  to \in Subtree(id) \cup Exits(id, Subtree(id))
  <2>1. here \in Subtree(id)
    BY <1>4 DEF Inside
  <2>2. CASE id = "zkvm_exit"
    <3>1. "zkvm_exit" \in DOMAIN Functions
      BY <2>2, InliningsAssumption DEF Shaped, Ids
    <3>2. here \in Functions["zkvm_exit"] /\ FunctionAt(here) = "zkvm_exit"
      BY <2>1, <2>2, <3>1, ExitIsFinal, FunctionAtIs
    <3> QED BY <1>2, <2>2, <3>1, <3>2, ExitIsFinal
  <2>3. CASE id # "zkvm_exit"
    BY <2>1, <2>3 DEF Exits
  <2> QED BY <2>2, <2>3
<1> QED BY <1>3, <1>4 DEF Inside

\* A call as the last act of a function stays inside.
LEMMA TailCallStays ==
  ASSUME Shaped, NEW here, NEW st, StackIs(here, st), code[here].kind = "tail"
  PROVE  /\ StackIs(Start(code[here].to), st)
         /\ BodiesCallOthers =>
              \A id \in Ids : Inside(id, here, st) => Inside(id, Start(code[here].to), st)
<1> DEFINE g == code[here].to
<1>1. here \in Pcs /\ g \in DOMAIN Functions
  BY CodeAssumption DEF StackIs, Shaped
<1>2. Start(g) \in Functions[g] /\ Start(g) \in Pcs /\ FunctionAt(Start(g)) = g
  BY <1>1, StartIsIn, FunctionAtIs
<1>3. ASSUME NEW f, TailTo(f, FunctionAt(here)) PROVE TailTo(f, FunctionAt(Start(g)))
  <2>1. CASE g = FunctionAt(here)
    BY <1>2, <1>3, <2>1
  <2>2. CASE g # FunctionAt(here)
    <3>1. here \in TailCalls
      BY <1>1, <2>2 DEF TailCalls, Calls, Links
    <3> QED BY <1>2, <1>3, <3>1, TailToIs
  <2> QED BY <2>1, <2>2
<1>4. /\ StackIs(Start(g), st)
      /\ \A id, d : EnteredAbove(id, d, here, st) => EnteredAbove(id, d, Start(g), st)
  BY <1>2, <1>3, StackStays
<1>5. ASSUME BodiesCallOthers, NEW id \in Ids, here \in Subtree(id) PROVE Start(g) \in Subtree(id)
  BY <1>2, <1>5, CallStays
<1> QED BY <1>4, <1>5 DEF Inside

\* A call stays inside, and is one that the instance holds.
LEMMA CallIsHeld ==
  ASSUME Shaped, NEW here, NEW st, StackIs(here, st), code[here].kind = "call"
  PROVE  /\ StackIs(Start(code[here].to), Append(st, here + 1))
         /\ BodiesCallOthers =>
              \A id \in Ids :
                Inside(id, here, st) => Inside(id, Start(code[here].to), Append(st, here + 1))
<1> DEFINE g == code[here].to
           n == Len(st)
           new == Append(st, here + 1)
           to == Start(g)
<1>1. here \in Pcs /\ here \in Nat /\ g \in DOMAIN Functions
  BY CodeAssumption, LayoutAssumption DEF StackIs, Shaped, Pcs
<1>2. to \in Functions[g] /\ to \in Pcs /\ FunctionAt(to) = g
  BY <1>1, StartIsIn, FunctionAtIs
<1>3. st \in Seq(Nat) /\ n \in Nat /\ DOMAIN st = 1 .. n
  BY DEF StackIs
<1>4. /\ new \in Seq(Nat) /\ Len(new) = n + 1 /\ DOMAIN new = 1 .. n + 1
      /\ new[n + 1] = here + 1 /\ \A k \in 1 .. n : new[k] = st[k]
  BY <1>1, <1>3
<1>5. (here + 1) - 1 = here
  BY <1>1
<1> HIDE DEF n, new, to, g
<1>6. \A k \in 1 .. n + 1 : Runs(k, to, new) = Runs(k, here, st)
  <2> SUFFICES ASSUME NEW k \in 1 .. n + 1 PROVE Runs(k, to, new) = Runs(k, here, st)
    OBVIOUS
  <2>1. CASE k = n + 1
    <3>1. k \in DOMAIN new /\ k \notin DOMAIN st /\ new[k] - 1 = here
      BY <1>3, <1>4, <1>5, <2>1
    <3> QED BY <3>1 DEF Runs
  <2>2. CASE k # n + 1
    <3>1. k \in DOMAIN new /\ k \in DOMAIN st /\ new[k] = st[k]
      BY <1>3, <1>4, <2>2
    <3> QED BY <3>1 DEF Runs
  <2> QED BY <2>1, <2>2
<1>7. Runs((n + 1) + 1, to, new) = g
  <2>1. (n + 1) + 1 \notin DOMAIN new
    BY <1>3, <1>4
  <2> QED BY <1>2, <2>1 DEF Runs
<1>8. StackIs(to, new)
  <2>1. ASSUME NEW k \in DOMAIN new
        PROVE  /\ new[k] - 1 \in Pcs /\ code[new[k] - 1].kind = "call"
               /\ TailTo(code[new[k] - 1].to, Runs(k + 1, to, new))
    <3>1. CASE k = n + 1
      <4>1. new[k] - 1 = here
        BY <1>4, <1>5, <3>1
      <4>2. TailTo(g, Runs(k + 1, to, new))
        BY <1>7, <3>1, TailToIs
      <4> QED BY <1>1, <4>1, <4>2 DEF g
    <3>2. CASE k # n + 1
      <4>1. k \in DOMAIN st /\ new[k] = st[k] /\ k + 1 \in 1 .. n + 1
        BY <1>3, <1>4, <3>2
      <4> QED BY <1>6, <4>1 DEF StackIs
    <3> QED BY <3>1, <3>2
  <2> QED BY <1>2, <1>4, <2>1 DEF StackIs
<1>9. ASSUME BodiesCallOthers, NEW id \in Ids, Inside(id, here, st) PROVE Inside(id, to, new)
  <2>1. PICK d : EnteredAbove(id, d, here, st)
    BY <1>9 DEF Inside
  <2>2. here \in Subtree(id) /\ to \in Subtree(id)
    BY <1>2, <1>9, CallStays DEF Inside, g
  <2>3. d \in 0 .. n /\ d \in 0 .. Len(new) /\ d + 1 \in 1 .. n + 1
    BY <1>3, <1>4, <2>1 DEF EnteredAbove, n
  <2>4. ASSUME NEW k \in DOMAIN new, k > d PROVE new[k] - 1 \in Subtree(id)
    <3>1. CASE k = n + 1
      BY <1>4, <1>5, <2>2, <3>1
    <3>2. CASE k # n + 1
      <4>1. k \in DOMAIN st /\ new[k] = st[k]
        BY <1>3, <1>4, <3>2
      <4> QED BY <2>1, <2>4, <4>1 DEF EnteredAbove
    <3> QED BY <3>1, <3>2
  <2>5. TailTo(ConcreteAncestor(id), Runs(d + 1, to, new))
    BY <1>6, <2>1, <2>3 DEF EnteredAbove
  <2>6. d # 0 => TailTo(code[new[d] - 1].to, ConcreteAncestor(id))
    <3>1. d # 0 => new[d] = st[d]
      BY <1>4, <2>3
    <3> QED BY <2>1, <3>1 DEF EnteredAbove
  <2>7. EnteredAbove(id, d, to, new)
    BY <2>3, <2>4, <2>5, <2>6 DEF EnteredAbove
  <2> QED BY <2>2, <2>7 DEF Inside
<1> QED BY <1>8, <1>9 DEF new, to, g

\* A return: what runs afterwards is the function that has made the call.
LEMMA ReturnIs ==
  ASSUME Shaped, NEW here, NEW st, StackIs(here, st), code[here].kind = "ret", st # <<>>
  PROVE  LET n == Len(st)
             q == st[n] - 1
         IN
         /\ n \in Nat \ {0} /\ DOMAIN st = 1 .. n /\ DOMAIN Front(st) = 1 .. n - 1
         /\ Last(st) = q + 1 /\ q + 1 \in Pcs
         /\ q \in Pcs /\ code[q].kind = "call" /\ TailTo(code[q].to, FunctionAt(here))
         /\ FunctionAt(q + 1) = FunctionAt(q)
         /\ StackIs(Last(st), Front(st))
         /\ \A k \in 1 .. n : Runs(k, Last(st), Front(st)) = Runs(k, here, st)
<1> DEFINE n == Len(st)
           q == st[n] - 1
           new == Front(st)
           to == Last(st)
<1>1. /\ st \in Seq(Nat) /\ n \in Nat \ {0} /\ DOMAIN st = 1 .. n
      /\ new \in Seq(Nat) /\ Len(new) = n - 1 /\ DOMAIN new = 1 .. n - 1
      /\ \A k \in 1 .. n - 1 : new[k] = st[k]
      /\ to = st[n] /\ st[n] \in Nat
  <2>1. st \in Seq(Nat) /\ n \in Nat \ {0} /\ DOMAIN st = 1 .. n
    BY DEF StackIs
  <2>2. new = [k \in 1 .. n - 1 |-> st[k]] /\ to = st[n]
    BY <2>1 DEF Front, Last
  <2>3. \A k \in 1 .. n - 1 : st[k] \in Nat
    BY <2>1
  <2> HIDE DEF n, new, to
  <2>4. n - 1 \in Nat
    BY <2>1
  <2>5. new \in Seq(Nat) /\ Len(new) = n - 1
    BY <2>2, <2>3, <2>4
  <2> QED BY <2>1, <2>2, <2>5
<1> HIDE DEF n, new, to
<1>2. n \in DOMAIN st /\ n + 1 \notin DOMAIN st
  BY <1>1
<1>3. q \in Pcs /\ code[q].kind = "call" /\ TailTo(code[q].to, Runs(n + 1, here, st))
  BY <1>2 DEF StackIs
<1>4. Runs(n + 1, here, st) = FunctionAt(here)
  BY <1>2 DEF Runs
<1>5. to = q + 1
  BY <1>1
<1>6. code[q].to # "zkvm_exit"
  <2> SUFFICES ASSUME code[q].to = "zkvm_exit" PROVE FALSE
    OBVIOUS
  <2>1. "zkvm_exit" \in DOMAIN Functions
    BY <1>3, CodeAssumption DEF Shaped
  <2>2. FunctionAt(here) = "zkvm_exit"
    BY <1>3, <1>4, <2>1, ExitIsFinal
  <2> QED BY <2>2, CodeAssumption DEF StackIs, Shaped
<1> HIDE DEF q
<1>7. q + 1 \in Functions[FunctionAt(q)]
  BY <1>3, <1>6, CodeAssumption DEF Shaped
<1>8. q + 1 \in Pcs /\ FunctionAt(q + 1) = FunctionAt(q)
  BY <1>3, <1>7, FunctionAtIs
<1>9. \A k \in 1 .. n : Runs(k, to, new) = Runs(k, here, st)
  <2> SUFFICES ASSUME NEW k \in 1 .. n PROVE Runs(k, to, new) = Runs(k, here, st)
    OBVIOUS
  <2>1. CASE k = n
    <3>1. k \notin DOMAIN new /\ k \in DOMAIN st /\ st[k] - 1 = q
      BY <1>1, <2>1 DEF q
    <3> QED BY <1>5, <1>8, <3>1 DEF Runs
  <2>2. CASE k # n
    <3>1. k \in DOMAIN new /\ k \in DOMAIN st /\ new[k] = st[k]
      BY <1>1, <2>2
    <3> QED BY <3>1 DEF Runs
  <2> QED BY <2>1, <2>2
<1>10. StackIs(to, new)
  <2>1. ASSUME NEW k \in DOMAIN new
        PROVE  /\ new[k] - 1 \in Pcs /\ code[new[k] - 1].kind = "call"
               /\ TailTo(code[new[k] - 1].to, Runs(k + 1, to, new))
    <3>1. k \in DOMAIN st /\ new[k] = st[k] /\ k + 1 \in 1 .. n
      BY <1>1
    <3> QED BY <1>9, <3>1 DEF StackIs
  <2> QED BY <1>1, <1>5, <1>8, <2>1 DEF StackIs
<1> QED BY <1>1, <1>3, <1>4, <1>5, <1>8, <1>9, <1>10 DEF n, q, new, to

\* Of something that the instance has called.
LEMMA ReturnToHeld ==
  ASSUME Shaped, BodiesCallOthers, NEW id \in Ids, id # "zkvm_exit",
         NEW q \in Pcs, q \in Subtree(id), code[q].kind = "call",
         q + 1 \in Pcs, FunctionAt(q + 1) = FunctionAt(q)
  PROVE  q + 1 \in Subtree(id) \cup Exits(id, Subtree(id))
<1>1. CASE code[q].to = FunctionAt(q)
  BY <1>1, CallStays, FunctionAtIs
<1>2. CASE code[q].to # FunctionAt(q)
  <2>1. q \in {p \in Calls \cap Subtree(id) : Links(p)}
    BY <1>2 DEF Calls, Links
  <2> QED BY <2>1 DEF Exits
<1> QED BY <1>1, <1>2

\* Of the function that the instance is of or in, or what that has become.
LEMMA ReturnToCaller ==
  ASSUME Shaped, Reviewed, TargetsInv, phase # "returns",
         NEW id \in Ids, id # "zkvm_exit",
         NEW here \in Subtree(id), code[here].kind = "ret", here \in Pcs,
         NEW q \in Pcs, code[q].kind = "call", q + 1 \in Pcs, FunctionAt(q + 1) = FunctionAt(q),
         TailTo(code[q].to, ConcreteAncestor(id)), TailTo(ConcreteAncestor(id), FunctionAt(here))
  PROVE  /\ q + 1 \in Subtree(id) \cup Exits(id, Subtree(id))
         /\ q + 1 \in Subtree(id) => FunctionAt(q) = ConcreteAncestor(id)
<1> DEFINE h == ConcreteAncestor(id)
           f == FunctionAt(q)
           g == code[q].to
<1>0. BodiesCallOthers /\ SelfCallsReturn /\ CallsDescend
  BY DEF Reviewed
<1>1. h \in DOMAIN Functions /\ g \in DOMAIN Functions /\ f \in DOMAIN Functions
  BY AncestorIs, FunctionAtIs, CodeAssumption DEF Shaped
<1>2. CASE g = f
  <2>1. q \in SelfCalls(f) /\ Links(q)
    BY <1>2, FunctionAtIs DEF SelfCalls, Links
  <2>2. h = f
    BY <1>0, <1>1, <1>2, <2>1, TailFromSelf
  <2>3. FunctionAt(here) = f
    BY <1>0, <1>1, <2>1, <2>2, TailFromSelf
  <2>4. ASSUME IsInlined(id), here \in PcsOf(id) \cup Absorbed(id) PROVE FALSE
    <3>1. \A k \in SelfCalls(FunctionAt(here)) : ~Links(k)
      BY <1>0, <2>4 DEF SelfCallsReturn, IsInlined
    <3> QED BY <2>1, <2>3, <3>1
  <2>5. Functions[f] \subseteq Subtree(id)
    BY <2>3, <2>4, ExtentIs
  <2>6. q + 1 \in Functions[f]
    BY FunctionAtIs
  <2> QED BY <2>2, <2>5, <2>6
<1>3. CASE g # f
  <2>1. q \in Calls /\ Links(q)
    BY <1>3 DEF Calls, Links
  <2>2. q + 1 \in return_targets[h]
    <3>1. q + 1 \in return_targets[g]
      BY <2>1 DEF TargetsInv
    <3> QED BY <1>1, <3>1, TargetsInherited
  <2>3. ReturnsOf(id, Subtree(id)) = return_targets[h]
    <3>1. ~IsInlined(id) => h = id
      BY AncestorIs
    <3> QED BY <3>1 DEF ReturnsOf
  <2>4. q + 1 \in Exits(id, Subtree(id))
    BY <2>2, <2>3 DEF Exits
  <2>5. ASSUME q + 1 \in Subtree(id) PROVE FALSE
    <3>1. g \in Ids /\ h \in Ids
      BY <1>1 DEF Ids
    <3>2. h \in Reachable(g)
      BY <1>1, TailIsReached
    <3>3. id \in Reachable(h)
      <4>1. CASE IsInlined(id)
        BY <3>1, <4>1, InlinedIsDescendant, ReachableIs, PartsReachable
      <4>2. CASE ~IsInlined(id)
        BY <3>1, <4>2, AncestorIs, ReachableIs
      <4> QED BY <4>1, <4>2
    <3>4. Reachable(id) \subseteq Reachable(g)
      BY <3>1, <3>2, <3>3, ReachableGrows
    <3>5. f \in Reachable(g)
      <4>1. f \in Reachable(id) \/ f = h
        BY <2>5, ExtentIs
      <4> QED BY <3>2, <3>4, <4>1
    <3> QED BY <1>0, <2>1, <3>5 DEF CallsDescend
  <2> QED BY <2>4, <2>5
<1> QED BY <1>2, <1>3

\* A return of a reviewed program goes on inside or by an exit.
LEMMA ReturnLeaves ==
  ASSUME Shaped, Reviewed, TargetsInv, phase # "returns",
         NEW here, NEW st, StackIs(here, st), code[here].kind = "ret", st # <<>>,
         NEW id \in Ids, Inside(id, here, st)
  PROVE  /\ Last(st) \in Subtree(id) => Inside(id, Last(st), Front(st))
         /\ Last(st) \in Subtree(id) \cup Exits(id, Subtree(id))
<1> DEFINE n == Len(st)
           q == st[n] - 1
           h == ConcreteAncestor(id)
           new == Front(st)
           to == Last(st)
<1>0. BodiesCallOthers
  BY DEF Reviewed
<1>1. /\ n \in Nat \ {0} /\ DOMAIN st = 1 .. n /\ DOMAIN new = 1 .. n - 1
      /\ to = q + 1 /\ q + 1 \in Pcs
      /\ q \in Pcs /\ code[q].kind = "call" /\ TailTo(code[q].to, FunctionAt(here))
      /\ FunctionAt(q + 1) = FunctionAt(q)
      /\ StackIs(to, new)
      /\ \A k \in 1 .. n : Runs(k, to, new) = Runs(k, here, st)
  BY ReturnIs
<1>2. Len(new) = n - 1
  <2>1. new \in Seq(Nat)
    BY <1>1 DEF StackIs
  <2> HIDE DEF new, n
  <2>2. Len(new) \in Nat /\ DOMAIN new = 1 .. Len(new)
    BY <2>1
  <2> QED BY <1>1, <2>2
<1>3. \A k \in DOMAIN new : new[k] = st[k]
  BY DEF Front
<1>4. PICK d : EnteredAbove(id, d, here, st)
  BY DEF Inside
<1>5. here \in Subtree(id) /\ here \in Pcs
  BY DEF Inside, StackIs
<1>6. id # "zkvm_exit"
  <2> SUFFICES ASSUME id = "zkvm_exit" PROVE FALSE
    OBVIOUS
  <2>1. "zkvm_exit" \in DOMAIN Functions
    BY InliningsAssumption DEF Shaped, Ids
  <2>2. FunctionAt(here) = "zkvm_exit"
    BY <1>5, <2>1, ExitIsFinal, FunctionAtIs
  <2> QED BY <1>5, <2>2, CodeAssumption DEF Shaped
<1>7. Runs(n + 1, here, st) = FunctionAt(here) /\ Runs(n, here, st) = FunctionAt(q)
  <2>1. n + 1 \notin DOMAIN st /\ n \in DOMAIN st
    BY <1>1
  <2> QED BY <2>1 DEF Runs
<1> HIDE DEF n, q, h, new, to
<1>8. CASE d # n
  <2>1. d \in 0 .. n - 1 /\ n > d /\ n \in DOMAIN st /\ d + 1 \in 1 .. n
    <3>1. d \in 0 .. n
      BY <1>4 DEF EnteredAbove, n
    <3> QED BY <1>1, <1>8, <3>1
  <2>2. q \in Subtree(id)
    BY <1>4, <2>1 DEF EnteredAbove, q
  <2>3. to \in Subtree(id) \cup Exits(id, Subtree(id))
    BY <1>0, <1>1, <1>6, <2>2, ReturnToHeld
  <2>4. EnteredAbove(id, d, to, new)
    <3>1. d # 0 => d \in DOMAIN new
      BY <1>1, <2>1
    <3>2. \A k \in DOMAIN new : k \in DOMAIN st
      BY <1>1
    <3> QED BY <1>1, <1>2, <1>3, <1>4, <2>1, <3>1, <3>2 DEF EnteredAbove
  <2> QED BY <2>3, <2>4 DEF Inside, to, new
<1>9. CASE d = n
  <2>1. TailTo(code[q].to, h) /\ TailTo(h, FunctionAt(here))
    BY <1>1, <1>4, <1>7, <1>9 DEF EnteredAbove, q, h
  <2>2. /\ to \in Subtree(id) \cup Exits(id, Subtree(id))
        /\ to \in Subtree(id) => FunctionAt(q) = h
    BY <1>1, <1>5, <1>6, <2>1, ReturnToCaller DEF h
  <2>3. ASSUME FunctionAt(q) = h PROVE EnteredAbove(id, n - 1, to, new)
    <3>1. n - 1 \in 0 .. Len(new) /\ (n - 1) + 1 = n /\ n \in 1 .. n
      BY <1>1, <1>2
    <3>2. Runs(n, to, new) = h
      BY <1>1, <1>7, <2>3, <3>1
    <3>3. \A k \in DOMAIN new : ~(k > n - 1)
      BY <1>1
    <3>4. n - 1 # 0 => TailTo(code[new[n - 1] - 1].to, h)
      <4>1. n - 1 # 0 => n - 1 \in DOMAIN new
        BY <1>1
      <4> QED BY <1>1, <3>1, <3>2, <4>1 DEF StackIs
    <3> QED BY <3>1, <3>2, <3>3, <3>4, TailToIs DEF EnteredAbove, h
  <2> QED BY <2>2, <2>3 DEF Inside, to, new
<1> QED BY <1>8, <1>9 DEF to, new

-----------------------------------------------------------------------------
\* The run, and the occurrences that follow it.

\* While the program runs, the stack of return addresses is one of calls that the
\* functions below have made, and above each runs what was called or what that has
\* become by tail calls; and if the program is reviewed the run is inside each
\* instance that has an occurrence: the extent holds the program counter, and the
\* calls on the stack since it was entered.
RunInv ==
  /\ Shaped /\ TargetsInv
  /\ DOMAIN depths \subseteq Ids
  /\ StackIs(pc, stack)
  /\ phase \in {"returns", "depths", "run"}
  /\ phase # "run" => manifest = <<>>
  /\ DOMAIN manifest \subseteq Ids /\ \A id \in DOMAIN manifest : manifest[id] = Row(id)
  /\ active \subseteq DOMAIN manifest
  /\ Reviewed => \A id \in active : Inside(id, pc, stack)

\* The program and its instances depend on the code and what is inlined.
LEMMA SameProgram ==
  ASSUME UNCHANGED <<code, inlined>>
  PROVE  /\ Shaped' <=> Shaped
         /\ Calls' = Calls /\ TailCalls' = TailCalls /\ \A p : Links(p)' <=> Links(p)
         /\ Ids' = Ids
         /\ \A id : EntryOf(id)' = EntryOf(id) /\ Subtree(id)' = Subtree(id)
         /\ \A id : ConcreteAncestor(id)' = ConcreteAncestor(id)
         /\ \A id : IsInlined(id)' <=> IsInlined(id)
         /\ Reviewed' <=> Reviewed
<1>1. /\ Shaped' <=> Shaped
      /\ Calls' = Calls /\ TailCalls' = TailCalls /\ Ids' = Ids
      /\ \A p : Links(p)' <=> Links(p)
  BY DEF Shaped, Calls, TailCalls, Links, Ids
<1>2. /\ \A id : Children(id)' = Children(id) /\ PcsOf(id)' = PcsOf(id)
      /\ \A id : IsInlined(id)' <=> IsInlined(id)
  BY DEF Children, PcsOf, IsInlined
<1>3. \A id : EntryOf(id)' = EntryOf(id)
  BY <1>2 DEF EntryOf
<1>4. \A id : Descendants(id)' = Descendants(id)
  BY <1>1, <1>2 DEF Descendants
<1>5. \A id : LocalPcs(id)' = LocalPcs(id)
  BY <1>2, <1>4 DEF LocalPcs, InlineDescendantPcs
<1>6. \A p : CallOwner(p)' = CallOwner(p)
  BY DEF CallOwner, FunctionAt, Descendants, Closure, Children, Ids
<1>7. \A id : Edges(id)' = Edges(id)
  BY <1>1, <1>2, <1>6 DEF Edges
<1>8. \A id : Reachable(id)' = Reachable(id)
  BY <1>1, <1>7 DEF Reachable
<1>9. \A id : Absorbed(id)' = Absorbed(id)
  BY <1>2, <1>3 DEF Absorbed, ClaimedInlinePcs
<1>10. \A id : Subtree(id)' = Subtree(id)
  BY <1>5, <1>8, <1>9 DEF Subtree, ExecutionPcs
<1>11. \A id : ConcreteAncestor(id)' = ConcreteAncestor(id)
  BY <1>1, <1>2 DEF ConcreteAncestor
<1>12. \A f : SelfCalls(f)' = SelfCalls(f)
  BY DEF SelfCalls
<1>13. Reviewed' <=> Reviewed
  <2>1. BodiesCallOthers' <=> BodiesCallOthers
    BY <1>2, <1>9, <1>11, <1>12 DEF BodiesCallOthers
  <2>2. SelfCallsReturn' <=> SelfCallsReturn
    BY <1>1, <1>2, <1>9, <1>12 DEF SelfCallsReturn
  <2>3. CallsDescend' <=> CallsDescend
    BY <1>1, <1>8 DEF CallsDescend
  <2> QED BY <2>1, <2>2, <2>3 DEF Reviewed
<1> QED BY <1>1, <1>2, <1>3, <1>10, <1>11, <1>13

\* So do the functions that run above the return addresses.
LEMMA SameStack ==
  ASSUME UNCHANGED <<code, inlined>>
  PROVE  \A here, st :
           /\ StackIs(here, st)' <=> StackIs(here, st)
           /\ \A id : Inside(id, here, st)' <=> Inside(id, here, st)
<1>1. \A f, g : TailTo(f, g)' <=> TailTo(f, g)
  BY SameProgram DEF TailTo, FunctionAt
<1>2. \A k, here, st : Runs(k, here, st)' = Runs(k, here, st)
  BY DEF Runs, FunctionAt
<1>3. \A here, st : StackIs(here, st)' <=> StackIs(here, st)
  BY <1>1, <1>2 DEF StackIs, Pcs
<1>4. \A id, d, here, st : EnteredAbove(id, d, here, st)' <=> EnteredAbove(id, d, here, st)
  BY <1>1, <1>2, SameProgram DEF EnteredAbove
<1>5. \A id, here, st : Inside(id, here, st)' <=> Inside(id, here, st)
  BY <1>4, SameProgram DEF Inside
<1> QED BY <1>3, <1>5

\* The rows of the manifest depend on the return targets as well.
LEMMA SameRows ==
  ASSUME UNCHANGED <<code, inlined, return_targets>>
  PROVE  \A id : Row(id)' = Row(id)
<1>1. \A id, extent : ReturnsOf(id, extent)' = ReturnsOf(id, extent)
  BY SameProgram DEF ReturnsOf
<1>2. \A p : Successors(p)' = Successors(p)
  BY DEF Successors, FunctionAt
<1>3. \A id, extent : Exits(id, extent)' = Exits(id, extent)
  BY <1>1, <1>2, SameProgram DEF Exits, Ends
<1> QED BY <1>3, SameProgram DEF Row

\* The invariant holds before the generator has done anything.
LEMMA RunInitially == ManifestInit => RunInv
<1> SUFFICES ASSUME ManifestInit PROVE RunInv
  OBVIOUS
<1>1. Shaped
  BY DEF ManifestInit, Shaped
<1>2. TargetsInv
  <2>1. return_targets = [f \in DOMAIN Functions |->
                            {p + 1 : p \in {q \in Calls : Links(q) /\ code[q].to = f}}]
        /\ phase = "returns"
    BY DEF ManifestInit
  <2>2. \A p \in Calls : code[p].to \in DOMAIN Functions
    BY <1>1, CodeAssumption DEF Shaped, Calls
  <2> QED BY <2>1, <2>2 DEF TargetsInv
<1>3. DOMAIN depths \subseteq Ids
  BY MainAssumption DEF ManifestInit, Ids
<1>4. StackIs(pc, stack)
  <2>1. pc \in Pcs /\ stack = <<>>
    BY MainAssumption, StartIsIn, FunctionAtIs DEF ManifestInit
  <2>2. <<>> \in Seq(Nat) /\ DOMAIN <<>> = {}
    OBVIOUS
  <2> QED BY <2>1, <2>2 DEF StackIs
<1>5. phase = "returns" /\ manifest = <<>> /\ active = {} /\ DOMAIN manifest = {}
  BY DEF ManifestInit
<1> QED BY <1>1, <1>2, <1>3, <1>4, <1>5 DEF RunInv

\* A run is inside each instance that has an occurrence.
LEMMA NowInside ==
  ASSUME RunInv, NEW id \in ActiveAt(active, pc)
  PROVE  /\ phase = "run" /\ id \in Ids /\ id \in DOMAIN manifest /\ manifest[id] = Row(id)
         /\ Reviewed => Inside(id, pc, stack)
<1>1. Shaped /\ StackIs(pc, stack) /\ DOMAIN manifest \subseteq Ids
  BY DEF RunInv
<1>2. id \in DOMAIN manifest /\ id \in Ids /\ manifest[id] = Row(id)
  BY <1>1 DEF ActiveAt, RunInv
<1>3. phase = "run"
  <2>1. manifest # <<>>
    BY <1>2
  <2> QED BY <2>1 DEF RunInv
<1>4. pc = EntryOf(id) \/ id \in active
  BY <1>2 DEF ActiveAt, Row
<1>5. pc = EntryOf(id) => Inside(id, pc, stack)
  BY <1>1, <1>2, EnteredIsInside
<1>6. Reviewed /\ id \in active => Inside(id, pc, stack)
  BY DEF RunInv
<1> QED BY <1>2, <1>3, <1>4, <1>5, <1>6

\* What the moves have in common.
LEMMA MoveKeeps ==
  ASSUME RunInv, NEW p, Move(p), StackIs(p, stack'),
         Reviewed => \A id \in Ids : Inside(id, pc, stack) /\ p \in Subtree(id)
                                      => Inside(id, p, stack')
  PROVE  RunInv'
<1>1. /\ phase = "run" /\ pc' = p
      /\ active' = {id \in ActiveAt(active, pc) : p \in manifest[id].extent}
      /\ UNCHANGED <<code, inlined, phase, return_targets, depths, manifest>>
  BY DEF Move, programVars
<1>2. /\ Shaped' /\ (Reviewed' <=> Reviewed) /\ Ids' = Ids
  BY <1>1, SameProgram DEF RunInv
<1>3. TargetsInv'
  BY <1>1, SameProgram DEF RunInv, TargetsInv, FunctionAt
<1>4. StackIs(pc, stack)'
  BY <1>1, SameStack
<1>5. \A id \in DOMAIN manifest' : manifest'[id] = Row(id)'
  BY <1>1, SameRows DEF RunInv
<1>6. ASSUME NEW id \in active'
      PROVE  id \in DOMAIN manifest' /\ (Reviewed => Inside(id, pc, stack)')
  <2>1. /\ id \in Ids /\ id \in DOMAIN manifest /\ manifest[id] = Row(id)
        /\ Reviewed => Inside(id, pc, stack)
    BY <1>1, NowInside
  <2>2. p \in Subtree(id)
    BY <1>1, <2>1 DEF Row
  <2>3. Reviewed => Inside(id, p, stack')
    BY <2>1, <2>2
  <2> QED BY <1>1, <2>1, <2>3, SameStack
<1> QED BY <1>1, <1>2, <1>3, <1>4, <1>5, <1>6 DEF RunInv

\* Where the program may go from an instance: where it goes is in it or an exit.
Goes(p) ==
  /\ Move(p) /\ StackIs(p, stack')
  /\ Reviewed => \A id \in Ids : Inside(id, pc, stack) =>
       /\ p \in Subtree(id) => Inside(id, p, stack')
       /\ p \in Subtree(id) \cup Exits(id, Subtree(id))

\* Each step of the running program is such a move.
LEMMA EveryMoveGoes ==
  ASSUME RunInv, Step \/ Call \/ TailCall \/ Return
  PROVE  \E p : Goes(p)
<1>1. Shaped /\ TargetsInv /\ StackIs(pc, stack) /\ pc \in Pcs
  BY DEF RunInv, StackIs
<1>2. Reviewed => BodiesCallOthers
  BY DEF Reviewed
<1>3. ASSUME Step PROVE \E p : Goes(p)
  <2>1. PICK p \in Successors(pc) : Move(p)
    BY <1>3 DEF Step
  <2>2. stack' = stack /\ code[pc].kind \in {"plain", "ecall", "branch", "jump"}
    BY <1>3 DEF Step
  <2>3. Goes(p)
    BY <1>1, <2>1, <2>2, StepLeaves DEF Goes
  <2> QED BY <2>3
<1>4. ASSUME Call PROVE \E p : Goes(p)
  <2> DEFINE p == Start(code[pc].to)
  <2>1. Move(p) /\ stack' = Append(stack, pc + 1) /\ code[pc].kind = "call"
    BY <1>4 DEF Call
  <2>2. /\ StackIs(p, stack')
        /\ BodiesCallOthers =>
             \A id \in Ids : Inside(id, pc, stack) => Inside(id, p, stack')
    BY <1>1, <2>1, CallIsHeld
  <2>3. \A id : Inside(id, p, stack') => p \in Subtree(id)
    BY DEF Inside
  <2> HIDE DEF p
  <2>4. Goes(p)
    BY <1>2, <2>1, <2>2, <2>3 DEF Goes
  <2> QED BY <2>4
<1>5. ASSUME TailCall PROVE \E p : Goes(p)
  <2> DEFINE p == Start(code[pc].to)
  <2>1. Move(p) /\ stack' = stack /\ code[pc].kind = "tail"
    BY <1>5 DEF TailCall
  <2>2. /\ StackIs(p, stack')
        /\ BodiesCallOthers =>
             \A id \in Ids : Inside(id, pc, stack) => Inside(id, p, stack')
    BY <1>1, <2>1, TailCallStays
  <2>3. \A id : Inside(id, p, stack') => p \in Subtree(id)
    BY DEF Inside
  <2> HIDE DEF p
  <2>4. Goes(p)
    BY <1>2, <2>1, <2>2, <2>3 DEF Goes
  <2> QED BY <2>4
<1>6. ASSUME Return PROVE \E p : Goes(p)
  <2> DEFINE p == Last(stack)
  <2>1. Move(p) /\ stack' = Front(stack) /\ code[pc].kind = "ret" /\ stack # <<>>
    BY <1>6 DEF Return
  <2>2. phase = "run"
    BY <2>1 DEF Move
  <2>3. StackIs(p, stack')
    BY <1>1, <2>1, ReturnIs
  <2>4. Reviewed => \A id \in Ids : Inside(id, pc, stack) =>
          /\ p \in Subtree(id) => Inside(id, p, stack')
          /\ p \in Subtree(id) \cup Exits(id, Subtree(id))
    BY <1>1, <2>1, <2>2, ReturnLeaves
  <2> HIDE DEF p
  <2>5. Goes(p)
    BY <2>1, <2>3, <2>4 DEF Goes
  <2> QED BY <2>5
<1> QED BY <1>3, <1>4, <1>5, <1>6

\* The generator's steps leave the program where it is, and nothing is active.
LEMMA GeneratorKeeps ==
  ASSUME RunInv, phase # "run", phase' \in {"returns", "depths", "run"},
         UNCHANGED <<code, inlined, pc, stack, active>>, TargetsInv',
         DOMAIN depths' \subseteq Ids,
         \/ phase' # "run" /\ manifest' = manifest
         \/ UNCHANGED return_targets /\ DOMAIN manifest' \subseteq Ids
            /\ phase' = "run" /\ \A id \in DOMAIN manifest' : manifest'[id] = Row(id)
  PROVE  RunInv'
<1>1. /\ Shaped' /\ Ids' = Ids /\ (Reviewed' <=> Reviewed)
  BY SameProgram DEF RunInv
<1>2. StackIs(pc, stack)'
  BY SameStack DEF RunInv
<1>3. manifest = <<>> /\ DOMAIN manifest = {}
  <2>1. DOMAIN <<>> = {}
    OBVIOUS
  <2> QED BY <2>1 DEF RunInv
<1>4. active' = {}
  BY <1>3 DEF RunInv
<1>5. \A id \in DOMAIN manifest' : id \in Ids' /\ manifest'[id] = Row(id)'
  <2>1. CASE phase' # "run" /\ manifest' = manifest
    BY <1>3, <2>1
  <2>2. CASE UNCHANGED return_targets /\ DOMAIN manifest' \subseteq Ids
             /\ phase' = "run" /\ \A id \in DOMAIN manifest' : manifest'[id] = Row(id)
    BY <1>1, <2>2, SameRows
  <2> QED BY <2>1, <2>2
<1>6. phase' # "run" => manifest' = <<>>
  BY <1>3
<1> QED BY <1>1, <1>2, <1>4, <1>5, <1>6 DEF RunInv

\* The invariant is inductive.
LEMMA RunKept == RunInv /\ [ManifestNext]_manifestVars => RunInv'
<1> SUFFICES ASSUME RunInv, [ManifestNext]_manifestVars PROVE RunInv'
  OBVIOUS
<1>1. Shaped /\ TargetsInv /\ DOMAIN depths \subseteq Ids
  BY DEF RunInv
<1>2. ASSUME NEW p \in Pcs, Inherit(p) PROVE RunInv'
  <2>1. /\ phase = "returns" /\ p \in TailCalls
        /\ return_targets' = [return_targets EXCEPT ![code[p].to] = @ \cup Inherited(p)]
        /\ UNCHANGED <<code, inlined, phase, depths, manifest, pc, stack, active>>
    BY <1>2 DEF Inherit, programVars
  <2>2. /\ DOMAIN return_targets = DOMAIN Functions
        /\ DOMAIN return_targets' = DOMAIN Functions
        /\ return_targets' = [f \in DOMAIN Functions |-> return_targets'[f]]
        /\ \A f \in DOMAIN Functions : return_targets[f] \subseteq return_targets'[f]
    BY <1>1, <2>1 DEF TargetsInv
  <2>3. \A q \in Calls : code[q].to \in DOMAIN Functions
    BY <1>1, CodeAssumption DEF Shaped, Calls
  <2>4. Calls' = Calls /\ \A q : Links(q)' <=> Links(q)
    BY <2>1, SameProgram
  <2>5. TargetsInv'
    BY <1>1, <2>1, <2>2, <2>3, <2>4 DEF TargetsInv
  <2> QED BY <1>1, <2>1, <2>5, GeneratorKeeps
<1>3. ASSUME ReturnsDone PROVE RunInv'
  <2>1. /\ phase = "returns" /\ phase' = "depths"
        /\ \A p \in TailCalls : Inherited(p) = {}
        /\ UNCHANGED <<code, inlined, return_targets, depths, manifest, pc, stack, active>>
    BY <1>3 DEF ReturnsDone, programVars
  <2>2. Calls' = Calls /\ TailCalls' = TailCalls /\ \A q : Links(q)' <=> Links(q)
    BY <2>1, SameProgram
  <2>3. \A p \in TailCalls : return_targets[FunctionAt(p)] \subseteq return_targets[code[p].to]
    BY <2>1 DEF Inherited
  <2>4. \A p : FunctionAt(p)' = FunctionAt(p')
    BY DEF FunctionAt
  <2>5. TargetsInv'
    BY <1>1, <2>1, <2>2, <2>3 DEF TargetsInv, FunctionAt
  <2> QED BY <1>1, <2>1, <2>5, GeneratorKeeps
<1>4. ASSUME Visit PROVE RunInv'
  <2>1. /\ phase = "depths" /\ DOMAIN depths' = DOMAIN depths \cup Closer(pending[1])
        /\ UNCHANGED <<code, inlined, phase, return_targets, manifest, pc, stack, active>>
    BY <1>4 DEF Visit, programVars
  <2>2. DOMAIN depths' \subseteq Ids
    BY <1>1, <2>1, EdgesAreIds DEF Closer
  <2>3. TargetsInv'
    BY <1>1, <2>1, SameProgram DEF TargetsInv, FunctionAt
  <2> QED BY <2>1, <2>2, <2>3, GeneratorKeeps
<1>5. ASSUME Select PROVE RunInv'
  <2>1. /\ phase = "depths" /\ phase' = "run"
        /\ manifest' = [id \in {i \in DOMAIN depths : depths[i] = level} |-> Row(id)]
        /\ UNCHANGED <<code, inlined, return_targets, depths, pc, stack, active>>
    BY <1>5 DEF Select, programVars
  <2>2. /\ DOMAIN manifest' \subseteq Ids
        /\ \A id \in DOMAIN manifest' : manifest'[id] = Row(id)
    BY <1>1, <2>1
  <2>3. TargetsInv'
    BY <1>1, <2>1, SameProgram DEF TargetsInv, FunctionAt
  <2> QED BY <1>1, <2>1, <2>2, <2>3, GeneratorKeeps
<1>6. ASSUME Step \/ Call \/ TailCall \/ Return PROVE RunInv'
  <2>1. PICK p : Goes(p)
    BY <1>6, EveryMoveGoes
  <2>2. /\ Move(p) /\ StackIs(p, stack')
        /\ Reviewed => \A id \in Ids : Inside(id, pc, stack) /\ p \in Subtree(id)
                                        => Inside(id, p, stack')
    BY <2>1 DEF Goes
  <2> QED BY <2>2, MoveKeeps
<1>7. ASSUME UNCHANGED manifestVars PROVE RunInv'
  <2>1. UNCHANGED <<code, inlined, phase, return_targets, depths, manifest, pc, stack, active>>
    BY <1>7 DEF manifestVars, programVars
  <2>2. /\ Shaped' /\ Ids' = Ids /\ (Reviewed' <=> Reviewed)
    BY <1>1, <2>1, SameProgram
  <2>3. TargetsInv'
    BY <1>1, <2>1, SameProgram DEF TargetsInv, FunctionAt
  <2>4. /\ StackIs(pc, stack)' <=> StackIs(pc, stack)
        /\ \A id : Inside(id, pc, stack)' <=> Inside(id, pc, stack)
    BY <2>1, SameStack
  <2>5. \A id : Row(id)' = Row(id)
    BY <2>1, SameRows
  <2> QED BY <2>1, <2>2, <2>3, <2>4, <2>5 DEF RunInv
<1> QED BY <1>2, <1>3, <1>4, <1>5, <1>6, <1>7 DEF ManifestNext

\* From within an active instance a reviewed program goes on in it or by an exit.
LEMMA LeavesByExits ==
  RunInv /\ [ManifestNext]_manifestVars =>
    \A id \in ActiveAt(active, pc) :
      pc' \notin {pc} \cup manifest[id].extent \cup manifest[id].exits => ~Reviewed
<1> SUFFICES ASSUME RunInv, [ManifestNext]_manifestVars, NEW id \in ActiveAt(active, pc),
                    Reviewed, pc' # pc
             PROVE  pc' \in manifest[id].extent \cup manifest[id].exits
  OBVIOUS
<1>1. id \in Ids /\ manifest[id] = Row(id) /\ Inside(id, pc, stack)
  BY NowInside
<1>2. Step \/ Call \/ TailCall \/ Return
  <2>1. ~UNCHANGED manifestVars
    BY DEF manifestVars
  <2>2. \A p \in Pcs : ~Inherit(p)
    BY DEF Inherit
  <2>3. ~ReturnsDone /\ ~Visit /\ ~Select
    BY DEF ReturnsDone, Visit, Select
  <2> QED BY <2>1, <2>2, <2>3 DEF ManifestNext
<1>3. PICK p : Goes(p)
  BY <1>2, EveryMoveGoes
<1>4. pc' = p /\ p \in Subtree(id) \cup Exits(id, Subtree(id))
  BY <1>1, <1>3 DEF Goes, Move
<1> QED BY <1>1, <1>4 DEF Row

\* Whatever program that is what the generator takes it for, whatever inlined
\* instances, level and order of the search: no run of the program leaves an
\* instance of the manifest but by one of the instance's exits.
THEOREM ExitsTheorem == ManifestSpec => ExitsCoverRuns
<1>1. ManifestSpec => []RunInv
  BY RunInitially, RunKept, PTL DEF ManifestSpec
<1>2. RunInv /\ [ManifestNext]_manifestVars =>
        [\A id \in ActiveAt(active, pc) :
           pc' \notin {pc} \cup manifest[id].extent \cup manifest[id].exits
             => ~Reviewed]_manifestVars
  BY LeavesByExits
<1> QED
  BY <1>1, <1>2, PTL DEF ManifestSpec, ExitsCoverRuns
=============================================================================
