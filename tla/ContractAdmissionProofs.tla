----------------------- MODULE ContractAdmissionProofs -----------------------
(***************************************************************************)
(* What an admission document certifies, for every registry, all evidence  *)
(* and any contracts, and that its census of defects is exact, for all     *)
(* audits of stores.                                                       *)
(***************************************************************************)
EXTENDS ContractAdmission, SequenceLemmas

Obeyed(i) == \A o \in Occurrences(i) : Obeys(i, SchemaOf(i), o)

\* The observations of an instance are those of the first n vectors.
Joined(i, n) ==
  /\ observations[i] \in Seq(Occurrences(i))
  /\ Range(observations[i]) = UNION {Range(evidence[v][i]) : v \in 1..n}

AllJoined == \A i \in Instances : Joined(i, Len(evidence))

\* What has been established when the contracts are evaluated.
Admissible ==
  /\ Reached = Instances /\ AllJoined /\ CoversExactly
  /\ \A i \in Instances : Bound(i)

AdmissionInv ==
  /\ registry \in Registries /\ evidence \in Evidences
  /\ next \in Nat \ {0} /\ failures \subseteq Instances
  /\ stage \in {"make_report", "observe", "bind", "expand", "evaluate", "census", "written", "refused"}
  /\ stage = "make_report" => \A i \in Instances : observations[i] = <<>>
  /\ stage = "observe" => /\ Reached = Instances
                          /\ \A i \in Instances : next <= Len(evidence) /\ Joined(i, next - 1)
  /\ stage = "bind" => /\ Reached = Instances /\ AllJoined
                       /\ \A k \in DOMAIN Manifest : k < next => Bound(Manifest[k])
  /\ stage = "expand" => Reached = Instances /\ AllJoined /\ \A i \in Instances : Bound(i)
  /\ stage \in {"evaluate", "census", "written"} \/ failures # {} => Admissible
  /\ failures # {} => stage \in {"evaluate", "refused"} /\ DOMAIN registry = DOMAIN Profiles
  /\ stage = "evaluate" =>
       \A k \in DOMAIN Manifest : k < next => Manifest[k] \in failures \/ Obeyed(Manifest[k])
  /\ stage = "refused" /\ failures # {} => \A i \in Instances : i \in failures \/ Obeyed(i)
  /\ stage \in {"census", "written"} =>
       DOMAIN registry = DOMAIN Profiles /\ \A i \in Instances : Obeyed(i)

-------------------------------------------------------------------------------
(* A contract that is found compatible is obeyed.                          *)

LEMMA CompatibleFailsNothing ==
  ASSUME NEW X, NEW i \in Instances, NEW profile, NEW parameters,
         observations[i] \in Seq(X), Reason(i, profile, parameters) = "compatible",
         NEW o \in Range(observations[i]), NEW k \in DOMAIN Checks
  PROVE  ~Fails(Checks[k], i, o, profile, parameters)
<1> DEFINE bad(x) == {j \in DOMAIN Checks : Fails(Checks[j], i, x, profile, parameters)}
           I == {j \in 1..Len(observations[i]) : bad(observations[i][j]) # {}}
           first == IF I # {} THEN Min(I) ELSE 0
<1>1. DOMAIN Checks = 1..11 /\ \A j \in 1..11 : Checks[j] # "compatible"
  BY DEF Checks
<1>2. \A x : bad(x) \in SUBSET Nat /\ bad(x) \subseteq DOMAIN Checks
  BY <1>1
<1>3. I = {}
  <2> SUFFICES ASSUME I # {} PROVE FALSE
    OBVIOUS
  <2>1. I \in SUBSET Nat /\ 0 \notin I
    OBVIOUS
  <2>2. first \in I /\ first # 0
    <3> HIDE DEF I
    <3> QED BY <2>1, MinIsMember
  <2>3. bad(observations[i][first]) # {}
    <3> HIDE DEF first, bad
    <3> QED BY <2>2
  <2>4. Min(bad(observations[i][first])) \in DOMAIN Checks
    <3> HIDE DEF bad, first
    <3> QED BY <1>2, <2>3, MinIsMember
  <2>5. Reason(i, profile, parameters) =
          CASE observations[i] = <<>> -> "no occurrence"
            [] observations[i] # <<>> /\ first = 0 -> "compatible"
            [] OTHER -> Checks[Min(bad(observations[i][first]))]
    BY DEF Reason, SelectInSeq
  <2> HIDE DEF I, first, bad
  <2> QED BY <1>1, <2>2, <2>4, <2>5
<1>4. PICK j \in 1..Len(observations[i]) : o = observations[i][j]
  BY DEF Range
<1> QED BY <1>3, <1>4

LEMMA InsideBytes ==
  ASSUME NEW region \in [start : Int, width : Int], NEW store,
         store.start \in Int, store.width \in Int, Inside(region, store)
  PROVE  Bytes(store) \subseteq Bytes(region)
BY DEF Inside, Bytes

LEMMA ApartBytes ==
  ASSUME NEW one, NEW other, one.start \in Int, one.width \in Int,
         other.start \in Int, other.width \in Int, Apart(one, other)
  PROVE  Bytes(one) \cap Bytes(other) = {}
BY DEF Apart, Bytes

LEMMA CompatibleIsObeyed ==
  ASSUME NEW i \in Instances, NEW s \in DOMAIN Profiles, MayName(s, i),
         evidence \in Evidences, NEW o \in Occurrences(i),
         \A k \in DOMAIN Checks : ~Fails(Checks[k], i, o, Profiles[s], Parameters[i])
  PROVE  Obeys(i, s, o)
<1> DEFINE profile == Profiles[s]
           specs == profile.allowedStoreRegions
           region(spec) == Region(spec, o.before, Parameters[i])
           declared == Range(specs)
           frame == specs[1]
<1>1. PICK v \in DOMAIN evidence : o \in Range(evidence[v][i])
  BY DEF Occurrences
<1>2. o.executed \in Nat /\ \A store \in o.stores : store.start \in Int /\ store.width \in Int
  BY <1>1, EvidencesAssumption
<1>3. /\ specs \in Seq(Range(specs))
      /\ \A spec \in declared \cup profile.sourceRegion : region(spec) \in [start : Int, width : Int]
  BY <1>1, RegionsAssumption DEF IsSequence
<1>4. DOMAIN Checks = 1..11 /\ Checks = <<"snapshot", "execution", "alignment", "frame",
        "preserved", "regions", "stores", "hostWrite", "overlap", "sourceRegion", "source">>
  BY DEF Checks
<1>5. o.complete /\ o.executed > 0
  <2>1. ~Fails(Checks[1], i, o, profile, Parameters[i]) /\ ~Fails(Checks[2], i, o, profile, Parameters[i])
    BY <1>4
  <2>2. ~Fails("snapshot", i, o, profile, Parameters[i]) /\ ~Fails("execution", i, o, profile, Parameters[i])
    BY <1>4, <2>1
  <2> QED BY <1>2, <2>2 DEF Fails
<1>6. o.before["sp"] % profile.stackAlignment = 0
  <2>1. ~Fails("alignment", i, o, profile, Parameters[i])
    BY <1>4
  <2> QED BY <2>1 DEF Fails
<1>7. \A r \in Preserved(i, profile) : o.before[r] = o.after[r]
  <2>1. ~Fails("preserved", i, o, profile, Parameters[i])
    BY <1>4
  <2> QED BY <2>1 DEF Fails
<1>8. profile.bounded => Stored(o) \subseteq BytesOf(declared, o, Parameters[i])
  <2>1. ~Fails("stores", i, o, profile, Parameters[i])
    BY <1>4
  <2>2. profile.bounded => \A store \in o.stores : \E k \in DOMAIN specs : Inside(region(specs[k]), store)
    BY <2>1 DEF Fails
  <2>3. ASSUME profile.bounded, NEW store \in o.stores
        PROVE  Bytes(store) \subseteq BytesOf(declared, o, Parameters[i])
    <3>1. PICK k \in DOMAIN specs : Inside(region(specs[k]), store)
      BY <2>2, <2>3
    <3>2. specs[k] \in declared
      BY DEF Range
    <3>3. Bytes(store) \subseteq Bytes(region(specs[k]))
      <4> HIDE DEF region
      <4> QED BY <1>2, <1>3, <3>1, <3>2, InsideBytes
    <3> QED BY <3>2, <3>3 DEF BytesOf
  <2> QED BY <2>3 DEF Stored
<1>9. Stored(o) \cap BytesOf(profile.sourceRegion, o, Parameters[i]) = {}
  <2>1. ~Fails("source", i, o, profile, Parameters[i])
    BY <1>4
  <2>2. \A spec \in profile.sourceRegion : \A store \in o.stores : Apart(region(spec), store)
    BY <2>1 DEF Fails
  <2>3. ASSUME NEW spec \in profile.sourceRegion, NEW store \in o.stores
        PROVE  Bytes(store) \cap Bytes(region(spec)) = {}
    <3>1. region(spec).start \in Int /\ region(spec).width \in Int
      <4>1. region(spec) \in [start : Int, width : Int]
        BY <1>3
      <4> HIDE DEF region
      <4> QED BY <4>1
    <3> HIDE DEF region
    <3>2. Bytes(region(spec)) \cap Bytes(store) = {}
      BY <1>2, <2>2, <3>1, ApartBytes
    <3> QED BY <3>2
  <2> QED BY <2>3 DEF Stored, BytesOf
<1>10. profile.requireHostWrite => o.writes # <<>>
  <2>1. ~Fails("hostWrite", i, o, profile, Parameters[i])
    BY <1>4
  <2> QED BY <2>1 DEF Fails, LacksHostWrite
<1>11. profile.requireStackApart =>
         BytesOf({frame}, o, Parameters[i]) \cap BytesOf(declared \ {frame}, o, Parameters[i]) = {}
  <2> SUFFICES ASSUME profile.requireStackApart, NEW spec \in declared \ {frame}
               PROVE  Bytes(region(frame)) \cap Bytes(region(spec)) = {}
    BY DEF BytesOf
  <2>1. ~Fails("overlap", i, o, profile, Parameters[i])
    BY <1>4
  <2>2. \A k \in 2..Len(specs) : Apart(region(specs[1]), region(specs[k]))
    BY <2>1 DEF Fails
  <2>3. PICK k \in DOMAIN specs : spec = specs[k]
    BY DEF Range
  <2>4. DOMAIN specs = 1..Len(specs) /\ Len(specs) \in Nat
    BY <1>3
  <2>5. k \in 2..Len(specs) /\ 1 \in DOMAIN specs
    BY <2>3, <2>4
  <2>6. frame \in declared /\ spec \in declared
    BY <2>5 DEF Range
  <2>7. region(frame) \in [start : Int, width : Int] /\ region(spec) \in [start : Int, width : Int]
    BY <1>3, <2>6
  <2>8. Apart(region(frame), region(spec))
    BY <2>2, <2>3, <2>5
  <2> HIDE DEF region, frame
  <2> QED BY <2>7, <2>8, ApartBytes
<1> QED BY <1>5, <1>6, <1>7, <1>8, <1>9, <1>10, <1>11 DEF Obeys

-------------------------------------------------------------------------------
(* What the binding of the host writes says about a single occurrence.     *)

\* Of the sum of the sizes only what it is for one write or none.
Sizes(writes) == FoldSeq(LAMBDA w, sum : w.size + sum, 0, writes)
SizesUpto(writes) ==
  CHOOSE f : f = [S \in SUBSET (DOMAIN writes) |->
    IF S = {} THEN 0
    ELSE writes[CHOOSE x \in S : TRUE].size + f[S \ {CHOOSE x \in S : TRUE}]]

LEMMA SizesAreLast ==
  ASSUME NEW writes
  PROVE  Sizes(writes) = SizesUpto(writes)[DOMAIN writes]
BY DEF Sizes, FoldSeq, FoldFunction, FoldFunctionOnSet, MapThenFoldSet, SizesUpto

LEMMA SizeOfNone == Sizes(<<>>) = 0
<1> DEFINE f == [S \in {{}} |-> 0]
<1>1. DOMAIN <<>> = {}
  OBVIOUS
<1>2. f = [S \in SUBSET {} |->
             IF S = {} THEN 0
             ELSE <<>>[CHOOSE x \in S : TRUE].size + f[S \ {CHOOSE x \in S : TRUE}]]
  OBVIOUS
<1>3. \E g : g = [S \in SUBSET {} |->
             IF S = {} THEN 0
             ELSE <<>>[CHOOSE x \in S : TRUE].size + g[S \ {CHOOSE x \in S : TRUE}]]
  BY <1>2
<1>4. SizesUpto(<<>>) = [S \in SUBSET {} |->
             IF S = {} THEN 0
             ELSE <<>>[CHOOSE x \in S : TRUE].size + SizesUpto(<<>>)[S \ {CHOOSE x \in S : TRUE}]]
  BY <1>1, <1>3 DEF SizesUpto
<1>5. SizesUpto(<<>>)[{}] = 0
  BY <1>4
<1> QED BY <1>1, <1>5, SizesAreLast

LEMMA SizeOfOne ==
  ASSUME NEW w
  PROVE  Sizes(<<w>>) = w.size + 0
<1> DEFINE Sum(S, f) ==
             IF S = {} THEN 0
             ELSE <<w>>[CHOOSE x \in S : TRUE].size + f[S \ {CHOOSE x \in S : TRUE}]
           f == [S \in SUBSET {1} |-> IF S = {} THEN 0 ELSE w.size + 0]
           g == CHOOSE h : h = [S \in SUBSET {1} |-> Sum(S, h)]
<1>1. DOMAIN <<w>> = {1} /\ (CHOOSE x \in {1} : TRUE) = 1 /\ {1} \ {1} = {}
  OBVIOUS
<1>2. ASSUME NEW S \in SUBSET {1} PROVE f[S] = Sum(S, f)
  <2>1. CASE S = {}
    BY <2>1
  <2>2. CASE S = {1}
    <3>1. (CHOOSE x \in S : TRUE) = 1 /\ S \ {1} = {}
      BY <2>2
    <3> QED BY <2>2, <3>1
  <2> QED BY <2>1, <2>2
<1>3. f = [S \in SUBSET {1} |-> Sum(S, f)]
  <2> HIDE DEF Sum
  <2> QED BY <1>2
<1>4. g = [S \in SUBSET {1} |-> Sum(S, g)]
  <2> HIDE DEF Sum, f
  <2>1. \E h : h = [S \in SUBSET {1} |-> Sum(S, h)]
    BY <1>3
  <2> QED BY <2>1
<1>5. SizesUpto(<<w>>) = g
  BY <1>1 DEF SizesUpto
<1> HIDE DEF g
<1>6. g[{}] = 0
  BY <1>4
<1>7. g[{1}] = w.size + 0
  BY <1>1, <1>4, <1>6
<1> QED BY <1>1, <1>5, <1>7, SizesAreLast

LEMMA OccurrenceFacts ==
  ASSUME evidence \in Evidences, NEW i \in Instances, NEW o \in Occurrences(i)
  PROVE  /\ o.before["a1"] \in Nat
         /\ o.writes \in Seq(Range(o.writes)) /\ o.entries \in Seq(Range(o.entries))
         /\ o.entries # <<>> /\ o.entries[1] = o.before["a0"]
<1>1. PICK v \in DOMAIN evidence : o \in Range(evidence[v][i])
  BY DEF Occurrences
<1> QED BY <1>1, EvidencesAssumption DEF IsSequence

LEMMA BytesMatch ==
  ASSUME NEW o, BytesBound(o), o.before["a1"] \in Nat, o.writes \in Seq(Range(o.writes))
  PROVE  /\ IsU64(Head(o.writes), o.before["a1"])
         /\ Sizes(Tail(o.writes)) = o.before["a1"]
<1> DEFINE ws == o.writes
           n == o.before["a1"]
<1>1. ws # <<>> /\ IsU64(ws[1], n)
  BY DEF BytesBound
<1>2. Head(ws) = ws[1]
  BY <1>1
<1>3. CASE Len(ws) = 1 /\ n = 0
  <2>1. Tail(ws) = <<>>
    BY <1>1, <1>3, TailShort
  <2> QED BY <1>1, <1>2, <1>3, <2>1, SizeOfNone
<1>4. CASE Len(ws) = 2 /\ ws[2].size = n
  <2>1. Tail(ws) = <<ws[2]>>
    BY <1>1, <1>4, TailShort
  <2>2. Sizes(Tail(ws)) = n + 0
    BY <1>4, <2>1, SizeOfOne
  <2> QED BY <1>1, <1>2, <2>2
<1>5. (Len(ws) = 1 /\ n = 0) \/ (Len(ws) = 2 /\ ws[2].size = n)
  BY DEF BytesBound
<1> QED BY <1>3, <1>4, <1>5

\* The writes of an occurrence are among those of its instance.
LEMMA WritesOfEach ==
  ASSUME evidence \in Evidences, NEW i \in Instances, Joined(i, Len(evidence)),
         Occurrences(i) = UNION {Range(evidence[v][i]) : v \in 1..Len(evidence)}
  PROVE  /\ observations[i] \in Seq(Occurrences(i)) /\ Range(observations[i]) = Occurrences(i)
         /\ \A o \in Occurrences(i) : Range(o.writes) \subseteq Range(Writes(i))
<1> DEFINE obs == observations[i]
           W == UNION {Range(o.writes) : o \in Occurrences(i)}
           ww == [k \in DOMAIN obs |-> obs[k].writes]
<1>1. obs \in Seq(Occurrences(i)) /\ Range(obs) = Occurrences(i)
  BY DEF Joined
<1>2. ww \in Seq(Seq(W))
  <2>1. \A o \in Occurrences(i) : o.writes \in Seq(Range(o.writes))
    BY OccurrenceFacts
  <2>2. \A o \in Occurrences(i) : Range(o.writes) \subseteq W
    OBVIOUS
  <2>3. \A o \in Occurrences(i) : o.writes \in Seq(W)
    <3> HIDE DEF W
    <3> QED BY <2>1, <2>2
  <2> HIDE DEF W
  <2> QED BY <1>1, <2>3
<1>3. Range(Writes(i)) = UNION {Range(ww[k]) : k \in DOMAIN ww}
  <2> HIDE DEF W
  <2> QED BY <1>2, FlattenRange DEF Writes
<1>4. ASSUME NEW o \in Occurrences(i) PROVE Range(o.writes) \subseteq Range(Writes(i))
  <2>1. PICK k \in DOMAIN obs : o = obs[k]
    BY <1>1 DEF Range
  <2>2. ww[k] = o.writes /\ k \in DOMAIN ww
    BY <2>1
  <2> QED BY <1>3, <2>2
<1> QED BY <1>1, <1>4

\* A constant written from a pointer: where every occurrence has written and
\* was entered once, the k-th write is that of the k-th occurrence.
LEMMA PointersMatch ==
  ASSUME evidence \in Evidences, NEW i \in Instances,
         observations[i] \in Seq(Occurrences(i)), Range(observations[i]) = Occurrences(i),
         Len(Snapshots(i)) = Len(Writes(i)),
         \A k \in DOMAIN Writes(i) : Snapshots(i)[k] = Writes(i)[k].address,
         \A o \in Occurrences(i) : o.writes # <<>> /\ Len(o.entries) = 1,
         NEW o \in Occurrences(i)
  PROVE  Len(o.writes) = 1 /\ o.writes[1].address = o.before["a0"]
<1> DEFINE obs == observations[i]
           W == UNION {Range(x.writes) : x \in Occurrences(i)}
           E == UNION {Range(x.entries) : x \in Occurrences(i)}
           ww == [k \in DOMAIN obs |-> obs[k].writes]
           ee == [k \in DOMAIN obs |-> obs[k].entries]
<1>1. \A x \in Occurrences(i) : x.writes \in Seq(W) /\ x.entries \in Seq(E)
  <2>1. ASSUME NEW x \in Occurrences(i) PROVE x.writes \in Seq(W) /\ x.entries \in Seq(E)
    <3>1. x.writes \in Seq(Range(x.writes)) /\ x.entries \in Seq(Range(x.entries))
      BY OccurrenceFacts
    <3>2. Range(x.writes) \subseteq W /\ Range(x.entries) \subseteq E
      OBVIOUS
    <3> HIDE DEF W, E
    <3> QED BY <3>1, <3>2
  <2> QED BY <2>1
<1> HIDE DEF W, E
<1>2. DOMAIN obs = 1..Len(obs) /\ Len(obs) \in Nat /\ \A k \in DOMAIN obs : obs[k] \in Occurrences(i)
  OBVIOUS
<1>3. /\ ww \in Seq(Seq(W)) /\ ee \in Seq(Seq(E)) /\ Len(ww) = Len(obs) /\ Len(ee) = Len(obs)
      /\ DOMAIN ww = DOMAIN obs /\ DOMAIN ee = DOMAIN obs
      /\ \A k \in DOMAIN obs : ww[k] # <<>> /\ Len(ee[k]) = 1
  BY <1>1, <1>2
<1>4. Writes(i) = FlattenSeq(ww) /\ Snapshots(i) = FlattenSeq(ee)
  BY DEF Writes, Snapshots
<1>5. PICK k \in DOMAIN obs : o = obs[k]
  BY DEF Range
<1>6. ww[k] = o.writes /\ ee[k] = o.entries
  BY <1>5
<1> HIDE DEF ww, ee
<1>7. Len(Snapshots(i)) = Len(obs) /\ Snapshots(i)[k] = ee[k][1]
  BY <1>3, <1>4, FlattenSingles
<1>8. \A j \in DOMAIN ww : Len(ww[j]) = 1
  <2>1. Len(FlattenSeq(ww)) = Len(ww)
    BY <1>3, <1>4, <1>7
  <2>2. \A j \in DOMAIN ww : ww[j] # <<>>
    BY <1>3
  <2>3. Len(FlattenSeq(ww)) = Len(ww) <=> \A j \in DOMAIN ww : Len(ww[j]) = 1
    BY <1>3, <2>2, FlattenLength
  <2> QED BY <2>1, <2>3
<1>9. Writes(i)[k] = ww[k][1] /\ Len(Writes(i)) = Len(obs)
  BY <1>3, <1>4, <1>8, FlattenSingles
<1>10. k \in DOMAIN Writes(i)
  <2>1. FlattenSeq(ww) \in Seq(W)
    BY <1>3, FlattenAppend, EmptySeq
  <2> QED BY <1>2, <1>4, <1>9, <2>1
<1>11. o.entries[1] = o.before["a0"]
  BY OccurrenceFacts
<1> QED BY <1>3, <1>6, <1>7, <1>8, <1>9, <1>10, <1>11

LEMMA AllOccurrences ==
  ASSUME evidence \in Evidences, NEW i \in Instances
  PROVE  Occurrences(i) = UNION {Range(evidence[v][i]) : v \in 1..Len(evidence)}
<1>1. evidence \in Seq(Range(evidence))
  BY EvidencesAssumption DEF IsSequence
<1>2. DOMAIN evidence = 1..Len(evidence)
  BY <1>1
<1> QED BY <1>2 DEF Occurrences

\* The evaluation comes after the binding and has found a write in each
\* occurrence of an encoder, so that the positions agree.
LEMMA BoundMatches ==
  ASSUME evidence \in Evidences, AllJoined, \A i \in Instances : Bound(i),
         \A i \in Instances : Encoding[i].kind = "fixed" /\ Encoding[i].pointer =>
           \A o \in Occurrences(i) : o.writes # <<>>
  PROVE  WritesMatchEntry
<1> SUFFICES ASSUME NEW i \in Instances, NEW o \in Occurrences(i)
             PROVE
    LET encoding == Encoding[i]
        passedOnce == \A other \in Occurrences(i) : Len(other.entries) = 1
    IN  /\ encoding.kind = "fixed" =>
             \A w \in Range(o.writes) : w.size = encoding.size /\ w.value = encoding.value
        /\ encoding.kind = "fixed" /\ encoding.pointer /\ passedOnce =>
             Len(o.writes) = 1 /\ o.writes[1].address = o.before["a0"]
        /\ encoding.kind = "scalar" =>
             [k \in DOMAIN o.writes |-> o.writes[k].value]
               = <<o.before["a0"] % encoding.modulus>>
        /\ encoding.kind = "bytes" =>
             /\ IsU64(Head(o.writes), o.before["a1"])
             /\ FoldSeq(LAMBDA w, sum : w.size + sum, 0, Tail(o.writes)) = o.before["a1"]
        /\ encoding.kind = "count" =>
             IsU64(Head(o.writes), o.before[encoding.register])
  BY DEF WritesMatchEntry
<1>1. Bound(i) /\ Joined(i, Len(evidence))
  BY DEF AllJoined
<1>2. /\ observations[i] \in Seq(Occurrences(i)) /\ Range(observations[i]) = Occurrences(i)
      /\ Range(o.writes) \subseteq Range(Writes(i))
  BY <1>1, AllOccurrences, WritesOfEach
<1>3. /\ o.before["a1"] \in Nat /\ o.writes \in Seq(Range(o.writes))
  BY OccurrenceFacts
<1>4. ASSUME Encoding[i].kind = "fixed"
      PROVE  \A w \in Range(o.writes) : w.size = Encoding[i].size /\ w.value = Encoding[i].value
  <2>1. FixedBound(i)
    BY <1>1, <1>4 DEF Bound
  <2> QED BY <1>2, <2>1 DEF FixedBound
<1>5. ASSUME Encoding[i].kind = "fixed", Encoding[i].pointer,
             \A other \in Occurrences(i) : Len(other.entries) = 1
      PROVE  Len(o.writes) = 1 /\ o.writes[1].address = o.before["a0"]
  <2>1. FixedBound(i)
    BY <1>1, <1>5 DEF Bound
  <2>2. /\ Len(Snapshots(i)) = Len(Writes(i))
        /\ \A k \in DOMAIN Writes(i) : Snapshots(i)[k] = Writes(i)[k].address
    BY <1>5, <2>1 DEF FixedBound
  <2>3. \A x \in Occurrences(i) : x.writes # <<>> /\ Len(x.entries) = 1
    BY <1>5
  <2> QED BY <1>2, <2>2, <2>3, PointersMatch
<1>6. ASSUME Encoding[i].kind = "scalar"
      PROVE  [k \in DOMAIN o.writes |-> o.writes[k].value] = <<o.before["a0"] % Encoding[i].modulus>>
  <2>1. ScalarBound(i, o)
    BY <1>1, <1>2, <1>6 DEF Bound
  <2> DEFINE x == o.before["a0"] % Encoding[i].modulus
             ws == o.writes
  <2>2. Len(ws) = 1 /\ ws[1].value = x
    BY <2>1 DEF ScalarBound
  <2>3. ws \in Seq(Range(ws))
    BY <1>3
  <2> HIDE DEF ws, x
  <2>4. DOMAIN ws = {1}
    BY <2>2, <2>3
  <2>5. [k \in {1} |-> ws[k].value] = <<x>>
    BY <2>2
  <2> QED BY <2>4, <2>5 DEF ws, x
<1>7. ASSUME Encoding[i].kind = "bytes"
      PROVE  /\ IsU64(Head(o.writes), o.before["a1"])
             /\ Sizes(Tail(o.writes)) = o.before["a1"]
  <2>1. BytesBound(o)
    BY <1>1, <1>2, <1>7 DEF Bound
  <2> QED BY <1>3, <2>1, BytesMatch
<1>8. ASSUME Encoding[i].kind = "count"
      PROVE  IsU64(Head(o.writes), o.before[Encoding[i].register])
  <2>1. CountBound(i, o)
    BY <1>1, <1>2, <1>8 DEF Bound
  <2>2. Head(o.writes) = o.writes[1]
    BY <1>3, <2>1 DEF CountBound
  <2> QED BY <2>1, <2>2 DEF CountBound
<1> QED BY <1>4, <1>5, <1>6, <1>7, <1>8 DEF Sizes

-------------------------------------------------------------------------------
(* The steps.                                                              *)

LEMMA ManifestFacts ==
  /\ Len(Manifest) \in Nat /\ DOMAIN Manifest = 1..Len(Manifest)
  /\ \A i : i \in Instances <=> \E k \in DOMAIN Manifest : i = Manifest[k]
<1>1. Manifest \in Seq(Range(Manifest))
  BY ManifestAssumption DEF IsSequence
<1>2. Len(Manifest) \in Nat /\ DOMAIN Manifest = 1..Len(Manifest)
  BY <1>1
<1> QED BY <1>2 DEF Instances, Range

LEMMA OneSchema ==
  ASSUME registry \in Registries, CoversExactly, NEW i \in Instances
  PROVE  /\ SchemaOf(i) \in DOMAIN registry /\ i \in Range(registry[SchemaOf(i)].names)
         /\ MayName(SchemaOf(i), i)
         /\ \A s \in DOMAIN registry : i \in Range(registry[s].names) => s = SchemaOf(i)
<1>1. \E s \in DOMAIN registry : i \in Range(registry[s].names)
  BY DEF CoversExactly
<1>2. SchemaOf(i) \in DOMAIN registry /\ i \in Range(registry[SchemaOf(i)].names)
  BY <1>1 DEF SchemaOf
<1>3. MayName(SchemaOf(i), i)
  BY <1>2 DEF MayName
<1>4. ASSUME NEW s \in DOMAIN registry, NEW t \in DOMAIN registry,
             i \in Range(registry[s].names), i \in Range(registry[t].names)
      PROVE  s = t
  <2>1. PICK j \in DOMAIN registry[s].names : i = registry[s].names[j]
    BY <1>4 DEF Range
  <2>2. PICK k \in DOMAIN registry[t].names : i = registry[t].names[k]
    BY <1>4 DEF Range
  <2> QED BY <2>1, <2>2 DEF CoversExactly
<1> QED BY <1>2, <1>3, <1>4

LEMMA CompatibleRow ==
  ASSUME registry \in Registries, evidence \in Evidences, Admissible,
         DOMAIN registry = DOMAIN Profiles, NEW i \in Instances,
         Reason(i, Profiles[SchemaOf(i)], Parameters[i]) = "compatible"
  PROVE  Obeyed(i)
<1>1. SchemaOf(i) \in DOMAIN Profiles /\ MayName(SchemaOf(i), i)
  BY OneSchema DEF Admissible
<1>2. observations[i] \in Seq(Occurrences(i)) /\ Range(observations[i]) = Occurrences(i)
  BY AllOccurrences DEF Admissible, AllJoined, Joined
<1>3. ASSUME NEW o \in Occurrences(i) PROVE Obeys(i, SchemaOf(i), o)
  <2>1. \A k \in DOMAIN Checks : ~Fails(Checks[k], i, o, Profiles[SchemaOf(i)], Parameters[i])
    BY <1>2, CompatibleFailsNothing
  <2> QED BY <1>1, <2>1, CompatibleIsObeyed
<1> QED BY <1>3 DEF Obeyed

LEMMA Frame ==
  ASSUME UNCHANGED <<registry, evidence, observations>>
  PROVE  /\ (Reached = Instances)' <=> Reached = Instances
         /\ AllJoined' <=> AllJoined
         /\ Admissible' <=> Admissible
         /\ \A i : Bound(i)' <=> Bound(i)
         /\ \A i : Obeyed(i)' <=> Obeyed(i)
<1>1. \A i : Bound(i)' <=> Bound(i)
  BY DEF Bound, FixedBound, Writes, Snapshots, Counts
<1>2. (Reached = Instances)' <=> Reached = Instances
  BY DEF Reached
<1>3. AllJoined' <=> AllJoined
  BY DEF AllJoined, Joined, Occurrences
<1>4. CoversExactly' <=> CoversExactly
  BY DEF CoversExactly
<1>5. \A i : Obeyed(i)' <=> Obeyed(i)
  BY DEF Obeyed, Occurrences, SchemaOf, Obeys
<1>6. Admissible' <=> Admissible
  BY <1>1, <1>2, <1>3, <1>4 DEF Admissible
<1> QED BY <1>1, <1>2, <1>3, <1>5, <1>6

LEMMA MakeReportStep == AdmissionInv /\ MakeReport => AdmissionInv'
<1> SUFFICES ASSUME AdmissionInv, MakeReport PROVE AdmissionInv'
  OBVIOUS
<1>1. UNCHANGED <<registry, evidence, observations, failures>> /\ next' \in Nat \ {0} /\ failures = {}
  BY DEF AdmissionInv, MakeReport, Refuse, Go, inputs
<1>2. CASE stage' = "refused"
  BY <1>1, <1>2 DEF AdmissionInv
<1>3. CASE Reached = Instances /\ stage' = "observe" /\ next' = 1
  <2>1. (Reached = Instances)'
    BY <1>1, <1>3, Frame
  <2>2. ASSUME NEW i \in Instances PROVE next' <= Len(evidence') /\ Joined(i, next - 1)'
    <3>1. evidence \in Seq(Range(evidence))
      BY EvidencesAssumption DEF IsSequence, AdmissionInv
    <3>2. \E v \in DOMAIN evidence : evidence[v][i] # <<>>
      BY <1>3 DEF Reached
    <3>3. Len(evidence) \in Nat /\ Len(evidence) >= 1
      BY <3>1, <3>2
    <3>4. observations'[i] = <<>>
      BY <1>1 DEF AdmissionInv, MakeReport
    <3>5. Joined(i, next - 1)'
      BY <1>3, <3>4 DEF Joined, Range
    <3> QED BY <1>1, <1>3, <3>3, <3>5
  <2> QED BY <1>1, <1>3, <2>1, <2>2 DEF AdmissionInv
<1> QED BY <1>2, <1>3 DEF MakeReport, Refuse, Go

LEMMA ObserveStep == AdmissionInv /\ Observe => AdmissionInv'
<1> SUFFICES ASSUME AdmissionInv, Observe PROVE AdmissionInv'
  OBVIOUS
<1>1. /\ UNCHANGED <<registry, evidence, failures>> /\ failures = {} /\ Reached = Instances
      /\ next \in Nat \ {0} /\ evidence \in Evidences
      /\ observations' = [i \in Instances |-> observations[i] \o evidence[next][i]]
      /\ \A i \in Instances : next <= Len(evidence) /\ Joined(i, next - 1)
  BY DEF AdmissionInv, Observe, inputs
<1>2. (Reached = Instances)'
  BY <1>1 DEF Reached
<1>3. evidence \in Seq(Range(evidence))
  BY <1>1, EvidencesAssumption DEF IsSequence
<1>4. DOMAIN evidence = 1..Len(evidence) /\ Len(evidence) \in Nat
  BY <1>3
<1>5. ASSUME NEW i \in Instances
      PROVE  /\ (observations[i] \in Seq(Occurrences(i)))'
             /\ Range(observations'[i]) = UNION {Range(evidence'[v][i]) : v \in 1..next}
  <2> DEFINE seen == observations[i]
             now == evidence[next][i]
  <2>1. next \in 1..Len(evidence) /\ next \in DOMAIN evidence /\ Joined(i, next - 1)
    BY <1>1, <1>4
  <2>2. Range(now) \subseteq Occurrences(i)
    BY <2>1 DEF Occurrences
  <2>3. now \in Seq(Range(now))
    BY <1>1, <2>1, EvidencesAssumption DEF IsSequence
  <2>4. now \in Seq(Occurrences(i)) /\ seen \in Seq(Occurrences(i))
    <3>1. seen \in Seq(Occurrences(i))
      BY <2>1 DEF Joined
    <3> HIDE DEF now, seen
    <3> QED BY <2>2, <2>3, <3>1
  <2>5. seen \o now \in Seq(Occurrences(i)) /\ Range(seen \o now) = Range(seen) \cup Range(now)
    <3> HIDE DEF now, seen
    <3> QED BY <2>4, ConcatenationAt, RangeOfConcatenation
  <2>6. Range(seen) = UNION {Range(evidence[v][i]) : v \in 1..(next - 1)}
    BY <2>1 DEF Joined
  <2>7. 1..next = 1..(next - 1) \cup {next}
    BY <1>1
  <2>8. Range(seen \o now) = UNION {Range(evidence[v][i]) : v \in 1..next}
    <3> HIDE DEF seen
    <3> QED BY <2>5, <2>6, <2>7
  <2>9. observations'[i] = seen \o now
    BY <1>1
  <2>10. Occurrences(i)' = Occurrences(i)
    BY <1>1 DEF Occurrences
  <2> HIDE DEF seen, now
  <2>11. (observations[i] \in Seq(Occurrences(i)))'
    BY <2>5, <2>9, <2>10
  <2>12. Range(observations'[i]) = UNION {Range(evidence'[v][i]) : v \in 1..next}
    BY <1>1, <2>8, <2>9
  <2> QED BY <2>11, <2>12
<1>6. CASE next < Len(evidence) /\ next' = next + 1 /\ stage' = stage
  <2>1. next' \in Nat \ {0} /\ stage' = "observe"
    BY <1>1, <1>6 DEF Observe
  <2>2. \A i \in Instances : next' <= Len(evidence') /\ Joined(i, next - 1)'
    <3>1. next' - 1 = next /\ next' <= Len(evidence')
      BY <1>1, <1>4, <1>6
    <3>2. \A i \in Instances : Joined(i, next - 1)'
      BY <1>5, <3>1 DEF Joined
    <3> QED BY <3>1, <3>2
  <2> QED BY <1>1, <1>2, <2>1, <2>2 DEF AdmissionInv
<1>7. CASE ~(next < Len(evidence)) /\ stage' = "bind" /\ next' = 1
  <2>1. AllJoined'
    <3> SUFFICES ASSUME NEW i \in Instances PROVE Joined(i, Len(evidence))'
      BY DEF AllJoined
    <3>1. next = Len(evidence')
      <4>1. next <= Len(evidence) /\ evidence' = evidence /\ next \in Nat /\ Len(evidence) \in Nat
        BY <1>1, <1>4
      <4> QED BY <1>7, <4>1
    <3> QED BY <1>5, <3>1 DEF Joined
  <2>2. (\A k \in DOMAIN Manifest : k < next => Bound(Manifest[k]))'
    BY <1>7, ManifestFacts
  <2> QED BY <1>1, <1>2, <1>7, <2>1, <2>2 DEF AdmissionInv
<1> QED BY <1>6, <1>7 DEF Observe, Go

LEMMA BindStep == AdmissionInv /\ Bind => AdmissionInv'
<1> SUFFICES ASSUME AdmissionInv, Bind PROVE AdmissionInv'
  OBVIOUS
<1>1. /\ UNCHANGED <<registry, evidence, observations, failures>> /\ stage = "bind"
      /\ failures = {} /\ next \in Nat \ {0} /\ next' \in Nat \ {0}
  BY DEF AdmissionInv, Bind, Refuse, Go, inputs
<1>2. (Reached = Instances)' /\ AllJoined' /\ \A i : Bound(i)' <=> Bound(i)
  BY <1>1, Frame DEF AdmissionInv
<1>3. CASE stage' = "refused"
  BY <1>1, <1>3 DEF AdmissionInv
<1>4. CASE ~RowsDone /\ Bound(Row) /\ next' = next + 1 /\ stage' = "bind"
  <2>1. ASSUME NEW k \in DOMAIN Manifest, k < next' PROVE Bound(Manifest[k])
    <3>1. k < next \/ k = next
      BY <1>1, <1>4, <2>1, ManifestFacts
    <3> QED BY <1>1, <1>4, <3>1 DEF AdmissionInv, Row
  <2>2. (\A k \in DOMAIN Manifest : k < next => Bound(Manifest[k]))'
    BY <1>2, <2>1
  <2> QED BY <1>1, <1>2, <1>4, <2>2 DEF AdmissionInv
<1>5. CASE RowsDone /\ stage' = "expand"
  <2>1. ASSUME NEW i \in Instances PROVE Bound(i)
    <3>1. PICK k \in DOMAIN Manifest : i = Manifest[k]
      BY ManifestFacts
    <3>2. k < next
      BY <1>1, <1>5, ManifestFacts DEF RowsDone
    <3> QED BY <1>1, <3>1, <3>2 DEF AdmissionInv
  <2>2. (\A i \in Instances : Bound(i))'
    BY <1>2, <2>1
  <2> QED BY <1>1, <1>2, <1>5, <2>2 DEF AdmissionInv
<1> QED BY <1>1, <1>3, <1>4, <1>5 DEF Bind, Refuse, Go

LEMMA ExpandStep == AdmissionInv /\ Expand => AdmissionInv'
<1> SUFFICES ASSUME AdmissionInv, Expand PROVE AdmissionInv'
  OBVIOUS
<1>1. /\ UNCHANGED <<registry, evidence, observations, failures>> /\ stage = "expand"
      /\ failures = {} /\ next' \in Nat \ {0}
  BY DEF AdmissionInv, Expand, Refuse, Go, inputs
<1>2. CASE stage' = "refused"
  BY <1>1, <1>2 DEF AdmissionInv
<1>3. CASE CoversExactly /\ stage' = "evaluate" /\ next' = 1
  <2>1. Admissible
    BY <1>1, <1>3 DEF AdmissionInv, Admissible
  <2>2. Admissible'
    BY <1>1, <2>1, Frame
  <2>3. (\A k \in DOMAIN Manifest : k < next => Manifest[k] \in failures \/ Obeyed(Manifest[k]))'
    BY <1>3, ManifestFacts
  <2> QED BY <1>1, <1>3, <2>2, <2>3 DEF AdmissionInv
<1> QED BY <1>2, <1>3 DEF Expand, Refuse, Go

LEMMA EvaluateStep == AdmissionInv /\ Evaluate => AdmissionInv'
<1> SUFFICES ASSUME AdmissionInv, Evaluate PROVE AdmissionInv'
  OBVIOUS
<1>1. /\ UNCHANGED <<registry, evidence, observations>> /\ stage = "evaluate" /\ stage' = "evaluate"
      /\ next \in Nat \ {0} /\ next' = next + 1 /\ Admissible /\ ~RowsDone
      /\ registry \in Registries /\ evidence \in Evidences
      /\ DOMAIN registry = DOMAIN Profiles /\ failures \subseteq Instances
  BY DEF AdmissionInv, Evaluate, inputs, EvaluateDone
<1>2. Admissible' /\ \A i : Obeyed(i)' <=> Obeyed(i)
  BY <1>1, Frame
<1>3. next \in DOMAIN Manifest /\ Row \in Instances
  BY <1>1, ManifestFacts DEF RowsDone, Row
<1>4. Obeyed(Row) \/ Row \in failures'
  BY <1>1, <1>3, CompatibleRow DEF Evaluate
<1>5. failures \subseteq failures' /\ failures' \subseteq Instances
  BY <1>1, <1>3 DEF Evaluate
<1>6. ASSUME NEW k \in DOMAIN Manifest, k < next' PROVE Manifest[k] \in failures' \/ Obeyed(Manifest[k])
  <2>1. k < next \/ k = next
    BY <1>1, <1>6, ManifestFacts
  <2>2. CASE k < next
    BY <1>1, <1>5, <2>2 DEF AdmissionInv
  <2> QED BY <1>4, <2>1, <2>2 DEF Row
<1>7. (\A k \in DOMAIN Manifest : k < next => Manifest[k] \in failures \/ Obeyed(Manifest[k]))'
  BY <1>2, <1>6
<1>8. next' \in Nat \ {0} /\ (DOMAIN registry = DOMAIN Profiles)'
  BY <1>1
<1> QED BY <1>1, <1>2, <1>5, <1>7, <1>8 DEF AdmissionInv

LEMMA EndEvaluateStep == AdmissionInv /\ EndEvaluate => AdmissionInv'
<1> SUFFICES ASSUME AdmissionInv, EndEvaluate PROVE AdmissionInv'
  OBVIOUS
<1>1. /\ UNCHANGED <<registry, evidence, observations, failures>> /\ stage = "evaluate"
      /\ next \in Nat \ {0} /\ next' \in Nat \ {0} /\ Admissible
  BY DEF AdmissionInv, EndEvaluate, Refuse, Go, inputs
<1>2. Admissible' /\ \A i : Obeyed(i)' <=> Obeyed(i)
  BY <1>1, Frame
<1>3. ASSUME RowsDone, NEW i \in Instances PROVE i \in failures \/ Obeyed(i)
  <2>1. PICK k \in DOMAIN Manifest : i = Manifest[k]
    BY ManifestFacts
  <2>2. k < next
    BY <1>1, <1>3, ManifestFacts DEF RowsDone
  <2> QED BY <1>1, <2>1, <2>2 DEF AdmissionInv
<1>4. CASE DOMAIN registry # DOMAIN Profiles /\ stage' = "refused"
  BY <1>1, <1>2, <1>4 DEF AdmissionInv
<1>5. CASE EvaluateDone /\ failures # {} /\ stage' = "refused"
  <2>1. (\A i \in Instances : i \in failures \/ Obeyed(i))'
    BY <1>1, <1>2, <1>3, <1>5 DEF EvaluateDone
  <2> QED BY <1>1, <1>2, <1>5, <2>1 DEF AdmissionInv
<1>6. CASE DOMAIN registry = DOMAIN Profiles /\ EvaluateDone /\ failures = {} /\ stage' = "census"
  <2>1. (\A i \in Instances : Obeyed(i))'
    BY <1>2, <1>3, <1>6 DEF EvaluateDone
  <2>2. (DOMAIN registry = DOMAIN Profiles)'
    BY <1>1, <1>6
  <2> QED BY <1>1, <1>2, <1>6, <2>1, <2>2 DEF AdmissionInv
<1> QED BY <1>4, <1>5, <1>6 DEF EndEvaluate, Refuse, Go

LEMMA CensusStep == AdmissionInv /\ (AuditRow \/ EndAudit) => AdmissionInv'
<1> SUFFICES ASSUME AdmissionInv, AuditRow \/ EndAudit PROVE AdmissionInv'
  OBVIOUS
<1>1. /\ UNCHANGED <<registry, evidence, observations, failures>> /\ stage = "census"
      /\ next \in Nat \ {0} /\ next' \in Nat \ {0} /\ Admissible /\ failures = {}
      /\ stage' \in {"census", "written", "refused"}
  BY DEF AdmissionInv, AuditRow, EndAudit, Refuse, Go, inputs
<1>2. Admissible' /\ \A i : Obeyed(i)' <=> Obeyed(i)
  BY <1>1, Frame
<1>3. (\A i \in Instances : Obeyed(i))' /\ (DOMAIN registry = DOMAIN Profiles)'
  BY <1>1, <1>2 DEF AdmissionInv
<1> QED BY <1>1, <1>2, <1>3 DEF AdmissionInv

LEMMA AdmissionInvariant == AdmissionSpec => []AdmissionInv
<1>1. AdmissionInit => AdmissionInv
  BY DEF AdmissionInit, AdmissionInv
<1>2. AdmissionInv /\ [AdmissionNext]_admissionVars => AdmissionInv'
  <2> SUFFICES ASSUME AdmissionInv, [AdmissionNext]_admissionVars PROVE AdmissionInv'
    OBVIOUS
  <2>1. CASE UNCHANGED admissionVars
    <3>1. UNCHANGED <<registry, evidence, stage, next, observations, failures>>
      BY <2>1 DEF admissionVars
    <3>2. /\ (Reached = Instances)' <=> Reached = Instances
          /\ AllJoined' <=> AllJoined
          /\ Admissible' <=> Admissible
          /\ \A i : Bound(i)' <=> Bound(i)
          /\ \A i : Obeyed(i)' <=> Obeyed(i)
      BY <3>1, Frame
    <3>3. (\A i \in Instances : next <= Len(evidence) /\ Joined(i, next - 1))'
            <=> \A i \in Instances : next <= Len(evidence) /\ Joined(i, next - 1)
      BY <3>1 DEF Joined, Occurrences
    <3> QED BY <3>1, <3>2, <3>3 DEF AdmissionInv
  <2> QED BY <2>1, MakeReportStep, ObserveStep, BindStep, ExpandStep, EvaluateStep,
             EndEvaluateStep, CensusStep DEF AdmissionNext
<1> QED BY <1>1, <1>2, PTL DEF AdmissionSpec

-------------------------------------------------------------------------------
(* The theorems.                                                           *)

\* A document is written only if every instance was observed and all of its
\* occurrences, in all vectors, obey every contract that the registry names it
\* under, for any contracts and all evidence (build, evaluate_all).
THEOREM WrittenTheorem == AdmissionSpec => []WrittenIsMeasured
<1>1. AdmissionInv => WrittenIsMeasured
  <2> SUFFICES ASSUME AdmissionInv, stage = "written" PROVE WrittenIsMeasured
    BY DEF WrittenIsMeasured
  <2>1. Admissible /\ registry \in Registries /\ evidence \in Evidences
        /\ \A i \in Instances : Obeyed(i)
    BY DEF AdmissionInv
  <2>2. ASSUME NEW i \in Instances PROVE Occurrences(i) # {}
    <3>1. PICK v \in DOMAIN evidence : evidence[v][i] # <<>>
      BY <2>1 DEF Admissible, Reached
    <3>2. evidence[v][i] \in Seq(Range(evidence[v][i]))
      BY <2>1, EvidencesAssumption DEF IsSequence
    <3>3. Range(evidence[v][i]) # {}
      <4> DEFINE now == evidence[v][i]
      <4> HIDE DEF now
      <4>1. now \in Seq(Range(now)) /\ now # <<>>
        BY <3>1, <3>2 DEF now
      <4>2. now[1] \in Range(now)
        BY <4>1
      <4> QED BY <4>2 DEF now
    <3> QED BY <3>3 DEF Occurrences
  <2>3. ASSUME NEW s \in DOMAIN registry, NEW i \in Range(registry[s].names),
               NEW o \in Occurrences(i)
        PROVE  Obeys(i, s, o)
    <3>1. i \in Instances
      BY <2>1 DEF Admissible, CoversExactly
    <3>2. s = SchemaOf(i)
      BY <2>1, <3>1, OneSchema DEF Admissible
    <3> QED BY <2>1, <3>1, <3>2 DEF Obeyed
  <2> QED BY <2>2, <2>3 DEF WrittenIsMeasured
<1> QED BY <1>1, AdmissionInvariant, PTL

\* Evidence that is refused for violated contracts is refused with the name of
\* every instance that has an occurrence which violates its contract
\* (evaluate_all).
THEOREM ViolationsTheorem == AdmissionSpec => []EveryViolationNamed
<1>1. AdmissionInv => EveryViolationNamed
  BY DEF AdmissionInv, EveryViolationNamed, Obeyed
<1> QED BY <1>1, AdmissionInvariant, PTL

\* In a document the host writes of each occurrence are what its entry
\* registers say, though the binding pairs them by position over all vectors
\* (build).
THEOREM WritesTheorem == AdmissionSpec => []WritesMatchEntry
<1>1. AdmissionInv => WritesMatchEntry
  <2> SUFFICES ASSUME AdmissionInv, stage = "written" PROVE WritesMatchEntry
    BY DEF WritesMatchEntry
  <2>1. Admissible /\ registry \in Registries /\ evidence \in Evidences
        /\ DOMAIN registry = DOMAIN Profiles /\ \A i \in Instances : Obeyed(i)
    BY DEF AdmissionInv
  <2>2. ASSUME NEW i \in Instances, Encoding[i].kind = "fixed", Encoding[i].pointer,
               NEW o \in Occurrences(i)
        PROVE  o.writes # <<>>
    <3>1. SchemaOf(i) \in DOMAIN Profiles /\ MayName(SchemaOf(i), i)
      BY <2>1, OneSchema DEF Admissible
    <3>2. Profiles[SchemaOf(i)].requireHostWrite
      BY <2>2, <3>1, EncodersWrite
    <3>3. Obeys(i, SchemaOf(i), o)
      BY <2>1 DEF Obeyed
    <3> QED BY <3>2, <3>3 DEF Obeys
  <2> QED BY <2>1, <2>2, BoundMatches DEF Admissible
<1> QED BY <1>1, AdmissionInvariant, PTL

-------------------------------------------------------------------------------
(* The census.                                                             *)

\* The reason that is given is a check that fails at one of the occurrences.
LEMMA ReasonIsFailure ==
  ASSUME NEW X, NEW i \in Instances, NEW profile, NEW parameters,
         observations[i] \in Seq(X), Reason(i, profile, parameters) = "stores"
  PROVE  \E o \in Range(observations[i]) : Fails("stores", i, o, profile, parameters)
<1> DEFINE bad(x) == {j \in DOMAIN Checks : Fails(Checks[j], i, x, profile, parameters)}
           I == {j \in 1..Len(observations[i]) : bad(observations[i][j]) # {}}
           first == IF I # {} THEN Min(I) ELSE 0
           worst == Min(bad(observations[i][first]))
<1>1. DOMAIN Checks = 1..11
  BY DEF Checks
<1>2. \A x : bad(x) \in SUBSET Nat /\ bad(x) \subseteq DOMAIN Checks
  BY <1>1
<1>3. Reason(i, profile, parameters) =
        CASE observations[i] = <<>> -> "no occurrence"
          [] observations[i] # <<>> /\ first = 0 -> "compatible"
          [] OTHER -> Checks[worst]
  BY DEF Reason, SelectInSeq
<1>4. first # 0 /\ Checks[worst] = "stores"
  <2> HIDE DEF I, first, bad, worst
  <2> QED BY <1>3
<1>5. I \in SUBSET Nat /\ first \in I
  <2>1. I \in SUBSET Nat
    OBVIOUS
  <2>2. I # {}
    BY <1>4
  <2> HIDE DEF I
  <2> QED BY <2>1, <2>2, MinIsMember
<1>6. first \in 1..Len(observations[i]) /\ bad(observations[i][first]) # {}
  <2> HIDE DEF first, bad
  <2> QED BY <1>5
<1>7. worst \in bad(observations[i][first])
  <2> HIDE DEF bad, first
  <2> QED BY <1>2, <1>6, MinIsMember
<1>8. Fails(Checks[worst], i, observations[i][first], profile, parameters)
  <2> HIDE DEF worst, first
  <2> QED BY <1>7
<1>9. observations[i][first] \in Range(observations[i])
  <2> HIDE DEF first
  <2> QED BY <1>6 DEF Range
<1> HIDE DEF worst, first
<1> QED BY <1>4, <1>8, <1>9

\* An audit keeps the regions with the names that it keeps.
LEMMA KeptRange ==
  ASSUME NEW specs, specs \in Seq(Range(specs)), NEW keep
  PROVE  Range(Kept(specs, keep)) = {spec \in Range(specs) : spec.name \in keep}
<1> DEFINE pieces == [k \in DOMAIN specs |->
                        IF specs[k].name \in keep THEN <<specs[k]>> ELSE <<>>]
<1>1. DOMAIN specs = 1..Len(specs) /\ Len(specs) \in Nat
  OBVIOUS
<1>2. \A k \in DOMAIN specs : specs[k] \in Range(specs)
  BY DEF Range
<1>3. pieces \in Seq(Seq(Range(specs))) /\ DOMAIN pieces = 1..Len(pieces)
      /\ DOMAIN pieces = DOMAIN specs
  BY <1>1, <1>2
<1>4. \A k \in DOMAIN specs :
        Range(pieces[k]) = {spec \in {specs[k]} : spec.name \in keep}
  BY DEF Range
<1>5. Kept(specs, keep) = FlattenSeq(pieces)
  BY DEF Kept
<1> HIDE DEF pieces
<1>6. Range(FlattenSeq(pieces)) = UNION {Range(pieces[k]) : k \in DOMAIN pieces}
  BY <1>3, FlattenRange
<1>7. \A x : x \in UNION {Range(pieces[k]) : k \in DOMAIN specs}
               <=> x \in Range(specs) /\ x.name \in keep
  <2>1. \A x : x \in Range(specs) <=> \E k \in DOMAIN specs : x = specs[k]
    BY DEF Range
  <2> QED BY <1>4, <2>1
<1> QED BY <1>3, <1>5, <1>6, <1>7

\* A store that is in none of the regions has a byte outside of all of them.
LEMMA StrayByte ==
  ASSUME NEW specs, NEW region, \A spec \in specs : region[spec] \in [start : Int, width : Int],
         NEW store, store.start \in Int, store.width \in Int, store.width > 0,
         \A c, d \in specs : c # d =>
           \/ Apart(region[c], store) \/ Inside(region[c], store)
           \/ Apart(region[d], store) \/ Inside(region[d], store),
         \A spec \in specs : ~Inside(region[spec], store)
  PROVE  \E byte \in Bytes(store) : \A spec \in specs : byte \notin Bytes(region[spec])
<1>1. ASSUME NEW spec \in specs
      PROVE  \E byte \in Bytes(store) : byte \notin Bytes(region[spec])
  <2>1. region[spec].start \in Int /\ region[spec].width \in Int
    OBVIOUS
  <2>2. ~Inside(region[spec], store)
    OBVIOUS
  <2> QED BY <2>1, <2>2 DEF Inside, Bytes
<1>2. ASSUME NEW spec \in specs, NEW byte \in Bytes(store), byte \in Bytes(region[spec])
      PROVE  ~Apart(region[spec], store)
  <2>1. region[spec].start \in Int /\ region[spec].width \in Int
    OBVIOUS
  <2> QED BY <1>2, <2>1 DEF Apart, Bytes
<1>3. CASE \E spec \in specs : ~Apart(region[spec], store)
  <2>1. PICK spec \in specs : ~Apart(region[spec], store)
    BY <1>3
  <2>2. PICK byte \in Bytes(store) : byte \notin Bytes(region[spec])
    BY <1>1
  <2>3. \A other \in specs : byte \notin Bytes(region[other])
    BY <1>2, <2>1, <2>2
  <2> QED BY <2>3
<1>4. CASE \A spec \in specs : Apart(region[spec], store)
  <2>1. store.start \in Bytes(store)
    BY DEF Bytes
  <2> QED BY <1>2, <1>4, <2>1
<1> QED BY <1>3, <1>4

LEMMA AuditIs ==
  ASSUME Len(defects) \in Nat, Len(defects) < Len(Audits)
  PROVE  /\ Audit \in Range(Audits) /\ Audit = Audits[Len(defects) + 1]
         /\ \A i : AuditedParameters(i) = Overridden(Audit, i)
         /\ \A i \in Instances : Selected(i) <=> i \in Meant(Audit)
<1>1. Audits \in Seq(Range(Audits))
  BY AuditsAssumption DEF IsSequence
<1>2. Len(defects) + 1 \in DOMAIN Audits
  BY <1>1
<1>3. Audit \in Range(Audits) /\ Audit = Audits[Len(defects) + 1]
  BY <1>2 DEF Audit, Range
<1>4. \A i : AuditedParameters(i) = Overridden(Audit, i)
  BY DEF AuditedParameters, Overridden
<1>5. \A i \in Instances : Selected(i) <=> i \in Meant(Audit)
  BY DEF Selected, Meant
<1> QED BY <1>3, <1>4, <1>5

\* The contract that an audit evaluates declares what the audit leaves of it.
LEMMA AuditedIs ==
  ASSUME Len(defects) \in Nat, Len(defects) < Len(Audits), NEW i \in Meant(Audit),
         SchemaOf(i) \in DOMAIN Profiles, MayName(SchemaOf(i), i), evidence \in Evidences,
         NEW o \in Occurrences(i)
  PROVE  LET profile == AuditedProfile(SchemaOf(i)) IN
         /\ profile.bounded
         /\ Range(profile.allowedStoreRegions) = StillDeclared(Audit, SchemaOf(i))
<1> DEFINE s == SchemaOf(i)
           profile == AuditedProfile(s)
           specs == Profiles[s].allowedStoreRegions
<1>1. /\ i \in Instances
      /\ Audit.schemas = {} \/ s \in Audit.schemas
      /\ Audit.instances = {} \/ i \in Audit.instances
  BY DEF Meant
<1>2. Audit \in Range(Audits)
  BY AuditIs
<1>3. Profiles[s].bounded /\ (Audit.keep # {} => s \in Audit.schemas)
  BY <1>1, <1>2, AuditsAssumption
<1>4. specs \in Seq(Range(specs))
  <2>1. PICK v \in DOMAIN evidence : o \in Range(evidence[v][i])
    BY DEF Occurrences
  <2> QED BY <1>1, RegionsAssumption DEF IsSequence
<1>5. CASE Audit.keep = {}
  BY <1>3, <1>5 DEF AuditedProfile, StillDeclared
<1>6. CASE Audit.keep # {}
  <2>1. profile = [Profiles[s] EXCEPT !.allowedStoreRegions = Kept(specs, Audit.keep)]
    BY <1>3, <1>6 DEF AuditedProfile
  <2>2. {"bounded", "allowedStoreRegions"} \subseteq DOMAIN Profiles[s]
    BY AuditsAssumption
  <2>3. profile.bounded = Profiles[s].bounded
    BY <2>1, <2>2
  <2>4. profile.allowedStoreRegions = Kept(specs, Audit.keep)
    BY <2>1, <2>2
  <2>5. StillDeclared(Audit, s) = {spec \in Range(specs) : spec.name \in Audit.keep}
    BY <1>6 DEF StillDeclared
  <2> HIDE DEF specs, profile
  <2>6. Range(Kept(specs, Audit.keep)) = {spec \in Range(specs) : spec.name \in Audit.keep}
    BY <1>4, KeptRange
  <2>7. profile.bounded
    BY <1>3, <2>3
  <2> QED BY <2>4, <2>5, <2>6, <2>7 DEF profile
<1> QED BY <1>5, <1>6

\* The check of stores fails of an occurrence if the occurrence shows the defect.
LEMMA StoresFail ==
  ASSUME Len(defects) \in Nat, Len(defects) < Len(Audits), NEW i \in Meant(Audit),
         SchemaOf(i) \in DOMAIN Profiles, MayName(SchemaOf(i), i), evidence \in Evidences,
         NEW o \in Occurrences(i)
  PROVE  Fails("stores", i, o, AuditedProfile(SchemaOf(i)), AuditedParameters(i)) <=>
           ~(Stored(o) \subseteq
               BytesOf(StillDeclared(Audit, SchemaOf(i)), o, Overridden(Audit, i)))
<1> DEFINE s == SchemaOf(i)
           profile == AuditedProfile(s)
           listed == profile.allowedStoreRegions
           specs == StillDeclared(Audit, s)
           parameters == Overridden(Audit, i)
           region == [spec \in specs |-> Region(spec, o.before, parameters)]
<1>1. i \in Instances /\ Audit \in Range(Audits) /\ AuditedParameters(i) = parameters
  BY AuditIs DEF Meant
<1>2. PICK v \in DOMAIN evidence : o \in Range(evidence[v][i])
  BY DEF Occurrences
<1>3. \A store \in o.stores : store.start \in Int /\ store.width \in Int
  BY <1>1, <1>2, EvidencesAssumption
<1>4. specs \subseteq Range(Profiles[s].allowedStoreRegions)
  BY DEF StillDeclared
<1>5. /\ \A spec \in specs : region[spec] \in [start : Int, width : Int]
      /\ \A store \in o.stores :
           /\ store.width > 0
           /\ \A c, d \in specs : c # d =>
                \/ Apart(region[c], store) \/ Inside(region[c], store)
                \/ Apart(region[d], store) \/ Inside(region[d], store)
  BY <1>1, <1>2, <1>4, StoresAssumption
<1>6. profile.bounded /\ Range(listed) = specs
  BY AuditedIs
<1>7. Fails("stores", i, o, profile, parameters) <=>
        \E store \in o.stores : \A spec \in specs : ~Inside(region[spec], store)
  <2>1. Fails("stores", i, o, profile, parameters) <=>
          \E store \in o.stores : \A k \in DOMAIN listed :
             ~Inside(Region(listed[k], o.before, parameters), store)
    BY <1>6 DEF Fails
  <2>2. \A x : x \in specs <=> \E k \in DOMAIN listed : x = listed[k]
    BY <1>6 DEF Range
  <2>3. \A spec \in specs : region[spec] = Region(spec, o.before, parameters)
    OBVIOUS
  <2> HIDE DEF specs, listed, parameters, region, profile
  <2> QED BY <2>1, <2>2, <2>3
<1>8. \A byte : byte \in BytesOf(specs, o, parameters)
                 <=> \E spec \in specs : byte \in Bytes(region[spec])
  BY DEF BytesOf
<1> HIDE DEF specs, listed, parameters, region, profile
<1>9. ASSUME NEW store \in o.stores, \A spec \in specs : ~Inside(region[spec], store)
      PROVE  ~(Stored(o) \subseteq BytesOf(specs, o, parameters))
  <2>1. PICK byte \in Bytes(store) : \A spec \in specs : byte \notin Bytes(region[spec])
    BY <1>3, <1>5, <1>9, StrayByte
  <2> QED BY <1>8, <2>1 DEF Stored
<1>10. ASSUME ~(Stored(o) \subseteq BytesOf(specs, o, parameters))
       PROVE  \E store \in o.stores : \A spec \in specs : ~Inside(region[spec], store)
  <2>1. PICK store \in o.stores : ~(Bytes(store) \subseteq BytesOf(specs, o, parameters))
    BY <1>10 DEF Stored
  <2>2. PICK byte \in Bytes(store) : \A spec \in specs : byte \notin Bytes(region[spec])
    BY <1>8, <2>1
  <2>3. ASSUME NEW spec \in specs PROVE ~Inside(region[spec], store)
    BY <1>3, <1>5, <2>2, InsideBytes
  <2> QED BY <2>3
<1>11. AuditedParameters(i) = parameters
  BY <1>1
<1> QED BY <1>7, <1>9, <1>10, <1>11 DEF profile, specs, parameters

Checked(i) == \E k \in DOMAIN Manifest : k < next /\ i = Manifest[k]

CalledFrom(sites, names) ==
  \A site \in sites : \E i \in names :
    site.instance = i \/ \E o \in Occurrences(i) : site.return = o.before["ra"]

Exact(defect, audit) ==
  /\ defect.affected = {i \in Meant(audit) : Shows(audit, i)}
  /\ defect.affected # {}
  /\ CalledFrom(defect.sites, defect.affected)

\* The audits that are done are exact, and the one under way is of the rows looked at.
CensusInv ==
  /\ defects = [k \in 1..Len(defects) |-> defects[k]] /\ Len(defects) \in Nat
  /\ stage \notin {"census", "written", "refused"} =>
       defects = <<>> /\ affected = {} /\ caller_sites = {}
  /\ stage \in {"census", "written"} => \A k \in DOMAIN defects : Exact(defects[k], Audits[k])
  /\ stage = "census" =>
       /\ Len(defects) < Len(Audits)
       /\ affected = {i \in Meant(Audit) : Shows(Audit, i) /\ Checked(i)}
       /\ CalledFrom(caller_sites, affected)
  /\ stage = "written" => Len(defects) = Len(Audits)

\* What a row of the census says of an instance, and what its contract shows.
LEMMA RowIsExact ==
  ASSUME AdmissionInv, CensusInv, stage = "census", NEW i \in Meant(Audit)
  PROVE  LET reason == Reason(i, AuditedProfile(SchemaOf(i)), AuditedParameters(i)) IN
         /\ reason = "compatible" => ~Shows(Audit, i)
         /\ reason = Audit.expected => Shows(Audit, i)
         /\ \A site \in SitesOf(i) :
              site.instance = i \/ \E o \in Occurrences(i) : site.return = o.before["ra"]
<1> DEFINE profile == AuditedProfile(SchemaOf(i))
           parameters == AuditedParameters(i)
<1>1. /\ registry \in Registries /\ evidence \in Evidences /\ CoversExactly /\ AllJoined
      /\ DOMAIN registry = DOMAIN Profiles /\ i \in Instances
      /\ Len(defects) \in Nat /\ Len(defects) < Len(Audits)
  BY DEF AdmissionInv, Admissible, CensusInv, Meant
<1>2. SchemaOf(i) \in DOMAIN Profiles /\ MayName(SchemaOf(i), i)
  BY <1>1, OneSchema
<1>3. observations[i] \in Seq(Occurrences(i)) /\ Range(observations[i]) = Occurrences(i)
  BY <1>1, AllOccurrences DEF AllJoined, Joined
<1>4. \A o \in Occurrences(i) :
        Fails("stores", i, o, profile, parameters) <=>
          ~(Stored(o) \subseteq
              BytesOf(StillDeclared(Audit, SchemaOf(i)), o, Overridden(Audit, i)))
  BY <1>1, <1>2, StoresFail
<1>5. Audit.expected = "stores"
  BY <1>1, AuditIs, AuditsAssumption
<1>6. 7 \in DOMAIN Checks /\ Checks[7] = "stores"
  BY DEF Checks
<1>7. ASSUME Reason(i, profile, parameters) = "compatible" PROVE ~Shows(Audit, i)
  <2>1. \A o \in Occurrences(i) : ~Fails("stores", i, o, profile, parameters)
    BY <1>1, <1>3, <1>6, <1>7, CompatibleFailsNothing
  <2> QED BY <1>4, <2>1 DEF Shows
<1>8. ASSUME Reason(i, profile, parameters) = "stores" PROVE Shows(Audit, i)
  <2>1. \E o \in Occurrences(i) : Fails("stores", i, o, profile, parameters)
    BY <1>1, <1>3, <1>8, ReasonIsFailure
  <2> QED BY <1>4, <2>1 DEF Shows
<1>9. ASSUME NEW site \in SitesOf(i)
      PROVE  site.instance = i \/ \E o \in Occurrences(i) : site.return = o.before["ra"]
  BY <1>3 DEF SitesOf
<1> QED BY <1>5, <1>7, <1>8, <1>9

LEMMA CensusFrame ==
  ASSUME UNCHANGED <<registry, evidence>>
  PROVE  /\ \A audit : Meant(audit)' = Meant(audit)
         /\ \A audit, i : Shows(audit, i)' <=> Shows(audit, i)
         /\ \A sites, names : CalledFrom(sites, names)' <=> CalledFrom(sites, names)
         /\ \A defect, audit : Exact(defect, audit)' <=> Exact(defect, audit)
<1>1. \A audit : Meant(audit)' = Meant(audit)
  BY DEF Meant, SchemaOf
<1>2. \A audit, i : Shows(audit, i)' <=> Shows(audit, i)
  BY DEF Shows, Occurrences, StillDeclared, SchemaOf, Stored, BytesOf, Overridden
<1>3. \A sites, names : CalledFrom(sites, names)' <=> CalledFrom(sites, names)
  BY DEF CalledFrom, Occurrences
<1>4. \A defect, audit : Exact(defect, audit)' <=> Exact(defect, audit)
  BY <1>1, <1>2, <1>3 DEF Exact
<1> QED BY <1>1, <1>2, <1>3, <1>4

LEMMA AuditRowStep == AdmissionInv /\ CensusInv /\ AuditRow => CensusInv'
<1> SUFFICES ASSUME AdmissionInv, CensusInv, AuditRow PROVE CensusInv'
  OBVIOUS
<1>1. /\ stage = "census" /\ next \in Nat \ {0} /\ UNCHANGED <<registry, evidence, defects>>
      /\ ~RowsDone /\ Len(defects) < Len(Audits)
      /\ affected = {i \in Meant(Audit) : Shows(Audit, i) /\ Checked(i)}
      /\ CalledFrom(caller_sites, affected)
      /\ \A k \in DOMAIN defects : Exact(defects[k], Audits[k])
  BY DEF AuditRow, AdmissionInv, CensusInv, inputs, census, Refuse
<1>2. Row \in Instances /\ next \in DOMAIN Manifest
  BY <1>1, ManifestFacts DEF RowsDone, Row
<1>3. Selected(Row) <=> Row \in Meant(Audit)
  BY <1>1, <1>2, AuditIs DEF CensusInv
<1>4. Audit' = Audit
  BY <1>1 DEF Audit
<1>5. ASSUME next' = next + 1
      PROVE  \A i : Checked(i)' <=> Checked(i) \/ i = Row
  <2>1. \A k \in DOMAIN Manifest : k < next + 1 <=> k < next \/ k = next
    BY <1>1, ManifestFacts
  <2> QED BY <1>2, <1>5, <2>1 DEF Checked, Row
<1>6. /\ defects' = [k \in 1..Len(defects') |-> defects'[k]] /\ Len(defects') \in Nat
      /\ (\A k \in DOMAIN defects : Exact(defects[k], Audits[k]))'
  BY <1>1, CensusFrame DEF CensusInv
<1> DEFINE reason == IF Selected(Row)
                     THEN Reason(Row, AuditedProfile(SchemaOf(Row)), AuditedParameters(Row))
                     ELSE "compatible"
<1>7. CASE reason = "compatible" /\ next' = next + 1 /\ UNCHANGED <<stage, affected, caller_sites>>
  <2>1. ~(Row \in Meant(Audit) /\ Shows(Audit, Row))
    BY <1>1, <1>3, <1>7, RowIsExact
  <2>2. affected' = {i \in Meant(Audit)' : Shows(Audit, i)' /\ Checked(i)'}
    BY <1>1, <1>4, <1>5, <1>7, <2>1, CensusFrame
  <2>3. CalledFrom(caller_sites, affected)'
    BY <1>1, <1>7, CensusFrame
  <2> QED BY <1>1, <1>4, <1>6, <1>7, <2>2, <2>3, CensusFrame DEF CensusInv
<1>8. CASE /\ reason = Audit.expected /\ affected' = affected \cup {Row}
           /\ caller_sites' = caller_sites \cup SitesOf(Row)
           /\ next' = next + 1 /\ UNCHANGED stage
  <2>1. Audit.expected = "stores"
    BY <1>1, AuditIs, AuditsAssumption DEF CensusInv
  <2>2. Row \in Meant(Audit) /\ Shows(Audit, Row)
    BY <1>1, <1>3, <1>8, <2>1, RowIsExact
  <2>3. affected' = {i \in Meant(Audit)' : Shows(Audit, i)' /\ Checked(i)'}
    BY <1>1, <1>4, <1>5, <1>8, <2>2, CensusFrame
  <2>4. \A site \in SitesOf(Row) :
          site.instance = Row \/ \E o \in Occurrences(Row) : site.return = o.before["ra"]
    BY <1>1, <2>2, RowIsExact
  <2>5. CalledFrom(caller_sites', affected')
    BY <1>1, <1>8, <2>4 DEF CalledFrom
  <2>6. CalledFrom(caller_sites, affected)'
    BY <1>1, <2>5, CensusFrame
  <2> QED BY <1>1, <1>4, <1>6, <1>8, <2>3, <2>6, CensusFrame DEF CensusInv
<1>9. CASE stage' = "refused"
  BY <1>6, <1>9 DEF CensusInv
<1> QED BY <1>7, <1>8, <1>9 DEF AuditRow, Refuse, inputs, census

LEMMA EndAuditStep == AdmissionInv /\ CensusInv /\ EndAudit => CensusInv'
<1> SUFFICES ASSUME AdmissionInv, CensusInv, EndAudit PROVE CensusInv'
  OBVIOUS
<1>1. /\ stage = "census" /\ next \in Nat \ {0} /\ UNCHANGED <<registry, evidence>>
      /\ RowsDone /\ Len(defects) < Len(Audits) /\ Len(defects) \in Nat
      /\ defects = [k \in 1..Len(defects) |-> defects[k]]
      /\ affected = {i \in Meant(Audit) : Shows(Audit, i) /\ Checked(i)}
      /\ CalledFrom(caller_sites, affected)
      /\ \A k \in DOMAIN defects : Exact(defects[k], Audits[k])
  BY DEF EndAudit, AdmissionInv, CensusInv, inputs, Refuse
<1>2. CASE stage' = "refused" /\ UNCHANGED defects
  BY <1>1, <1>2 DEF CensusInv
<1>3. CASE /\ affected # {}
           /\ defects' = Append(defects, [affected |-> affected, sites |-> caller_sites])
           /\ affected' = {} /\ caller_sites' = {}
           /\ stage' = (IF Len(defects') = Len(Audits) THEN "written" ELSE "census")
           /\ next' = 1
  <2> DEFINE n == Len(defects)
             found == [affected |-> affected, sites |-> caller_sites]
  <2>1. \A i \in Instances : Checked(i)
    <3>1. \A k \in DOMAIN Manifest : k < next
      BY <1>1, ManifestFacts DEF RowsDone
    <3> QED BY <3>1, ManifestFacts DEF Checked
  <2>2. affected = {i \in Meant(Audit) : Shows(Audit, i)}
    BY <1>1, <2>1 DEF Meant
  <2>3. Exact(found, Audits[n + 1])
    BY <1>1, <1>3, <2>2 DEF Exact, Audit
  <2>4. /\ defects' = [k \in 1..(n + 1) |-> IF k = n + 1 THEN found ELSE defects[k]]
        /\ Len(defects') = n + 1 /\ DOMAIN defects' = 1..(n + 1)
    BY <1>1, <1>3
  <2>5. \A k \in DOMAIN defects' : Exact(defects'[k], Audits[k])
    <3> SUFFICES ASSUME NEW k \in DOMAIN defects' PROVE Exact(defects'[k], Audits[k])
      OBVIOUS
    <3> HIDE DEF found
    <3>1. k = n + 1 \/ (k \in 1..n /\ k # n + 1)
      BY <1>1, <2>4
    <3>2. CASE k = n + 1
      BY <1>1, <2>3, <2>4, <3>2
    <3>3. CASE k \in 1..n /\ k # n + 1
      BY <1>1, <2>4, <3>3
    <3> QED BY <3>1, <3>2, <3>3
  <2>6. (\A k \in DOMAIN defects : Exact(defects[k], Audits[k]))'
    BY <1>1, <2>5, CensusFrame
  <2>7. defects' = [k \in 1..Len(defects') |-> defects'[k]] /\ Len(defects') \in Nat
    BY <1>1, <2>4
  <2>8. stage' = "census" => Len(defects') < Len(Audits)
    <3>1. Len(Audits) \in Nat
      BY AuditsAssumption DEF IsSequence
    <3> QED BY <1>1, <1>3, <2>4, <3>1
  <2>9. \A i : ~Checked(i)'
    <3>1. \A k \in DOMAIN Manifest : ~(k < 1)
      BY ManifestFacts
    <3> QED BY <1>3, <3>1 DEF Checked
  <2>10. CalledFrom(caller_sites, affected)'
    BY <1>3 DEF CalledFrom
  <2>11. affected' = {i \in Meant(Audit)' : Shows(Audit, i)' /\ Checked(i)'}
    BY <1>3, <2>9
  <2> HIDE DEF found, n
  <2> QED BY <1>3, <2>6, <2>7, <2>8, <2>10, <2>11 DEF CensusInv
<1> QED BY <1>2, <1>3 DEF EndAudit, Refuse, census, Go

LEMMA CensusInvariant == AdmissionSpec => []CensusInv
<1>1. AdmissionInit => CensusInv
  <2>1. ASSUME AdmissionInit PROVE CensusInv
    <3>1. defects = <<>> /\ affected = {} /\ caller_sites = {} /\ stage = "make_report"
      BY <2>1 DEF AdmissionInit
    <3>2. <<>> = [k \in 1..Len(<<>>) |-> <<>>[k]] /\ Len(<<>>) = 0
      OBVIOUS
    <3> QED BY <3>1, <3>2 DEF CensusInv
  <2> QED BY <2>1
<1>2. AdmissionInv /\ CensusInv /\ [AdmissionNext]_admissionVars => CensusInv'
  <2> SUFFICES ASSUME AdmissionInv, CensusInv, [AdmissionNext]_admissionVars PROVE CensusInv'
    OBVIOUS
  <2>1. CASE UNCHANGED admissionVars
    <3>1. UNCHANGED <<registry, evidence, stage, next, affected, caller_sites, defects>>
      BY <2>1 DEF admissionVars
    <3>2. Audit' = Audit /\ \A i : Checked(i)' <=> Checked(i)
      BY <3>1 DEF Audit, Checked
    <3> QED BY <3>1, <3>2, CensusFrame DEF CensusInv
  <2>2. CASE MakeReport \/ Observe \/ Bind \/ Expand \/ Evaluate \/ EndEvaluate
    <3>1. /\ stage \notin {"census", "written", "refused"}
          /\ UNCHANGED <<registry, evidence, affected, caller_sites, defects>>
      BY <2>2 DEF MakeReport, Observe, Bind, Expand, Evaluate, EndEvaluate, Refuse, inputs, census
    <3>2. stage' # "written" /\ (stage' = "census" => next' = 1)
      BY <2>2, <3>1 DEF MakeReport, Observe, Bind, Expand, Evaluate, EndEvaluate, Refuse, Go
    <3>3. defects' = <<>> /\ affected' = {} /\ caller_sites' = {}
      BY <3>1 DEF CensusInv
    <3>4. defects' = [k \in 1..Len(defects') |-> defects'[k]] /\ Len(defects') \in Nat
      BY <3>1 DEF CensusInv
    <3>5. DOMAIN defects' = {} /\ Len(defects') = 0
      BY <3>3
    <3>6. 0 < Len(Audits)
      <4>1. Audits \in Seq(Range(Audits)) /\ Audits # <<>>
        BY AuditsAssumption DEF IsSequence
      <4> QED BY <4>1
    <3>7. next' = 1 => \A i : ~Checked(i)'
      <4>1. \A k \in DOMAIN Manifest : ~(k < 1)
        BY ManifestFacts
      <4> QED BY <4>1 DEF Checked
    <3>8. CalledFrom(caller_sites, affected)'
      BY <3>3 DEF CalledFrom
    <3> QED BY <3>2, <3>3, <3>4, <3>5, <3>6, <3>7, <3>8 DEF CensusInv
  <2> QED BY <2>1, <2>2, AuditRowStep, EndAuditStep DEF AdmissionNext
<1> QED BY <1>1, <1>2, AdmissionInvariant, PTL DEF AdmissionSpec

\* The census of a document is exact, for all evidence whose stores are those of a
\* machine and for any audits that ask for stores outside of a frame: an instance
\* is counted for a defect exactly if one of its occurrences stores a byte that the
\* defective contract does not declare (build_census).
THEOREM CensusTheorem == AdmissionSpec => []CensusIsExact
<1>1. CensusInv => CensusIsExact
  <2> SUFFICES ASSUME CensusInv, stage = "written", NEW k \in DOMAIN Audits
               PROVE  Exact(defects[k], Audits[k])
    BY DEF CensusIsExact, Exact, CalledFrom
  <2>1. Audits \in Seq(Range(Audits))
    BY AuditsAssumption DEF IsSequence
  <2>2. k \in 1..Len(defects) /\ DOMAIN defects = 1..Len(defects)
    BY <2>1 DEF CensusInv
  <2> QED BY <2>2 DEF CensusInv
<1> QED BY <1>1, CensusInvariant, PTL
===============================================================================
