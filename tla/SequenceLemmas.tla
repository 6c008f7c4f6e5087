---------------------------- MODULE SequenceLemmas ----------------------------
(***************************************************************************)
(* Facts about the concatenation of a sequence of sequences, from the      *)
(* definition of FlattenSeq by a recursive function, and about what is     *)
(* reached from a set over edges, layer by layer.                          *)
(***************************************************************************)
EXTENDS
  Integers, Sequences, SequencesExt, SequenceTheorems, FiniteSetTheorems, WellFoundedInduction, TLAPS

\* A set of numbers that is not empty has a least element.
LEMMA Least ==
  ASSUME NEW T \in SUBSET Nat, T # {}
  PROVE  \E x \in T : \A y \in T : x <= y
<1> DEFINE R == {p \in Nat \X Nat : p[1] < p[2]}
<1>1. IsWellFoundedOn(R, Nat)
  <2>1. OpToRel(<, Nat) = R
    BY DEF OpToRel
  <2> QED BY <2>1, NatLessThanWellFounded
<1>2. PICK x \in T : \A y \in T : ~ (<<y, x>> \in R)
  <2> HIDE DEF R
  <2> QED BY <1>1, WFMin
<1>3. ASSUME NEW y \in T PROVE x <= y
  <2>1. x \in Nat /\ y \in Nat /\ <<y, x>> \notin R
    BY <1>2
  <2> QED BY <2>1
<1> QED BY <1>3

LEMMA MinIsMember ==
  ASSUME NEW T \in SUBSET Nat, T # {}
  PROVE  Min(T) \in T /\ \A y \in T : Min(T) <= y
<1>1. \E x \in T : \A y \in T : x =< y
  BY Least
<1> QED BY <1>1 DEF Min

\* Induction, about a set and not about an operator.
LEMMA SetInduction ==
  ASSUME NEW T \in SUBSET Nat, 0 \in T, \A n \in T : n + 1 \in T
  PROVE  T = Nat
<1> SUFFICES ASSUME T # Nat PROVE FALSE
  OBVIOUS
<1>1. PICK x \in Nat \ T : \A y \in Nat \ T : x <= y
  <2>1. Nat \ T \in SUBSET Nat /\ Nat \ T # {}
    OBVIOUS
  <2> QED BY <2>1, Least
<1>2. x # 0 /\ x - 1 \in Nat /\ x - 1 \notin T
  BY <1>1
<1>3. x <= x - 1
  BY <1>1, <1>2
<1> QED BY <1>1, <1>3

LEMMA TailShort ==
  ASSUME NEW S, NEW s \in Seq(S), s # << >>
  PROVE  /\ Len(s) = 1 => Tail(s) = << >>
         /\ Len(s) = 2 => Tail(s) = <<s[2]>>
<1> DEFINE t == Tail(s)
<1>1. t \in Seq(S) /\ Len(t) = Len(s) - 1 /\ \A j \in 1..Len(t) : t[j] = s[j + 1]
  BY HeadTailProperties
<1> HIDE DEF t
<1>2. ASSUME Len(s) = 1 PROVE t = << >>
  <2>1. Len(t) = 0
    BY <1>1, <1>2
  <2> QED BY <1>1, <2>1
<1>3. ASSUME Len(s) = 2 PROVE t = <<s[2]>>
  <2>1. Len(t) = 1
    BY <1>1, <1>3
  <2>2. t[1] = s[2] /\ t[1] \in S
    BY <1>1, <2>1
  <2>3. t = <<t[1]>>
    BY <1>1, <2>1
  <2> QED BY <2>2, <2>3
<1> QED BY <1>2, <1>3 DEF t

\* What FlattenSeq(ss) has put together after each element of ss.
Flattened(ss) ==
  CHOOSE f : f = [i \in 1..Len(ss) |-> IF i = 1 THEN ss[i] ELSE f[i - 1] \o ss[i]]

LEMMA FlattenedExists ==
  ASSUME NEW S, NEW ss \in Seq(Seq(S))
  PROVE  Flattened(ss) =
           [i \in 1..Len(ss) |-> IF i = 1 THEN ss[i] ELSE Flattened(ss)[i - 1] \o ss[i]]
<1> DEFINE Upto(f, n) == f = [i \in 1..n |-> IF i = 1 THEN ss[i] ELSE f[i - 1] \o ss[i]]
           T == {n \in Nat : \E f : Upto(f, n)}
<1>1. 0 \in T
  <2>1. Upto([i \in 1..0 |-> 0], 0)
    OBVIOUS
  <2> QED BY <2>1
<1>2. ASSUME NEW n \in T PROVE n + 1 \in T
  <2>1. PICK f : Upto(f, n)
    OBVIOUS
  <2> DEFINE g == [i \in 1..(n + 1) |-> IF i = n + 1 THEN IF i = 1 THEN ss[i] ELSE f[i - 1] \o ss[i]
                                        ELSE f[i]]
  <2>2. \A i \in 1..(n + 1) : i # 1 => i - 1 \in 1..n /\ g[i - 1] = f[i - 1]
    OBVIOUS
  <2>3. ASSUME NEW i \in 1..(n + 1)
        PROVE  g[i] = IF i = 1 THEN ss[i] ELSE g[i - 1] \o ss[i]
    <3>1. CASE i = n + 1
      BY <2>2, <3>1
    <3>2. CASE i \in 1..n
      <4>1. f[i] = IF i = 1 THEN ss[i] ELSE f[i - 1] \o ss[i]
        BY <2>1, <3>2
      <4>2. g[i] = f[i] /\ (i # 1 => g[i - 1] = f[i - 1])
        BY <2>2, <3>2
      <4> QED BY <4>1, <4>2
    <3> QED BY <3>1, <3>2
  <2>4. Upto(g, n + 1)
    BY <2>3
  <2>5. n + 1 \in Nat
    OBVIOUS
  <2> HIDE DEF Upto, g
  <2> QED BY <2>4, <2>5
<1>3. T = Nat
  <2> HIDE DEF T
  <2>1. T \in SUBSET Nat
    BY DEF T
  <2> QED BY <1>1, <1>2, <2>1, SetInduction
<1>4. \E f : Upto(f, Len(ss))
  <2>1. Len(ss) \in Nat
    OBVIOUS
  <2> QED BY <1>3, <2>1
<1> QED BY <1>4 DEF Flattened

LEMMA FlattenIsLast ==
  ASSUME NEW S, NEW ss \in Seq(Seq(S))
  PROVE  FlattenSeq(ss) = IF Len(ss) = 0 THEN ss ELSE Flattened(ss)[Len(ss)]
BY DEF FlattenSeq, Flattened
LEMMA FlattenEmpty ==
  FlattenSeq(<< >>) = << >>
BY DEF FlattenSeq

\* One more sequence goes to the end.
LEMMA FlattenAppend ==
  ASSUME NEW S, NEW ss \in Seq(Seq(S)), NEW s \in Seq(S)
  PROVE  /\ FlattenSeq(ss) \in Seq(S)
         /\ FlattenSeq(Append(ss, s)) = FlattenSeq(ss) \o s
<1> DEFINE tt == Append(ss, s)
           P == Flattened(ss)
           Q == Flattened(tt)
           N == Len(ss)
<1>1. /\ tt \in Seq(Seq(S)) /\ Len(tt) = N + 1 /\ tt[N + 1] = s /\ N \in Nat
      /\ \A i \in 1..N : tt[i] = ss[i] /\ ss[i] \in Seq(S)
  OBVIOUS
<1>2. P = [i \in 1..N |-> IF i = 1 THEN ss[i] ELSE P[i - 1] \o ss[i]]
  BY FlattenedExists
<1>3. Q = [i \in 1..(N + 1) |-> IF i = 1 THEN tt[i] ELSE Q[i - 1] \o tt[i]]
  BY <1>1, FlattenedExists
<1>a. FlattenSeq(ss) = IF N = 0 THEN ss ELSE P[N]
  BY FlattenIsLast
<1>b. FlattenSeq(tt) = Q[N + 1]
  <2>1. FlattenSeq(tt) = IF Len(tt) = 0 THEN tt ELSE Q[Len(tt)]
    <3> HIDE DEF tt
    <3> QED BY <1>1, FlattenIsLast
  <2>2. Len(tt) = N + 1 /\ N + 1 # 0
    BY <1>1
  <2> HIDE DEF N, Q, tt
  <2> QED BY <2>1, <2>2
<1> HIDE DEF P, Q, N, tt
<1> DEFINE T == {n \in Nat : n \in 1..N => P[n] = Q[n] /\ P[n] \in Seq(S)}
<1>4. 0 \in T
  OBVIOUS
<1>5. ASSUME NEW n \in T PROVE n + 1 \in T
  <2> SUFFICES ASSUME n + 1 \in 1..N PROVE P[n + 1] = Q[n + 1] /\ P[n + 1] \in Seq(S)
    OBVIOUS
  <2>1. /\ n \in Nat /\ n + 1 \in 1..(N + 1) /\ (n + 1) - 1 = n
        /\ tt[n + 1] = ss[n + 1] /\ ss[n + 1] \in Seq(S)
    BY <1>1
  <2>2. P[n + 1] = IF n + 1 = 1 THEN ss[n + 1] ELSE P[n] \o ss[n + 1]
    BY <1>2, <2>1
  <2>3. Q[n + 1] = IF n + 1 = 1 THEN ss[n + 1] ELSE Q[n] \o ss[n + 1]
    BY <1>3, <2>1
  <2>4. CASE n = 0
    BY <2>1, <2>2, <2>3, <2>4
  <2>5. CASE n # 0
    <3>1. n \in 1..N
      BY <1>1, <2>1, <2>5
    <3>2. P[n] = Q[n] /\ P[n] \in Seq(S)
      BY <3>1
    <3> QED BY <2>1, <2>2, <2>3, <2>5, <3>2
  <2> QED BY <2>4, <2>5
<1>6. T = Nat
  <2>1. T \in SUBSET Nat
    OBVIOUS
  <2> HIDE DEF T
  <2> QED BY <1>4, <1>5, <2>1, SetInduction
<1>7. CASE N = 0
  <2>1. ss = << >>
    BY <1>7 DEF N
  <2>2. Q[N + 1] = s
    BY <1>1, <1>3, <1>7
  <2>3. << >> \o s = s
    OBVIOUS
  <2> QED BY <1>a, <1>b, <1>7, <2>1, <2>2, <2>3 DEF tt
<1>8. CASE N # 0
  <2>1. N \in Nat /\ N \in 1..N /\ N + 1 \in 1..(N + 1) /\ N + 1 # 1 /\ (N + 1) - 1 = N
    BY <1>1, <1>8
  <2>2. P[N] = Q[N] /\ P[N] \in Seq(S)
    <3>1. N \in T
      <4> HIDE DEF T
      <4> QED BY <1>6, <2>1
    <3> QED BY <2>1, <3>1
  <2>3. Q[N + 1] = Q[N] \o s
    <3>1. tt[N + 1] = s
      BY <1>1
    <3>2. Q[N + 1] = IF N + 1 = 1 THEN tt[N + 1] ELSE Q[(N + 1) - 1] \o tt[N + 1]
      BY <1>3, <2>1
    <3> QED BY <2>1, <3>1, <3>2
  <2> QED BY <1>a, <1>b, <1>8, <2>2, <2>3 DEF tt
<1> QED BY <1>7, <1>8

\* Every sequence that is not empty is one with an element appended.
LEMMA SplitLast ==
  ASSUME NEW S, NEW ss \in Seq(S), NEW n \in Nat, Len(ss) = n + 1
  PROVE  \E tt \in Seq(S) : \E s \in S : ss = Append(tt, s) /\ Len(tt) = n
<1> DEFINE tt == [i \in 1..n |-> ss[i]]
<1>1. tt \in Seq(S) /\ Len(tt) = n /\ ss[n + 1] \in S
  OBVIOUS
<1>2. ss = Append(tt, ss[n + 1])
  OBVIOUS
<1> HIDE DEF tt
<1> QED BY <1>1, <1>2
LEMMA ConcatenationAt ==
  ASSUME NEW S, NEW s \in Seq(S), NEW t \in Seq(S)
  PROVE  /\ s \o t \in Seq(S) /\ Len(s \o t) = Len(s) + Len(t)
         /\ DOMAIN (s \o t) = 1..(Len(s) + Len(t))
         /\ \A k \in DOMAIN (s \o t) : (s \o t)[k] = IF k <= Len(s) THEN s[k] ELSE t[k - Len(s)]
         /\ DOMAIN s = 1..Len(s) /\ DOMAIN t = 1..Len(t) /\ Len(s) \in Nat /\ Len(t) \in Nat
OBVIOUS

LEMMA RangeOfConcatenation ==
  ASSUME NEW S, NEW s \in Seq(S), NEW t \in Seq(S)
  PROVE  Range(s \o t) = Range(s) \cup Range(t)
<1>1. /\ DOMAIN (s \o t) = 1..(Len(s) + Len(t))
      /\ \A k \in DOMAIN (s \o t) : (s \o t)[k] = IF k <= Len(s) THEN s[k] ELSE t[k - Len(s)]
      /\ DOMAIN s = 1..Len(s) /\ DOMAIN t = 1..Len(t) /\ Len(s) \in Nat /\ Len(t) \in Nat
  BY ConcatenationAt
<1>2. ASSUME NEW k \in DOMAIN (s \o t) PROVE (s \o t)[k] \in Range(s) \cup Range(t)
  <2>1. CASE k <= Len(s)
    BY <1>1, <2>1 DEF Range
  <2>2. CASE ~(k <= Len(s))
    <3>1. k - Len(s) \in DOMAIN t
      BY <1>1, <2>2
    <3> QED BY <1>1, <2>2, <3>1 DEF Range
  <2> QED BY <2>1, <2>2
<1>3. ASSUME NEW k \in DOMAIN s PROVE s[k] \in Range(s \o t)
  <2>1. k \in DOMAIN (s \o t) /\ (s \o t)[k] = s[k]
    BY <1>1
  <2> QED BY <2>1 DEF Range
<1>4. ASSUME NEW k \in DOMAIN t PROVE t[k] \in Range(s \o t)
  <2>1. k + Len(s) \in DOMAIN (s \o t) /\ (s \o t)[k + Len(s)] = t[k]
    BY <1>1
  <2> QED BY <2>1 DEF Range
<1> QED BY <1>2, <1>3, <1>4 DEF Range

\* What is in the concatenation is in one of the sequences.
LEMMA FlattenRange ==
  ASSUME NEW S, NEW ss \in Seq(Seq(S))
  PROVE  Range(FlattenSeq(ss)) = UNION {Range(ss[k]) : k \in DOMAIN ss}
<1> DEFINE Right(tt) == Range(FlattenSeq(tt)) = UNION {Range(tt[k]) : k \in DOMAIN tt}
           T == {n \in Nat : \A tt \in Seq(Seq(S)) : Len(tt) = n => Right(tt)}
<1>1. 0 \in T
  <2> SUFFICES ASSUME NEW tt \in Seq(Seq(S)), Len(tt) = 0 PROVE Right(tt)
    OBVIOUS
  <2>1. tt = << >>
    OBVIOUS
  <2> QED BY <2>1, FlattenEmpty DEF Range
<1>2. ASSUME NEW n \in T PROVE n + 1 \in T
  <2> SUFFICES ASSUME NEW uu \in Seq(Seq(S)), Len(uu) = n + 1 PROVE Right(uu)
    OBVIOUS
  <2>1. PICK tt \in Seq(Seq(S)), s \in Seq(S) : uu = Append(tt, s) /\ Len(tt) = n
    BY SplitLast
  <2>2. Right(tt)
    BY <2>1
  <2>3. FlattenSeq(uu) = FlattenSeq(tt) \o s /\ FlattenSeq(tt) \in Seq(S)
    BY <2>1, FlattenAppend
  <2>4. Range(FlattenSeq(uu)) = Range(FlattenSeq(tt)) \cup Range(s)
    BY <2>3, RangeOfConcatenation
  <2>5. DOMAIN uu = 1..(n + 1) /\ DOMAIN tt = 1..n /\ uu[n + 1] = s /\ \A k \in 1..n : uu[k] = tt[k]
    BY <2>1
  <2>6. (UNION {Range(uu[k]) : k \in 1..(n + 1)}) = (UNION {Range(tt[k]) : k \in 1..n}) \cup Range(s)
    <3>1. 1..(n + 1) = 1..n \cup {n + 1}
      OBVIOUS
    <3> QED BY <2>5, <3>1
  <2> QED BY <2>2, <2>4, <2>5, <2>6
<1>3. T = Nat
  <2>1. T \in SUBSET Nat
    OBVIOUS
  <2> HIDE DEF T
  <2> QED BY <1>1, <1>2, <2>1, SetInduction
<1>4. Len(ss) \in T
  <2>1. Len(ss) \in Nat
    OBVIOUS
  <2> HIDE DEF T
  <2> QED BY <1>3, <2>1
<1> QED BY <1>4

\* Sequences none of which is empty have at least as many elements as there
\* are of them, and exactly as many only if each has one.
LEMMA FlattenLength ==
  ASSUME NEW S, NEW ss \in Seq(Seq(S)), \A k \in DOMAIN ss : ss[k] # << >>
  PROVE  /\ Len(FlattenSeq(ss)) >= Len(ss)
         /\ Len(FlattenSeq(ss)) = Len(ss) <=> \A k \in DOMAIN ss : Len(ss[k]) = 1
<1> DEFINE Long(tt) == /\ Len(FlattenSeq(tt)) >= Len(tt)
                       /\ Len(FlattenSeq(tt)) = Len(tt) <=> \A k \in DOMAIN tt : Len(tt[k]) = 1
           Filled(tt) == \A k \in DOMAIN tt : tt[k] # << >>
           T == {n \in Nat : \A tt \in Seq(Seq(S)) : Len(tt) = n /\ Filled(tt) => Long(tt)}
<1>1. 0 \in T
  <2> SUFFICES ASSUME NEW tt \in Seq(Seq(S)), Len(tt) = 0 PROVE Long(tt)
    OBVIOUS
  <2>1. tt = << >>
    OBVIOUS
  <2> QED BY <2>1, FlattenEmpty
<1>2. ASSUME NEW n \in T PROVE n + 1 \in T
  <2> SUFFICES ASSUME NEW uu \in Seq(Seq(S)), Len(uu) = n + 1, Filled(uu) PROVE Long(uu)
    OBVIOUS
  <2>1. PICK tt \in Seq(Seq(S)), s \in Seq(S) : uu = Append(tt, s) /\ Len(tt) = n
    BY SplitLast
  <2>2. DOMAIN uu = 1..(n + 1) /\ DOMAIN tt = 1..n /\ uu[n + 1] = s /\ \A k \in 1..n : uu[k] = tt[k]
    BY <2>1
  <2>3. Long(tt) /\ s # << >>
    <3>1. \A k \in 1..(n + 1) : uu[k] # << >>
      BY <2>2
    <3>2. n + 1 \in 1..(n + 1) /\ \A k \in 1..n : k \in 1..(n + 1)
      OBVIOUS
    <3>3. Filled(tt) /\ s # << >>
      BY <2>2, <3>1, <3>2
    <3> HIDE DEF Long, Filled
    <3> QED BY <2>1, <3>3
  <2>4. FlattenSeq(uu) = FlattenSeq(tt) \o s /\ FlattenSeq(tt) \in Seq(S)
    BY <2>1, FlattenAppend
  <2>5. /\ Len(FlattenSeq(uu)) = Len(FlattenSeq(tt)) + Len(s)
        /\ Len(s) \in Nat /\ Len(s) >= 1 /\ Len(FlattenSeq(tt)) \in Nat
    BY <2>3, <2>4
  <2>6. (\A k \in DOMAIN uu : Len(uu[k]) = 1) <=> (\A k \in DOMAIN tt : Len(tt[k]) = 1) /\ Len(s) = 1
    <3>1. 1..(n + 1) = 1..n \cup {n + 1}
      OBVIOUS
    <3> QED BY <2>2, <3>1
  <2> DEFINE a == Len(FlattenSeq(tt))
             b == Len(FlattenSeq(uu))
  <2>7. a \in Nat /\ n \in Nat /\ a >= n /\ b = a + Len(s)
    BY <2>1, <2>3, <2>5
  <2>8. a = n <=> \A k \in DOMAIN tt : Len(tt[k]) = 1
    BY <2>1, <2>3
  <2>9. Len(s) \in Nat /\ Len(s) >= 1
    BY <2>5
  <2> HIDE DEF a, b
  <2>10. b >= n + 1 /\ (b = n + 1 <=> a = n /\ Len(s) = 1)
    <3>1. \A l \in Nat : l >= 1 => a + l >= n + 1 /\ (a + l = n + 1 <=> a = n /\ l = 1)
      BY <2>7
    <3> QED BY <2>7, <2>9, <3>1, Zenon
  <2> QED BY <2>6, <2>8, <2>10 DEF b
<1>3. T = Nat
  <2>1. T \in SUBSET Nat
    OBVIOUS
  <2> HIDE DEF T
  <2> QED BY <1>1, <1>2, <2>1, SetInduction
<1>4. Len(ss) \in T
  <2>1. Len(ss) \in Nat
    OBVIOUS
  <2> HIDE DEF T
  <2> QED BY <1>3, <2>1
<1> QED BY <1>4

\* Where each sequence has one element, that element keeps its place.
LEMMA FlattenSingles ==
  ASSUME NEW S, NEW ss \in Seq(Seq(S)), \A k \in DOMAIN ss : Len(ss[k]) = 1
  PROVE  /\ Len(FlattenSeq(ss)) = Len(ss)
         /\ \A k \in DOMAIN ss : FlattenSeq(ss)[k] = ss[k][1]
<1> DEFINE Single(tt) == \A k \in DOMAIN tt : Len(tt[k]) = 1
           Kept(tt) == /\ Len(FlattenSeq(tt)) = Len(tt)
                       /\ \A k \in DOMAIN tt : FlattenSeq(tt)[k] = tt[k][1]
           T == {n \in Nat : \A tt \in Seq(Seq(S)) : Len(tt) = n /\ Single(tt) => Kept(tt)}
<1>1. 0 \in T
  <2> SUFFICES ASSUME NEW tt \in Seq(Seq(S)), Len(tt) = 0 PROVE Kept(tt)
    OBVIOUS
  <2>1. tt = << >>
    OBVIOUS
  <2> QED BY <2>1, FlattenEmpty
<1>2. ASSUME NEW n \in T PROVE n + 1 \in T
  <2> SUFFICES ASSUME NEW uu \in Seq(Seq(S)), Len(uu) = n + 1, Single(uu) PROVE Kept(uu)
    OBVIOUS
  <2>1. PICK tt \in Seq(Seq(S)), s \in Seq(S) : uu = Append(tt, s) /\ Len(tt) = n
    BY SplitLast
  <2>2. DOMAIN uu = 1..(n + 1) /\ DOMAIN tt = 1..n /\ uu[n + 1] = s /\ \A k \in 1..n : uu[k] = tt[k]
    BY <2>1
  <2>3. Single(tt) /\ Len(s) = 1
    <3>1. \A k \in 1..(n + 1) : Len(uu[k]) = 1
      BY <2>2
    <3>2. n + 1 \in 1..(n + 1) /\ \A k \in 1..n : k \in 1..(n + 1)
      OBVIOUS
    <3> QED BY <2>2, <3>1, <3>2
  <2>4. Kept(tt)
    BY <2>1, <2>3
  <2>5. FlattenSeq(uu) = FlattenSeq(tt) \o s /\ FlattenSeq(tt) \in Seq(S)
    BY <2>1, FlattenAppend
  <2> DEFINE F == FlattenSeq(tt)
  <2>6. F \in Seq(S) /\ Len(F) = n /\ n \in Nat
    BY <2>1, <2>4, <2>5
  <2> HIDE DEF F
  <2>7. Len(F \o s) = n + 1 /\ (F \o s)[n + 1] = s[1] /\ \A k \in 1..n : (F \o s)[k] = F[k]
    <3>1. /\ Len(F \o s) = n + 1
          /\ \A k \in 1..(n + 1) : (F \o s)[k] = IF k <= n THEN F[k] ELSE s[k - n]
      <4>1. /\ Len(F \o s) = Len(F) + Len(s) /\ DOMAIN (F \o s) = 1..(Len(F) + Len(s))
            /\ \A k \in DOMAIN (F \o s) : (F \o s)[k] = IF k <= Len(F) THEN F[k] ELSE s[k - Len(F)]
        <5>1. F \in Seq(S) /\ s \in Seq(S)
          BY <2>1, <2>6
        <5> QED BY <5>1, ConcatenationAt
      <4> QED BY <2>3, <2>6, <4>1
    <3>2. n + 1 \in 1..(n + 1) /\ (n + 1) - n = 1 /\ ~(n + 1 <= n)
          /\ \A k \in 1..n : k <= n /\ k \in 1..(n + 1)
      BY <2>6
    <3> QED BY <3>1, <3>2
  <2>8. ASSUME NEW k \in 1..(n + 1) PROVE (F \o s)[k] = uu[k][1]
    <3>1. CASE k = n + 1
      BY <2>2, <2>7, <3>1
    <3>2. CASE k \in 1..n
      BY <2>2, <2>4, <2>7, <3>2 DEF F
    <3>3. k = n + 1 \/ k \in 1..n
      BY <2>6
    <3> QED BY <3>1, <3>2, <3>3
  <2> QED BY <2>2, <2>5, <2>7, <2>8 DEF F
<1>3. T = Nat
  <2>1. T \in SUBSET Nat
    OBVIOUS
  <2> HIDE DEF T
  <2> QED BY <1>1, <1>2, <2>1, SetInduction
<1>4. Len(ss) \in T
  <2>1. Len(ss) \in Nat
    OBVIOUS
  <2> HIDE DEF T
  <2> QED BY <1>3, <2>1
<1> QED BY <1>4

-----------------------------------------------------------------------------
\* What is reached from S by edges f between the nodes in n steps.
Layers(S, f, nodes) ==
  CHOOSE w : w = [n \in 0 .. Cardinality(nodes) |->
                    IF n = 0 THEN S ELSE w[n - 1] \cup UNION {f[x] : x \in w[n - 1] \cap nodes}]

ClosedUnder(T, f, nodes) == \A x \in T \cap nodes : f[x] \subseteq T

LEMMA LayersExist ==
  ASSUME NEW S, NEW f, NEW nodes, IsFiniteSet(nodes)
  PROVE  Layers(S, f, nodes) =
           [n \in 0 .. Cardinality(nodes) |->
              IF n = 0 THEN S
              ELSE Layers(S, f, nodes)[n - 1]
                     \cup UNION {f[x] : x \in Layers(S, f, nodes)[n - 1] \cap nodes}]
<1> DEFINE Grown(T) == T \cup UNION {f[x] : x \in T \cap nodes}
           Upto(w, m) == w = [n \in 0 .. m |-> IF n = 0 THEN S ELSE Grown(w[n - 1])]
           M == {m \in Nat : \E w : Upto(w, m)}
<1>1. 0 \in M
  <2> DEFINE w == [n \in 0 .. 0 |-> S]
  <2>1. w = [n \in 0 .. 0 |-> IF n = 0 THEN S ELSE Grown(w[n - 1])]
    OBVIOUS
  <2> HIDE DEF w, Grown
  <2> QED BY <2>1
<1>2. ASSUME NEW m \in M PROVE m + 1 \in M
  <2>1. PICK w : Upto(w, m)
    OBVIOUS
  <2> HIDE DEF Grown
  <2> DEFINE v == [n \in 0 .. (m + 1) |-> IF n = m + 1 THEN Grown(w[n - 1]) ELSE w[n]]
  <2>2. m \in Nat /\ \A n \in 0 .. (m + 1) : n # 0 => n - 1 \in 0 .. m /\ v[n - 1] = w[n - 1]
    OBVIOUS
  <2>3. ASSUME NEW n \in 0 .. (m + 1)
        PROVE  v[n] = IF n = 0 THEN S ELSE Grown(v[n - 1])
    <3>1. CASE n = m + 1
      <4>1. n # 0 /\ v[n] = Grown(w[n - 1])
        BY <2>2, <3>1
      <4> QED BY <2>2, <4>1
    <3>2. CASE n \in 0 .. m
      <4>1. w[n] = IF n = 0 THEN S ELSE Grown(w[n - 1])
        BY <2>1, <3>2
      <4>2. v[n] = w[n] /\ (n # 0 => v[n - 1] = w[n - 1])
        BY <2>2, <3>2
      <4> QED BY <4>1, <4>2
    <3> QED BY <2>2, <3>1, <3>2
  <2>4. Upto(v, m + 1)
    BY <2>3
  <2>5. m + 1 \in Nat
    OBVIOUS
  <2> HIDE DEF Upto, v
  <2> QED BY <2>4, <2>5
<1>3. M = Nat
  <2> HIDE DEF M
  <2>1. M \in SUBSET Nat
    BY DEF M
  <2> QED BY <1>1, <1>2, <2>1, SetInduction
<1>4. \E w : Upto(w, Cardinality(nodes))
  <2>1. Cardinality(nodes) \in Nat
    BY FS_CardinalityType
  <2> QED BY <1>3, <2>1
<1> QED BY <1>4 DEF Layers

\* What is reached is the least set that has S and is closed.
LEMMA LayersAreLeast ==
  ASSUME NEW S, NEW f, NEW nodes, IsFiniteSet(nodes)
  PROVE  LET reached == Layers(S, f, nodes)[Cardinality(nodes)] IN
         /\ S \subseteq reached
         /\ ClosedUnder(reached, f, nodes)
         /\ \A T : S \subseteq T /\ ClosedUnder(T, f, nodes) => reached \subseteq T
<1> DEFINE N == Cardinality(nodes)
           W == Layers(S, f, nodes)
<1>1. N \in Nat
  BY FS_CardinalityType
<1>3. /\ W[0] = S
      /\ \A n \in 0 .. N : n # 0 => W[n] = W[n - 1] \cup UNION {f[x] : x \in W[n - 1] \cap nodes}
  <2>1. W = [n \in 0 .. N |->
               IF n = 0 THEN S ELSE W[n - 1] \cup UNION {f[x] : x \in W[n - 1] \cap nodes}]
    BY LayersExist
  <2> HIDE DEF W
  <2>2. \A n \in 0 .. N : W[n] =
          IF n = 0 THEN S ELSE W[n - 1] \cup UNION {f[x] : x \in W[n - 1] \cap nodes}
    BY <2>1
  <2>3. 0 \in 0 .. N
    BY <1>1
  <2> QED BY <2>2, <2>3
<1> HIDE DEF N, W
<1>4. \A n \in Nat : n + 1 <= N => W[n + 1] = W[n] \cup UNION {f[x] : x \in W[n] \cap nodes}
  <2> SUFFICES ASSUME NEW n \in Nat, n + 1 <= N
               PROVE  W[n + 1] = W[n] \cup UNION {f[x] : x \in W[n] \cap nodes}
    OBVIOUS
  <2>1. n + 1 \in 0 .. N /\ n + 1 # 0 /\ (n + 1) - 1 = n
    BY <1>1
  <2> QED BY <1>3, <2>1
<1>5. ASSUME NEW T, S \subseteq T, ClosedUnder(T, f, nodes) PROVE W[N] \subseteq T
  <2> DEFINE M == {n \in Nat : n <= N => W[n] \subseteq T}
  <2>1. 0 \in M
    BY <1>3, <1>5
  <2>2. ASSUME NEW n \in M PROVE n + 1 \in M
    <3>1. n \in Nat /\ n + 1 \in Nat
      OBVIOUS
    <3>2. ASSUME n + 1 <= N PROVE W[n + 1] \subseteq T
      <4>1. n <= N
        BY <1>1, <3>1, <3>2
      <4>2. W[n] \subseteq T
        BY <4>1
      <4>3. W[n + 1] = W[n] \cup UNION {f[x] : x \in W[n] \cap nodes}
        BY <1>4, <3>1, <3>2
      <4> QED BY <1>5, <4>2, <4>3 DEF ClosedUnder
    <3> QED BY <3>1, <3>2
  <2>3. M = Nat
    <3> HIDE DEF M
    <3>1. M \in SUBSET Nat
      BY DEF M
    <3> QED BY <2>1, <2>2, <3>1, SetInduction
  <2>4. N \in M
    BY <1>1, <2>3
  <2> QED BY <1>1, <2>4
<1>6. S \subseteq W[N]
  <2> DEFINE M == {n \in Nat : n <= N => S \subseteq W[n]}
  <2>1. 0 \in M
    BY <1>3
  <2>2. ASSUME NEW n \in M PROVE n + 1 \in M
    <3>1. n \in Nat /\ n + 1 \in Nat
      OBVIOUS
    <3>2. ASSUME n + 1 <= N PROVE S \subseteq W[n + 1]
      <4>1. n <= N
        BY <1>1, <3>1, <3>2
      <4>2. S \subseteq W[n]
        BY <4>1
      <4>3. W[n + 1] = W[n] \cup UNION {f[x] : x \in W[n] \cap nodes}
        BY <1>4, <3>1, <3>2
      <4> QED BY <4>2, <4>3
    <3> QED BY <3>1, <3>2
  <2>3. M = Nat
    <3> HIDE DEF M
    <3>1. M \in SUBSET Nat
      BY DEF M
    <3> QED BY <2>1, <2>2, <3>1, SetInduction
  <2>4. N \in M
    BY <1>1, <2>3
  <2> QED BY <1>1, <2>4
<1>7. ClosedUnder(W[N], f, nodes)
  <2> DEFINE A(n) == W[n] \cap nodes
             M == {n \in Nat : n <= N => ClosedUnder(W[n], f, nodes) \/ Cardinality(A(n)) >= n + 1}
  <2>0. \A n \in Nat : IsFiniteSet(A(n)) /\ Cardinality(A(n)) \in Nat /\ Cardinality(A(n)) <= N
    <3> SUFFICES ASSUME NEW n \in Nat
                 PROVE  IsFiniteSet(A(n)) /\ Cardinality(A(n)) \in Nat /\ Cardinality(A(n)) <= N
      OBVIOUS
    <3>1. A(n) \in SUBSET nodes
      OBVIOUS
    <3> HIDE DEF A
    <3> QED BY <3>1, FS_Subset, FS_CardinalityType DEF N
  <2>1. 0 \in M
    <3>1. CASE A(0) = {}
      BY <3>1 DEF ClosedUnder
    <3>2. CASE A(0) # {}
      <4>1. Cardinality(A(0)) # 0
        BY <2>0, <3>2, FS_EmptySet
      <4>2. Cardinality(A(0)) >= 0 + 1
        BY <2>0, <4>1
      <4> QED BY <4>2
    <3> QED BY <3>1, <3>2
  <2>2. ASSUME NEW n \in M PROVE n + 1 \in M
    <3>1. n \in Nat /\ n + 1 \in Nat
      OBVIOUS
    <3>2. ASSUME n + 1 <= N
          PROVE  ClosedUnder(W[n + 1], f, nodes) \/ Cardinality(A(n + 1)) >= (n + 1) + 1
      <4>1. n <= N
        BY <1>1, <3>1, <3>2
      <4>2. W[n + 1] = W[n] \cup UNION {f[x] : x \in W[n] \cap nodes}
        BY <1>4, <3>1, <3>2
      <4>3. CASE ClosedUnder(W[n], f, nodes)
        <5>1. W[n + 1] = W[n]
          BY <4>2, <4>3 DEF ClosedUnder
        <5> QED BY <4>3, <5>1
      <4>4. CASE A(n + 1) = A(n)
        <5>1. ASSUME NEW x \in W[n + 1] \cap nodes PROVE f[x] \subseteq W[n + 1]
          <6>1. x \in W[n] \cap nodes
            BY <4>4, <5>1
          <6> QED BY <4>2, <6>1
        <5> QED BY <5>1 DEF ClosedUnder
      <4>5. CASE A(n + 1) # A(n) /\ Cardinality(A(n)) >= n + 1
        <5>1. A(n) \in SUBSET A(n + 1) /\ A(n) # A(n + 1)
          BY <4>2, <4>5
        <5>2. IsFiniteSet(A(n + 1))
          BY <2>0, <3>1
        <5>3. Cardinality(A(n)) < Cardinality(A(n + 1))
          <6> HIDE DEF A
          <6>1. Cardinality(A(n)) <= Cardinality(A(n + 1))
                /\ Cardinality(A(n)) # Cardinality(A(n + 1))
            BY <5>1, <5>2, FS_Subset
          <6> QED BY <2>0, <3>1, <6>1
        <5>4. Cardinality(A(n)) \in Nat /\ Cardinality(A(n + 1)) \in Nat
          BY <2>0, <3>1
        <5>5. Cardinality(A(n + 1)) >= (n + 1) + 1
          <6> HIDE DEF A
          <6> QED BY <3>1, <4>5, <5>3, <5>4
        <5> QED BY <5>5
      <4> QED BY <4>1, <4>3, <4>4, <4>5
    <3> QED BY <3>1, <3>2
  <2>3. M = Nat
    <3> HIDE DEF M
    <3>1. M \in SUBSET Nat
      BY DEF M
    <3> QED BY <2>1, <2>2, <3>1, SetInduction
  <2>4. ClosedUnder(W[N], f, nodes) \/ Cardinality(A(N)) >= N + 1
    <3>1. N \in M
      BY <1>1, <2>3
    <3>2. N <= N
      BY <1>1
    <3> QED BY <3>1, <3>2
  <2>5. ~(Cardinality(A(N)) >= N + 1)
    <3> HIDE DEF A, M
    <3> QED BY <1>1, <2>0
  <2> QED BY <2>4, <2>5
<1> QED BY <1>5, <1>6, <1>7 DEF N, W
===============================================================================
