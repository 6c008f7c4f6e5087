-------------------------- MODULE EvidenceTraceProofs --------------------------
(***************************************************************************)
(* What parse_trace makes of a file is what the machine did, for every     *)
(* sequence of instructions, loads and stores and every place at which the *)
(* file may end.                                                           *)
(*                                                                         *)
(* A line is the off-th of the own-th instruction: first what execute()    *)
(* writes, then the loads and stores.                                      *)
(***************************************************************************)
EXTENDS EvidenceTrace, SequenceLemmas

Named == Nat \cup Addresses
LineType == [kind : {"E", "W", "B", "R", "O", "L", "S"}, pc : Pcs, what : Named, ok : BOOLEAN]
Access == {"L", "S"} \X Addresses

One(c) == IF c THEN 1 ELSE 0

\* Where the lines of execute() stand.
AtB(pc) == 2 + One(pc = WindowPc)
AtR(pc) == AtB(pc) + One(pc = WritePc)
AtO(pc) == AtR(pc) + One(Wants(pc))
HeadSize(pc) == AtO(pc) + One(pc = TerminalPc) - 1

KindAt(pc, j) ==
  IF j = 1 THEN "E" ELSE IF j < AtB(pc) THEN "W" ELSE IF j < AtR(pc) THEN "B"
  ELSE IF j < AtO(pc) THEN "R" ELSE "O"

Heading(k) == HeadSize(run[k].pc)
Size(k) == IF k = 0 THEN 0 ELSE Heading(k) + Len(run[k].accesses)

KindOf(k, j) == IF j <= Heading(k) THEN KindAt(run[k].pc, j) ELSE run[k].accesses[j - Heading(k)][1]
WhatOf(k, j) == IF j <= Heading(k) THEN k ELSE run[k].accesses[j - Heading(k)][2]

\* The j-th line of instruction k, and what may be left of it at the end of a
\* file that is cut.
Is(line, k, j) ==
  /\ line.kind = KindOf(k, j) /\ line.pc = run[k].pc /\ line.what = WhatOf(k, j)
  /\ line.ok \/ line.kind \in {"W", "B"}

Broken(line, k, j) ==
  /\ line.kind = KindOf(k, j)
  /\ line.kind = "E" \/ ~line.ok \/ line.pc = run[k].pc

NextLine(k, j, k2, j2) ==
  IF j < Size(k) THEN k2 = k /\ j2 = j + 1 ELSE k2 = k + 1 /\ j2 = 1

\* The lines that are left follow upon the last one that was parsed; the file
\* is complete unless it is cut.
Path(own, off) ==
  /\ own \in [0 .. Len(trace) -> 0 .. Len(run)] /\ off \in [0 .. Len(trace) -> Nat]
  /\ own[0] = Len(executions)
  /\ \A i \in 0 .. Len(trace) :
       IF own[i] = 0 THEN off[i] = 0 ELSE off[i] \in 1 .. Size(own[i])
  /\ \A i \in 1 .. Len(trace) :
       /\ NextLine(own[i - 1], off[i - 1], own[i], off[i])
       /\ \/ Is(trace[i], own[i], off[i])
          \/ qemu = "cut" /\ i = Len(trace) /\ Broken(trace[i], own[i], off[i])
  /\ qemu # "cut" => own[Len(trace)] = Len(run) /\ off[Len(trace)] = Size(Len(run))

\* What is known of the instruction under way when j lines of it are parsed.
SoFar(k, j) ==
  IF k = 0 THEN outputs = <<>>
  ELSE /\ executions[k].pc = run[k].pc
       /\ executions[k].snapshot = When(run[k].snapshot /\ AtR(run[k].pc) <= j, <<k>>)
       /\ executions[k].writes = When(run[k].write /\ AtB(run[k].pc) <= j, <<k>>)
       /\ Len(AccessesOf(k)) = IF j <= Heading(k) THEN 0 ELSE j - Heading(k)
       /\ \A a \in 1 .. Len(AccessesOf(k)) : AccessesOf(k)[a] = run[k].accesses[a]
       /\ outputs = When(run[k].pc = TerminalPc /\ AtO(run[k].pc) <= j, <<k>>)

TraceTypeOK ==
  /\ run \in Seq([pc : Pcs, snapshot : BOOLEAN, write : BOOLEAN, accesses : Seq(Access)])
  /\ qemu \in {"running", "ended", "cut"}
  /\ trace \in Seq(LineType)
  /\ verdict \in {"waiting", "parsing", "parsed", "malformed"}
  /\ executions \in Seq([pc : Pcs, snapshot : Seq(Named), writes : Seq(Named)])
  /\ accesses \in Seq([kind : {"L", "S"}, address : Named, owner : Nat])

\* The terminal instruction is the last.
Marked ==
  /\ \A k \in DOMAIN run :
       /\ run[k].snapshot <=> Wants(run[k].pc)
       /\ run[k].write <=> run[k].pc = WritePc
       /\ run[k].pc = TerminalPc => k = Len(run) /\ qemu # "running"
  /\ qemu = "ended" => Len(run) > 0 /\ run[Len(run)].pc = TerminalPc

Told ==
  /\ \A i \in 1 .. Len(executions) - 1 : Faithful(i)
  /\ outputs # <<>> => Len(executions) = Len(run)
  /\ \A n \in DOMAIN accesses : accesses[n].owner \in 1 .. Len(executions)

Staged ==
  /\ qemu = "running" => verdict = "waiting"
  /\ verdict = "waiting" => executions = <<>> /\ accesses = <<>> /\ outputs = <<>>
  /\ verdict = "parsed" => trace = <<>>
  /\ verdict = "malformed" => ~trace[1].ok

OnPath ==
  \E own, off : Path(own, off) /\ (trace # <<>> \/ qemu # "cut" => SoFar(own[0], off[0]))

TraceInv == TraceTypeOK /\ Marked /\ Told /\ Staged /\ OnPath

-------------------------------------------------------------------------------
(* The lines of execute().                                                   *)

LEMMA Places ==
  ASSUME NEW pc
  PROVE  /\ AtB(pc) \in Nat /\ AtR(pc) \in Nat /\ AtO(pc) \in Nat /\ HeadSize(pc) \in Nat
         /\ 2 <= AtB(pc) /\ AtB(pc) <= AtR(pc) /\ AtR(pc) <= AtO(pc) /\ AtO(pc) <= HeadSize(pc) + 1
         /\ pc = WritePc => AtR(pc) = AtB(pc) + 1
         /\ pc # WritePc => AtR(pc) = AtB(pc)
         /\ Wants(pc) => AtO(pc) = AtR(pc) + 1
         /\ ~Wants(pc) => AtO(pc) = AtR(pc)
         /\ pc = TerminalPc => HeadSize(pc) = AtO(pc)
         /\ pc # TerminalPc => HeadSize(pc) = AtO(pc) - 1
         /\ pc = WindowPc => AtB(pc) = 3
         /\ pc # WindowPc => AtB(pc) = 2
BY DEF AtB, AtR, AtO, HeadSize, One

LEMMA WhenAppended ==
  ASSUME NEW S, NEW s \in Seq(S), NEW c \in BOOLEAN, NEW e \in S
  PROVE  LET t == s \o When(c, <<e>>) IN
         /\ t \in Seq(S) /\ Len(t) = Len(s) + One(c)
         /\ \A j \in 1 .. Len(s) : t[j] = s[j]
         /\ c => t[Len(s) + 1] = e
<1>1. CASE c
  BY <1>1 DEF When, One
<1>2. CASE ~c
  BY <1>2 DEF When, One
<1> QED
  BY <1>1, <1>2

Header(pc, k, readable) ==
  Lines(pc, k, readable) \o When(pc = TerminalPc, <<Line("O", pc, k, TRUE)>>)

LEMMA HeaderLines ==
  ASSUME NEW pc \in Pcs, NEW k \in Nat, NEW readable \in BOOLEAN
  PROVE  /\ Lines(pc, k, readable) \in Seq(LineType)
         /\ Header(pc, k, readable) \in Seq(LineType)
         /\ Len(Header(pc, k, readable)) = HeadSize(pc)
         /\ \A j \in 1 .. HeadSize(pc) :
              LET line == Header(pc, k, readable)[j] IN
              /\ line.kind = KindAt(pc, j) /\ line.pc = pc /\ line.what = k
              /\ line.ok \/ line.kind \in {"W", "B"}
<1> DEFINE e == Line("E", pc, k, TRUE)
           w == Line("W", pc, k, readable)
           b == Line("B", pc, k, readable)
           r == Line("R", pc, k, TRUE)
           o == Line("O", pc, k, TRUE)
           s1 == <<e>>
           s2 == s1 \o When(pc = WindowPc, <<w>>)
           s3 == s2 \o When(pc = WritePc, <<b>>)
           s4 == s3 \o When(Wants(pc), <<r>>)
           s5 == s4 \o When(pc = TerminalPc, <<o>>)
           Good(line, j) == /\ line.kind = KindAt(pc, j) /\ line.pc = pc /\ line.what = k
                            /\ line.ok \/ line.kind \in {"W", "B"}
<1>1. /\ e \in LineType /\ w \in LineType /\ b \in LineType /\ r \in LineType /\ o \in LineType
      /\ Wants(pc) \in BOOLEAN
  BY DEF Line, LineType, Named, Wants
<1>2. /\ e.kind = "E" /\ e.pc = pc /\ e.what = k /\ e.ok
      /\ w.kind = "W" /\ w.pc = pc /\ w.what = k
      /\ b.kind = "B" /\ b.pc = pc /\ b.what = k
      /\ r.kind = "R" /\ r.pc = pc /\ r.what = k /\ r.ok
      /\ o.kind = "O" /\ o.pc = pc /\ o.what = k /\ o.ok
  BY DEF Line
<1>4. Lines(pc, k, readable) = s4 /\ Header(pc, k, readable) = s5
  BY DEF Lines, Header
<1> HIDE DEF e, w, b, r, o
<1>3. s1 \in Seq(LineType) /\ Len(s1) = 1 /\ s1[1] = e
  BY <1>1
<1> HIDE DEF s1
<1>0. \A s \in Seq(LineType), c \in BOOLEAN, x \in LineType :
        LET t == s \o When(c, <<x>>) IN
        /\ t \in Seq(LineType) /\ Len(t) = Len(s) + One(c)
        /\ \A j \in 1 .. Len(s) : t[j] = s[j]
        /\ c => t[Len(s) + 1] = x
  BY WhenAppended, Zenon
<1>15. /\ AtB(pc) \in Nat /\ AtR(pc) \in Nat /\ AtO(pc) \in Nat /\ HeadSize(pc) \in Nat
       /\ 2 <= AtB(pc) /\ AtB(pc) <= AtR(pc) /\ AtR(pc) <= AtO(pc) /\ AtO(pc) <= HeadSize(pc) + 1
  BY Places
<1>16. AtR(pc) = IF pc = WritePc THEN AtB(pc) + 1 ELSE AtB(pc)
  BY Places
<1>17. AtO(pc) = IF Wants(pc) THEN AtR(pc) + 1 ELSE AtR(pc)
  BY Places
<1>18. HeadSize(pc) = IF pc = TerminalPc THEN AtO(pc) ELSE AtO(pc) - 1
  BY Places
<1>19. AtB(pc) = IF pc = WindowPc THEN 3 ELSE 2
  BY Places
<1>5. /\ s2 \in Seq(LineType) /\ Len(s2) = Len(s1) + One(pc = WindowPc)
      /\ \A j \in 1 .. Len(s1) : s2[j] = s1[j]
      /\ pc = WindowPc => s2[Len(s1) + 1] = w
  BY <1>0, <1>1, <1>3
<1> HIDE DEF s2
<1>6. /\ s3 \in Seq(LineType) /\ Len(s3) = Len(s2) + One(pc = WritePc)
      /\ \A j \in 1 .. Len(s2) : s3[j] = s2[j]
      /\ pc = WritePc => s3[Len(s2) + 1] = b
  BY <1>0, <1>1, <1>5
<1> HIDE DEF s3
<1>7. /\ s4 \in Seq(LineType) /\ Len(s4) = Len(s3) + One(Wants(pc))
      /\ \A j \in 1 .. Len(s3) : s4[j] = s3[j]
      /\ Wants(pc) => s4[Len(s3) + 1] = r
  BY <1>0, <1>1, <1>6
<1> HIDE DEF s4
<1>8. /\ s5 \in Seq(LineType) /\ Len(s5) = Len(s4) + One(pc = TerminalPc)
      /\ \A j \in 1 .. Len(s4) : s5[j] = s4[j]
      /\ pc = TerminalPc => s5[Len(s4) + 1] = o
  BY <1>0, <1>1, <1>7
<1> HIDE DEF s5
<1>9. /\ Len(s2) = AtB(pc) - 1 /\ Len(s3) = AtR(pc) - 1 /\ Len(s4) = AtO(pc) - 1
      /\ Len(s5) = HeadSize(pc)
  BY <1>3, <1>5, <1>6, <1>7, <1>8, <1>15 DEF AtB, AtR, AtO, HeadSize, One
<1>10. Good(s1[1], 1)
  BY <1>2, <1>3 DEF KindAt
<1>11. \A j \in 1 .. AtB(pc) - 1 : Good(s2[j], j)
  <2> SUFFICES ASSUME NEW j \in 1 .. AtB(pc) - 1 PROVE Good(s2[j], j)
    OBVIOUS
  <2>1. CASE j = 1
    BY <1>3, <1>5, <1>10, <2>1
  <2>2. CASE j # 1
    <3>1. pc = WindowPc /\ j = 2 /\ Len(s1) + 1 = 2 /\ j < AtB(pc)
      BY <1>3, <1>19, <2>2
    <3> QED
      BY <1>2, <1>5, <3>1 DEF KindAt
  <2> QED
    BY <2>1, <2>2
<1>12. \A j \in 1 .. AtR(pc) - 1 : Good(s3[j], j)
  <2> SUFFICES ASSUME NEW j \in 1 .. AtR(pc) - 1 PROVE Good(s3[j], j)
    OBVIOUS
  <2>1. CASE j <= AtB(pc) - 1
    <3>1. j \in 1 .. AtB(pc) - 1 /\ s3[j] = s2[j]
      BY <1>6, <1>9, <2>1, Places
    <3> QED
      BY <1>11, <3>1
  <2>2. CASE ~(j <= AtB(pc) - 1)
    <3>0. /\ j \in Int /\ AtB(pc) <= j /\ j <= AtR(pc) - 1
          /\ AtB(pc) \in Int /\ AtR(pc) \in Int
      BY <1>15, <2>2
    <3>1. pc = WritePc /\ j = AtB(pc) /\ AtB(pc) = Len(s2) + 1 /\ j < AtR(pc) /\ ~(j < AtB(pc)) /\ j # 1
      BY <1>9, <1>15, <1>16, <3>0
    <3> QED
      BY <1>2, <1>6, <3>1 DEF KindAt
  <2> QED
    BY <2>1, <2>2
<1>13. \A j \in 1 .. AtO(pc) - 1 : Good(s4[j], j)
  <2> SUFFICES ASSUME NEW j \in 1 .. AtO(pc) - 1 PROVE Good(s4[j], j)
    OBVIOUS
  <2>1. CASE j <= AtR(pc) - 1
    <3>1. j \in 1 .. AtR(pc) - 1 /\ s4[j] = s3[j]
      BY <1>7, <1>9, <2>1, Places
    <3> QED
      BY <1>12, <3>1
  <2>2. CASE ~(j <= AtR(pc) - 1)
    <3>0. /\ j \in Int /\ AtR(pc) <= j /\ j <= AtO(pc) - 1
          /\ AtR(pc) \in Int /\ AtO(pc) \in Int
      BY <1>15, <2>2
    <3>1. Wants(pc) /\ j = AtR(pc) /\ AtR(pc) = Len(s3) + 1 /\ j < AtO(pc) /\ ~(j < AtB(pc)) /\ ~(j < AtR(pc))
          /\ j # 1
      BY <1>9, <1>15, <1>17, <3>0
    <3> QED
      BY <1>2, <1>7, <3>1 DEF KindAt
  <2> QED
    BY <2>1, <2>2
<1>14. \A j \in 1 .. HeadSize(pc) : Good(s5[j], j)
  <2> SUFFICES ASSUME NEW j \in 1 .. HeadSize(pc) PROVE Good(s5[j], j)
    OBVIOUS
  <2>1. CASE j <= AtO(pc) - 1
    <3>1. j \in 1 .. AtO(pc) - 1 /\ s5[j] = s4[j]
      BY <1>8, <1>9, <2>1, Places
    <3> QED
      BY <1>13, <3>1
  <2>2. CASE ~(j <= AtO(pc) - 1)
    <3>0. /\ j \in Int /\ AtO(pc) <= j /\ j <= HeadSize(pc)
          /\ AtO(pc) \in Int /\ HeadSize(pc) \in Int
      BY <1>15, <2>2
    <3>1. pc = TerminalPc /\ j = AtO(pc) /\ AtO(pc) = Len(s4) + 1 /\ ~(j < AtB(pc)) /\ ~(j < AtR(pc)) /\ ~(j < AtO(pc))
          /\ j # 1
      BY <1>9, <1>15, <1>18, <3>0
    <3> QED
      BY <1>2, <1>8, <3>1 DEF KindAt
  <2> QED
    BY <2>1, <2>2
<1> QED
  BY <1>4, <1>7, <1>8, <1>9, <1>14
\* The numbers alone.
LEMMA PlaceNumbers ==
  ASSUME NEW pc
  PROVE  /\ AtB(pc) \in Nat /\ AtR(pc) \in Nat /\ AtO(pc) \in Nat /\ HeadSize(pc) \in Nat
         /\ 2 <= AtB(pc) /\ AtB(pc) <= AtR(pc) /\ AtR(pc) <= AtO(pc)
         /\ AtO(pc) <= HeadSize(pc) + 1 /\ 1 <= HeadSize(pc)
BY Places

LEMMA PlaceKinds ==
  ASSUME NEW pc
  PROVE  /\ AtR(pc) = IF pc = WritePc THEN AtB(pc) + 1 ELSE AtB(pc)
         /\ AtO(pc) = IF Wants(pc) THEN AtR(pc) + 1 ELSE AtR(pc)
         /\ HeadSize(pc) = IF pc = TerminalPc THEN AtO(pc) ELSE AtO(pc) - 1
BY Places

LEMMA SizeIs ==
  ASSUME TraceTypeOK, NEW k \in DOMAIN run
  PROVE  /\ k \in Nat /\ k # 0 /\ DOMAIN run = 1 .. Len(run) /\ Len(run) \in Nat
         /\ run[k].pc \in Pcs /\ run[k].accesses \in Seq(Access)
         /\ Heading(k) \in Nat /\ 1 <= Heading(k) /\ Heading(k) = HeadSize(run[k].pc)
         /\ Len(run[k].accesses) \in Nat
         /\ Size(k) \in Nat /\ Size(k) = Heading(k) + Len(run[k].accesses)
<1>1. DOMAIN run = 1 .. Len(run) /\ Len(run) \in Nat
  BY DEF TraceTypeOK
<1>2. run[k].pc \in Pcs /\ run[k].accesses \in Seq(Access)
  <2>1. run[k] \in [pc : Pcs, snapshot : BOOLEAN, write : BOOLEAN, accesses : Seq(Access)]
    BY <1>1, ElementOfSeq DEF TraceTypeOK
  <2> QED
    BY <2>1
<1>3. Heading(k) \in Nat /\ 1 <= Heading(k) /\ Heading(k) = HeadSize(run[k].pc)
  BY PlaceNumbers DEF Heading
<1>4. Len(run[k].accesses) \in Nat
  BY <1>2
<1>5. k \in Nat /\ k # 0
  BY <1>1
<1>6. Size(k) = Heading(k) + Len(run[k].accesses)
  BY <1>5 DEF Size
<1> QED
  BY <1>1, <1>2, <1>3, <1>4, <1>5, <1>6

LEMMA KindBetween ==
  ASSUME NEW j \in Int, NEW b \in Int, NEW r \in Int, NEW o \in Int,
         1 <= j, 2 <= b, b <= r, r <= o
  PROVE  LET kind == IF j = 1 THEN "E" ELSE IF j < b THEN "W" ELSE IF j < r THEN "B"
                     ELSE IF j < o THEN "R" ELSE "O" IN
         /\ kind = "E" <=> j = 1
         /\ kind = "B" <=> b <= j /\ j < r
         /\ kind = "R" <=> r <= j /\ j < o
         /\ kind = "O" <=> o <= j
         /\ kind \in {"E", "W", "B", "R", "O"}
<1>1. CASE j = 1
  BY <1>1
<1>2. CASE j # 1 /\ j < b
  BY <1>2
<1>3. CASE b <= j /\ j < r
  BY <1>3
<1>4. CASE r <= j /\ j < o
  BY <1>4
<1>5. CASE o <= j
  BY <1>5
<1> QED
  BY <1>1, <1>2, <1>3, <1>4, <1>5

\* Which line is of which kind.
LEMMA KindIs ==
  ASSUME TraceTypeOK, NEW k \in DOMAIN run, NEW j \in 1 .. Size(k)
  PROVE  /\ KindOf(k, j) = "E" <=> j = 1
         /\ KindOf(k, j) = "B" <=> run[k].pc = WritePc /\ j = AtB(run[k].pc)
         /\ KindOf(k, j) = "R" <=> Wants(run[k].pc) /\ j = AtR(run[k].pc)
         /\ KindOf(k, j) = "O" <=> run[k].pc = TerminalPc /\ j = AtO(run[k].pc)
         /\ KindOf(k, j) \in {"L", "S"} <=> Heading(k) < j
<1> DEFINE pc == run[k].pc
<1>1. /\ AtB(pc) \in Nat /\ AtR(pc) \in Nat /\ AtO(pc) \in Nat /\ HeadSize(pc) \in Nat
      /\ 2 <= AtB(pc) /\ AtB(pc) <= AtR(pc) /\ AtR(pc) <= AtO(pc)
      /\ AtO(pc) <= HeadSize(pc) + 1 /\ 1 <= HeadSize(pc)
  BY PlaceNumbers
<1>2. /\ AtR(pc) = IF pc = WritePc THEN AtB(pc) + 1 ELSE AtB(pc)
      /\ AtO(pc) = IF Wants(pc) THEN AtR(pc) + 1 ELSE AtR(pc)
      /\ HeadSize(pc) + 1 = IF pc = TerminalPc THEN AtO(pc) + 1 ELSE AtO(pc)
  <2>1. HeadSize(pc) = IF pc = TerminalPc THEN AtO(pc) ELSE AtO(pc) - 1
    BY PlaceKinds
  <2>2. HeadSize(pc) + 1 = IF pc = TerminalPc THEN AtO(pc) + 1 ELSE AtO(pc)
    BY <1>1, <2>1
  <2> QED
    BY <2>2, PlaceKinds
<1>3. /\ Heading(k) = HeadSize(pc) /\ Size(k) = Heading(k) + Len(run[k].accesses)
      /\ run[k].accesses \in Seq(Access) /\ Len(run[k].accesses) \in Nat
      /\ j \in Int /\ 1 <= j /\ j <= Size(k) /\ Size(k) \in Nat
  BY SizeIs
<1>4. /\ AtB(pc) <= j /\ j < AtR(pc) <=> pc = WritePc /\ j = AtB(pc)
      /\ AtR(pc) <= j /\ j < AtO(pc) <=> Wants(pc) /\ j = AtR(pc)
      /\ AtO(pc) <= j /\ j < HeadSize(pc) + 1 <=> pc = TerminalPc /\ j = AtO(pc)
  <2>1. AtB(pc) <= j /\ j < AtR(pc) <=> pc = WritePc /\ j = AtB(pc)
    <3>1. CASE pc = WritePc
      <4>1. AtR(pc) = AtB(pc) + 1
        BY <1>2, <3>1
      <4>2. AtB(pc) <= j /\ j < AtR(pc) <=> j = AtB(pc)
        BY <1>1, <1>3, <4>1
      <4> QED
        BY <3>1, <4>2
    <3>2. CASE ~(pc = WritePc)
      <4>1. AtR(pc) = AtB(pc)
        BY <1>2, <3>2
      <4>2. ~(AtB(pc) <= j /\ j < AtR(pc))
        BY <1>1, <1>3, <4>1
      <4> QED
        BY <3>2, <4>2
    <3> QED
      BY <3>1, <3>2
  <2>2. AtR(pc) <= j /\ j < AtO(pc) <=> Wants(pc) /\ j = AtR(pc)
    <3>1. CASE Wants(pc)
      <4>1. AtO(pc) = AtR(pc) + 1
        BY <1>2, <3>1
      <4>2. AtR(pc) <= j /\ j < AtO(pc) <=> j = AtR(pc)
        BY <1>1, <1>3, <4>1
      <4> QED
        BY <3>1, <4>2
    <3>2. CASE ~(Wants(pc))
      <4>1. AtO(pc) = AtR(pc)
        BY <1>2, <3>2
      <4>2. ~(AtR(pc) <= j /\ j < AtO(pc))
        BY <1>1, <1>3, <4>1
      <4> QED
        BY <3>2, <4>2
    <3> QED
      BY <3>1, <3>2
  <2>3. AtO(pc) <= j /\ j < HeadSize(pc) + 1 <=> pc = TerminalPc /\ j = AtO(pc)
    <3>1. CASE pc = TerminalPc
      <4>1. HeadSize(pc) + 1 = AtO(pc) + 1
        BY <1>2, <3>1
      <4>2. AtO(pc) <= j /\ j < HeadSize(pc) + 1 <=> j = AtO(pc)
        BY <1>1, <1>3, <4>1
      <4> QED
        BY <3>1, <4>2
    <3>2. CASE ~(pc = TerminalPc)
      <4>1. HeadSize(pc) + 1 = AtO(pc)
        BY <1>2, <3>2
      <4>2. ~(AtO(pc) <= j /\ j < HeadSize(pc) + 1)
        BY <1>1, <1>3, <4>1
      <4> QED
        BY <3>2, <4>2
    <3> QED
      BY <3>1, <3>2
  <2> QED
    BY <2>1, <2>2, <2>3
<1>5. CASE j <= Heading(k)
  <2>1. KindOf(k, j) = KindAt(pc, j)
    BY <1>5 DEF KindOf
  <2> HIDE DEF pc
  <2>2. /\ KindAt(pc, j) = "E" <=> j = 1
        /\ KindAt(pc, j) = "B" <=> AtB(pc) <= j /\ j < AtR(pc)
        /\ KindAt(pc, j) = "R" <=> AtR(pc) <= j /\ j < AtO(pc)
        /\ KindAt(pc, j) = "O" <=> AtO(pc) <= j
        /\ KindAt(pc, j) \in {"E", "W", "B", "R", "O"}
    BY <1>1, <1>3, KindBetween DEF KindAt
  <2>3. j < HeadSize(pc) + 1 /\ ~(Heading(k) < j)
    BY <1>1, <1>3, <1>5
  <2>4. KindAt(pc, j) \notin {"L", "S"}
    BY <2>2
  <2> QED
    BY <1>4, <2>1, <2>2, <2>3, <2>4 DEF pc
<1>6. CASE ~(j <= Heading(k))
  <2>1. j - Heading(k) \in 1 .. Len(run[k].accesses)
    BY <1>1, <1>3, <1>6
  <2>2. run[k].accesses[j - Heading(k)] \in Access
    BY <1>3, <2>1
  <2>3. KindOf(k, j) \in {"L", "S"}
    BY <1>6, <2>2 DEF KindOf, Access
  <2> HIDE DEF pc
  <2>4. Heading(k) < j /\ j # 1 /\ AtO(pc) <= j /\ AtR(pc) <= j /\ ~(j < AtO(pc)) /\ ~(j < AtR(pc))
        /\ ~(j < HeadSize(pc) + 1)
    BY <1>1, <1>3, <1>6
  <2> QED
    BY <1>4, <2>3, <2>4 DEF pc
<1> QED
  BY <1>5, <1>6
-------------------------------------------------------------------------------
(* The loads and stores that the parser gave to an instruction.              *)

Entry == [kind : {"L", "S"}, address : Named, owner : Nat]

PieceOf(entry, i) == IF entry.owner = i THEN <<<<entry.kind, entry.address>>>> ELSE <<>>

Pieces(entries, i) == [n \in DOMAIN entries |-> PieceOf(entries[n], i)]

LEMMA PieceIs ==
  ASSUME NEW entry \in Entry, NEW i
  PROVE  PieceOf(entry, i) \in Seq({"L", "S"} \X Named)
<1>1. entry.kind \in {"L", "S"} /\ entry.address \in Named
  BY DEF Entry
<1> DEFINE e == <<entry.kind, entry.address>>
           S == {"L", "S"} \X Named
<1>2. e \in S
  BY <1>1
<1>3. PieceOf(entry, i) = IF entry.owner = i THEN <<e>> ELSE <<>>
  BY DEF PieceOf
<1> HIDE DEF e, S
<1>4. <<e>> \in Seq(S) /\ <<>> \in Seq(S)
  BY <1>2
<1>5. PieceOf(entry, i) \in Seq(S)
  BY <1>3, <1>4
<1> QED
  BY <1>5 DEF S

LEMMA AccessesAre ==
  ASSUME NEW entries \in Seq(Entry), NEW i
  PROVE  /\ Pieces(entries, i) \in Seq(Seq({"L", "S"} \X Named))
         /\ FlattenSeq(Pieces(entries, i)) \in Seq({"L", "S"} \X Named)
         /\ (\A n \in DOMAIN entries : entries[n].owner # i) => FlattenSeq(Pieces(entries, i)) = <<>>
<1> DEFINE S == {"L", "S"} \X Named
           ps == Pieces(entries, i)
<1>1. \A n \in 1 .. Len(entries) : PieceOf(entries[n], i) \in Seq(S)
  <2> SUFFICES ASSUME NEW n \in 1 .. Len(entries) PROVE PieceOf(entries[n], i) \in Seq(S)
    OBVIOUS
  <2>1. entries[n] \in Entry
    BY ElementOfSeq
  <2> QED
    BY <2>1, PieceIs
<1>2. DOMAIN entries = 1 .. Len(entries) /\ Len(entries) \in Nat
  OBVIOUS
<1>3. ps \in Seq(Seq(S)) /\ DOMAIN ps = DOMAIN entries
  <2> HIDE DEF S
  <2> QED
    BY <1>1, <1>2 DEF Pieces
<1>4. FlattenSeq(ps) \in Seq(S)
  <2> HIDE DEF S, ps
  <2>1. <<>> \in Seq(S)
    OBVIOUS
  <2> QED
    BY <1>3, <2>1, FlattenAppend
<1>5. ASSUME \A n \in DOMAIN entries : entries[n].owner # i
      PROVE  FlattenSeq(ps) = <<>>
  <2>1. \A n \in DOMAIN ps : ps[n] = <<>>
    BY <1>3, <1>5 DEF Pieces, PieceOf
  <2> HIDE DEF S, ps
  <2>2. Range(FlattenSeq(ps)) = UNION {Range(ps[n]) : n \in DOMAIN ps}
    BY <1>3, FlattenRange
  <2>3. \A n \in DOMAIN ps : Range(ps[n]) = {}
    BY <2>1 DEF Range
  <2>4. Range(FlattenSeq(ps)) = {}
    BY <2>2, <2>3
  <2> DEFINE f == FlattenSeq(ps)
  <2>5. f \in Seq(S) /\ Range(f) = {}
    BY <1>4, <2>4
  <2> HIDE DEF f
  <2>6. DOMAIN f = {}
    BY <2>5 DEF Range
  <2>7. f = <<>>
    BY <2>5, <2>6
  <2> QED
    BY <2>7 DEF f
<1> QED
  BY <1>3, <1>4, <1>5

LEMMA AccessAppended ==
  ASSUME NEW entries \in Seq(Entry), NEW entry \in Entry, NEW i
  PROVE  FlattenSeq(Pieces(Append(entries, entry), i)) =
           IF entry.owner = i
           THEN Append(FlattenSeq(Pieces(entries, i)), <<entry.kind, entry.address>>)
           ELSE FlattenSeq(Pieces(entries, i))
<1> DEFINE S == {"L", "S"} \X Named
           ps == Pieces(entries, i)
           p == PieceOf(entry, i)
<1>1. ps \in Seq(Seq(S)) /\ FlattenSeq(ps) \in Seq(S) /\ p \in Seq(S)
  BY AccessesAre, PieceIs
<1>2. Pieces(Append(entries, entry), i) = Append(ps, p)
  BY DEF Pieces
<1>3. FlattenSeq(Append(ps, p)) = FlattenSeq(ps) \o p
  <2> HIDE DEF S, ps, p
  <2> QED
    BY <1>1, FlattenAppend
<1>4. CASE entry.owner = i
  <2>1. p = <<<<entry.kind, entry.address>>>> /\ <<entry.kind, entry.address>> \in S
    BY <1>4 DEF PieceOf, Entry
  <2> DEFINE f == FlattenSeq(ps)
             e == <<entry.kind, entry.address>>
  <2>2. f \in Seq(S) /\ e \in S /\ p = <<e>>
    BY <1>1, <2>1
  <2> HIDE DEF S, ps, p, f, e
  <2>3. f \o <<e>> = Append(f, e)
    BY <2>2
  <2> QED
    BY <1>2, <1>3, <1>4, <2>2, <2>3 DEF f, e, ps
<1>5. CASE entry.owner # i
  <2>1. p = <<>>
    BY <1>5 DEF PieceOf
  <2> HIDE DEF S
  <2> QED
    BY <1>1, <1>2, <1>3, <1>5, <2>1, ConcatEmptySeq
<1> QED
  BY <1>4, <1>5

LEMMA AccessesOfIs ==
  ASSUME NEW i
  PROVE  AccessesOf(i) = FlattenSeq(Pieces(accesses, i))
BY DEF AccessesOf, Pieces, PieceOf

LEMMA SameSequence ==
  ASSUME NEW S, NEW T, NEW s \in Seq(S), NEW t \in Seq(T), Len(s) = Len(t),
         \A i \in 1 .. Len(s) : s[i] = t[i]
  PROVE  s = t
OBVIOUS

LEMMA AccessesTyped ==
  ASSUME TraceTypeOK, NEW i
  PROVE  /\ AccessesOf(i) \in Seq({"L", "S"} \X Named) /\ Len(AccessesOf(i)) \in Nat
         /\ (\A n \in DOMAIN accesses : accesses[n].owner # i) => AccessesOf(i) = <<>>
<1> DEFINE S == {"L", "S"} \X Named
<1>1. accesses \in Seq(Entry)
  BY DEF TraceTypeOK, Entry
<1>2. AccessesOf(i) \in Seq(S)
  BY <1>1, AccessesAre, AccessesOfIs
<1>3. (\A n \in DOMAIN accesses : accesses[n].owner # i) => AccessesOf(i) = <<>>
  BY <1>1, AccessesAre, AccessesOfIs
<1>4. Len(AccessesOf(i)) \in Nat
  <2> HIDE DEF S
  <2> QED
    BY <1>2
<1> QED
  BY <1>2, <1>3, <1>4

\* An instruction all lines of which are parsed is told faithfully.
LEMMA SoFarFaithful ==
  ASSUME TraceTypeOK, Marked, NEW k \in DOMAIN run, SoFar(k, Size(k))
  PROVE  Faithful(k) /\ outputs = When(run[k].pc = TerminalPc, <<k>>)
<1> DEFINE pc == run[k].pc
           acc == run[k].accesses
           got == AccessesOf(k)
<1>1. /\ k \in Nat /\ k # 0 /\ k <= Len(run)
      /\ acc \in Seq(Access) /\ Len(acc) \in Nat /\ Heading(k) \in Nat
      /\ Heading(k) = HeadSize(pc) /\ Size(k) \in Nat /\ Size(k) = Heading(k) + Len(acc)
  BY SizeIs
<1>2. /\ executions[k].pc = pc
      /\ executions[k].snapshot = When(run[k].snapshot /\ AtR(pc) <= Size(k), <<k>>)
      /\ executions[k].writes = When(run[k].write /\ AtB(pc) <= Size(k), <<k>>)
      /\ Len(got) = IF Size(k) <= Heading(k) THEN 0 ELSE Size(k) - Heading(k)
      /\ \A a \in 1 .. Len(got) : got[a] = acc[a]
      /\ outputs = When(pc = TerminalPc /\ AtO(pc) <= Size(k), <<k>>)
  BY <1>1 DEF SoFar
<1>3. /\ AtB(pc) \in Nat /\ AtR(pc) \in Nat /\ AtO(pc) \in Nat /\ HeadSize(pc) \in Nat
      /\ AtB(pc) <= AtR(pc) /\ AtR(pc) <= AtO(pc) /\ AtO(pc) <= HeadSize(pc) + 1
  BY PlaceNumbers
<1>4. (run[k].snapshot <=> Wants(pc)) /\ (run[k].write <=> pc = WritePc)
  BY DEF Marked
<1>5. run[k].snapshot => AtR(pc) <= Size(k)
  <2> SUFFICES ASSUME Wants(pc) PROVE AtR(pc) <= Size(k)
    BY <1>4
  <2>1. AtO(pc) = AtR(pc) + 1
    BY PlaceKinds
  <2> QED
    BY <1>1, <1>3, <2>1
<1>6. run[k].write => AtB(pc) <= Size(k)
  <2> SUFFICES ASSUME pc = WritePc PROVE AtB(pc) <= Size(k)
    BY <1>4
  <2>1. AtR(pc) = AtB(pc) + 1
    BY PlaceKinds
  <2> QED
    BY <1>1, <1>3, <2>1
<1>7. pc = TerminalPc => AtO(pc) <= Size(k)
  <2> SUFFICES ASSUME pc = TerminalPc PROVE AtO(pc) <= Size(k)
    OBVIOUS
  <2>1. HeadSize(pc) = AtO(pc)
    BY PlaceKinds
  <2> QED
    BY <1>1, <1>3, <2>1
<1>8. Len(got) = Len(acc)
  BY <1>1, <1>2
<1>9. got = acc
  <2>1. got \in Seq({"L", "S"} \X Named)
    BY AccessesTyped
  <2> HIDE DEF got, acc
  <2> QED
    BY <1>1, <1>2, <1>8, <2>1, SameSequence
<1> HIDE DEF pc
<1>10. executions[k].snapshot = When(run[k].snapshot, <<k>>)
  BY <1>2, <1>5 DEF When
<1>11. executions[k].writes = When(run[k].write, <<k>>)
  BY <1>2, <1>6 DEF When
<1>12. outputs = When(pc = TerminalPc, <<k>>)
  BY <1>2, <1>7 DEF When
<1> QED
  BY <1>1, <1>2, <1>9, <1>10, <1>11, <1>12 DEF Faithful, pc

-------------------------------------------------------------------------------
(* While the machine runs the path only gets longer.                         *)

LEMMA PathIs ==
  ASSUME TraceTypeOK, NEW own, NEW off, Path(own, off)
  PROVE  /\ Len(trace) \in Nat /\ Len(run) \in Nat /\ Size(0) = 0
         /\ own[0] = Len(executions)
         /\ \A i \in 0 .. Len(trace) :
              /\ own[i] \in 0 .. Len(run) /\ off[i] \in Nat
              /\ Size(own[i]) \in Nat /\ off[i] <= Size(own[i])
              /\ own[i] = 0 => off[i] = 0
              /\ own[i] # 0 => own[i] \in DOMAIN run /\ off[i] \in 1 .. Size(own[i])
         /\ \A i \in 1 .. Len(trace) :
              /\ NextLine(own[i - 1], off[i - 1], own[i], off[i])
              /\ \/ Is(trace[i], own[i], off[i])
                 \/ qemu = "cut" /\ i = Len(trace) /\ Broken(trace[i], own[i], off[i])
         /\ qemu # "cut" => own[Len(trace)] = Len(run) /\ off[Len(trace)] = Size(Len(run))
<1>1. Len(trace) \in Nat /\ Len(run) \in Nat /\ Size(0) = 0 /\ DOMAIN run = 1 .. Len(run)
  BY DEF TraceTypeOK, Size
<1>2. ASSUME NEW i \in 0 .. Len(trace)
      PROVE  /\ own[i] \in 0 .. Len(run) /\ off[i] \in Nat
             /\ Size(own[i]) \in Nat /\ off[i] <= Size(own[i])
             /\ own[i] = 0 => off[i] = 0
             /\ own[i] # 0 => own[i] \in DOMAIN run /\ off[i] \in 1 .. Size(own[i])
  <2>1. /\ own[i] \in 0 .. Len(run) /\ off[i] \in Nat
        /\ IF own[i] = 0 THEN off[i] = 0 ELSE off[i] \in 1 .. Size(own[i])
    BY DEF Path
  <2>2. CASE own[i] = 0
    BY <1>1, <2>1, <2>2
  <2>3. CASE own[i] # 0
    <3>1. own[i] \in DOMAIN run /\ off[i] \in 1 .. Size(own[i])
      BY <1>1, <2>1, <2>3
    <3>2. Size(own[i]) \in Nat
      BY <3>1, SizeIs
    <3> QED
      BY <2>1, <2>3, <3>1, <3>2
  <2> QED
    BY <2>2, <2>3
<1>3. /\ own[0] = Len(executions)
      /\ \A i \in 1 .. Len(trace) :
           /\ NextLine(own[i - 1], off[i - 1], own[i], off[i])
           /\ \/ Is(trace[i], own[i], off[i])
              \/ qemu = "cut" /\ i = Len(trace) /\ Broken(trace[i], own[i], off[i])
      /\ qemu # "cut" => own[Len(trace)] = Len(run) /\ off[Len(trace)] = Size(Len(run))
  BY DEF Path
<1> QED
  BY <1>1, <1>2, <1>3, Zenon

\* execute() or memory() adds h lines, the J + 1-st and following of the K-th
\* instruction.
Lengths(L, h, K, J) ==
  /\ qemu # "cut" /\ executions' = executions
  /\ L = Len(trace) /\ Len(trace)' = L + h
  /\ h # 0 /\ K # 0 /\ K = Len(run)' /\ Size(K)' = J + h
  /\ (K = Len(run) /\ J = Size(K)) \/ (K = Len(run) + 1 /\ J = 0)

SizesGrow(K) ==
  \A k \in DOMAIN run : /\ Size(k)' \in Nat /\ Size(k) <= Size(k)'
                        /\ k # K => Size(k)' = Size(k)

LinesKept(L) ==
  \A k \in DOMAIN run : \A j \in 1 .. Size(k) : \A i \in 1 .. L :
    Is(trace[i], k, j) => Is(trace[i], k, j)'

LinesAdded(L, h, K, J) == \A i \in 1 .. h : Is(trace[L + i], K, J + i)'

Grown(L, h, K, J) ==
  Lengths(L, h, K, J) /\ SizesGrow(K) /\ LinesKept(L) /\ LinesAdded(L, h, K, J)

LEMMA PathGrows ==
  ASSUME TraceTypeOK, NEW own, NEW off, Path(own, off),
         NEW L \in Nat, NEW h \in Nat, NEW K \in Nat, NEW J \in Nat, Grown(L, h, K, J)
  PROVE  \E own2, off2 : Path(own2, off2)' /\ own2[0] = own[0]
<1>14. /\ L = Len(trace) /\ h # 0 /\ K # 0 /\ qemu # "cut" /\ executions' = executions
       /\ K = Len(run)' /\ Len(trace)' = L + h /\ Size(K)' = J + h
       /\ (K = Len(run) /\ J = Size(K)) \/ (K = Len(run) + 1 /\ J = 0)
  BY DEF Grown, Lengths
<1>15. \A k \in DOMAIN run : /\ Size(k)' \in Nat /\ Size(k) <= Size(k)'
                             /\ k # K => Size(k)' = Size(k)
  BY DEF Grown, SizesGrow
<1>16. \A k \in DOMAIN run : \A j \in 1 .. Size(k) : \A i \in 1 .. L :
         Is(trace[i], k, j) => Is(trace[i], k, j)'
  BY DEF Grown, LinesKept
<1>17. \A i \in 1 .. h : Is(trace[L + i], K, J + i)'
  BY DEF Grown, LinesAdded
<1>0. /\ L \in Nat /\ Len(run) \in Nat /\ Size(0) = 0 /\ Size(0)' = 0
      /\ own[0] = Len(executions)
      /\ \A i \in 0 .. L :
           /\ own[i] \in 0 .. Len(run) /\ off[i] \in Nat
           /\ Size(own[i]) \in Nat /\ off[i] <= Size(own[i])
           /\ own[i] = 0 => off[i] = 0
           /\ own[i] # 0 => own[i] \in DOMAIN run /\ off[i] \in 1 .. Size(own[i])
      /\ \A i \in 1 .. L :
           /\ NextLine(own[i - 1], off[i - 1], own[i], off[i])
           /\ Is(trace[i], own[i], off[i])
      /\ own[L] = Len(run) /\ off[L] = Size(Len(run))
  <2>1. Size(0)' = 0
    BY DEF Size
  <2> QED
    BY <1>14, <2>1, PathIs
<1>18. \A k \in Int : k \in DOMAIN run <=> 1 <= k /\ k <= Len(run)
  BY DEF TraceTypeOK
<1>13. /\ Len(run) \in Nat /\ K \in Nat /\ L \in Nat /\ L \in 0 .. L
       /\ (K = Len(run) \/ K = Len(run) + 1)
       /\ Size(0) = 0
  BY <1>0, <1>14
<1>1. PICK own2 : own2 = [i \in 0 .. L + h |-> IF i <= L THEN own[i] ELSE K]
  OBVIOUS
<1>2. PICK off2 : off2 = [i \in 0 .. L + h |-> IF i <= L THEN off[i] ELSE J + (i - L)]
  OBVIOUS
<1>3. \A i \in 0 .. L : i \in 0 .. L + h /\ own2[i] = own[i] /\ off2[i] = off[i]
  BY <1>1, <1>2
<1>4. \A i \in 1 .. h : L + i \in 0 .. L + h /\ own2[L + i] = K /\ off2[L + i] = J + i
  BY <1>1, <1>2
<1>5. \A i \in 0 .. L + h : i \in 0 .. L \/ \E a \in 1 .. h : i = L + a
  <2> SUFFICES ASSUME NEW i \in 0 .. L + h, i \notin 0 .. L PROVE \E a \in 1 .. h : i = L + a
    OBVIOUS
  <2>1. i - L \in 1 .. h /\ i = L + (i - L)
    OBVIOUS
  <2> QED
    BY <2>1
<1>6. K \in 0 .. K /\ Len(run) <= K /\ \A k \in 0 .. Len(run) : k \in 0 .. K
  BY <1>13
<1>7. ASSUME NEW i \in 0 .. L + h
      PROVE  /\ own2[i] \in 0 .. K /\ off2[i] \in Nat
             /\ IF own2[i] = 0 THEN off2[i] = 0 ELSE off2[i] \in 1 .. Size(own2[i])'
  <2>1. CASE i \in 0 .. L
    <3>1. own2[i] = own[i] /\ off2[i] = off[i] /\ own[i] \in 0 .. Len(run) /\ off[i] \in Nat
      BY <1>0, <1>3, <2>1
    <3>2. CASE own[i] = 0
      BY <1>0, <1>6, <2>1, <3>1, <3>2
    <3>3. CASE own[i] # 0
      <4>1. own[i] \in DOMAIN run /\ off[i] \in 1 .. Size(own[i]) /\ Size(own[i]) \in Nat
        BY <1>0, <2>1, <3>3
      <4>2. Size(own[i])' \in Nat /\ Size(own[i]) <= Size(own[i])'
        BY <1>15, <4>1
      <4>3. off[i] \in 1 .. Size(own[i])'
        BY <4>1, <4>2
      <4> QED
        BY <1>6, <3>1, <3>3, <4>3
    <3> QED
      BY <3>2, <3>3
  <2>2. ASSUME NEW a \in 1 .. h, i = L + a
        PROVE  /\ own2[i] \in 0 .. K /\ off2[i] \in Nat
               /\ IF own2[i] = 0 THEN off2[i] = 0 ELSE off2[i] \in 1 .. Size(own2[i])'
    <3>1. own2[i] = K /\ off2[i] = J + a
      BY <1>4, <2>2
    <3>2. J + a \in Nat /\ J + a \in 1 .. Size(K)'
      BY <1>14
    <3> QED
      BY <1>6, <1>14, <3>1, <3>2
  <2> QED
    BY <1>5, <2>1, <2>2
<1>8. ASSUME NEW i \in 1 .. L + h
      PROVE  NextLine(own2[i - 1], off2[i - 1], own2[i], off2[i])' /\ Is(trace[i], own2[i], off2[i])'
  <2>1. CASE i \in 1 .. L
    <3> DEFINE k == own[i - 1]
               j == off[i - 1]
    <3>1. /\ i \in 0 .. L /\ i - 1 \in 0 .. L
          /\ own2[i] = own[i] /\ off2[i] = off[i] /\ own2[i - 1] = k /\ off2[i - 1] = j
      BY <1>3, <2>1
    <3>2. /\ NextLine(k, j, own[i], off[i]) /\ Is(trace[i], own[i], off[i])
          /\ k \in 0 .. Len(run) /\ own[i] \in 0 .. Len(run) /\ Size(k) \in Nat /\ j \in Nat
      BY <1>0, <2>1, <3>1
    <3>3. /\ j < Size(k) => own[i] = k /\ off[i] = j + 1
          /\ ~(j < Size(k)) => own[i] = k + 1 /\ off[i] = 1
      BY <3>2 DEF NextLine
    <3>4. own[i] # 0
      <4>1. CASE k = 0
        <5>1. j = 0
          BY <1>0, <3>1, <4>1
        <5>2. ~(j < Size(k))
          BY <1>13, <4>1, <5>1
        <5> QED
          BY <3>2, <3>3, <4>1, <5>2
      <4>2. CASE k # 0
        BY <3>2, <3>3, <4>2
      <4> QED
        BY <4>1, <4>2
    <3>5. own[i] \in DOMAIN run /\ off[i] \in 1 .. Size(own[i])
      BY <1>0, <3>1, <3>4
    <3>6. Is(trace[i], own[i], off[i])'
      BY <1>16, <2>1, <3>2, <3>5
    <3>7. IF j < Size(k)' THEN own[i] = k /\ off[i] = j + 1 ELSE own[i] = k + 1 /\ off[i] = 1
      <4>1. CASE j < Size(k)
        <5>1. k \in DOMAIN run
          BY <3>3, <3>5, <4>1
        <5>2. Size(k)' \in Nat /\ Size(k) <= Size(k)'
          BY <1>15, <5>1
        <5>3. j < Size(k)'
          BY <3>2, <4>1, <5>2
        <5> QED
          BY <3>3, <4>1, <5>3
      <4>2. CASE ~(j < Size(k))
        <5>1. own[i] = k + 1 /\ k + 1 \in 0 .. Len(run)
          BY <3>2, <3>3, <4>2
        <5>2. k # K
          BY <1>13, <3>2, <5>1
        <5>3. Size(k)' = Size(k)
          <6>1. CASE k = 0
            BY <1>0, <6>1
          <6>2. CASE k # 0
            <7>1. k \in DOMAIN run
              BY <1>13, <1>18, <3>2, <6>2
            <7> QED
              BY <1>15, <5>2, <7>1
          <6> QED
            BY <6>1, <6>2
        <5> QED
          BY <3>3, <4>2, <5>3
      <4> QED
        BY <4>1, <4>2
    <3> HIDE DEF k, j
    <3>8. NextLine(k, j, own[i], off[i])'
      BY <3>7 DEF NextLine
    <3> QED
      BY <3>1, <3>6, <3>8
  <2>2. ASSUME NEW a \in 1 .. h, i = L + a
        PROVE  NextLine(own2[i - 1], off2[i - 1], own2[i], off2[i])' /\ Is(trace[i], own2[i], off2[i])'
    <3>1. own2[i] = K /\ off2[i] = J + a
      BY <1>4, <2>2
    <3>2. Is(trace[i], own2[i], off2[i])'
      BY <1>17, <2>2, <3>1
    <3>3. CASE a = 1
      <4>1. i - 1 = L /\ L \in 0 .. L
        BY <2>2, <3>3
      <4>2. own2[i - 1] = Len(run) /\ off2[i - 1] = Size(Len(run))
        BY <1>0, <1>3, <4>1
      <4>3. IF Size(Len(run)) < Size(own2[i - 1])' THEN K = Len(run) /\ J + 1 = Size(Len(run)) + 1
            ELSE K = Len(run) + 1 /\ J + 1 = 1
        <5>1. CASE K = Len(run) /\ J = Size(K)
          <6>1. Size(own2[i - 1])' = J + h /\ Size(Len(run)) = J
            BY <1>14, <4>2, <5>1
          <6>2. J < J + h
            BY <1>14
          <6> QED
            BY <5>1, <6>1, <6>2
        <5>2. CASE K = Len(run) + 1 /\ J = 0
          <6>1. Len(run) # K
            BY <1>13, <5>2
          <6>2. Size(own2[i - 1])' = Size(own2[i - 1])
            <7>1. CASE own2[i - 1] = 0
              BY <1>0, <7>1
            <7>2. CASE own2[i - 1] # 0
              <8>1. own2[i - 1] \in DOMAIN run /\ own2[i - 1] # K
                BY <1>13, <1>18, <4>2, <6>1, <7>2
              <8> QED
                BY <1>15, <8>1
            <7> QED
              BY <7>1, <7>2
          <6>3. Size(own2[i - 1])' = Size(Len(run)) /\ Size(Len(run)) \in Nat
            <7>1. Size(own2[i - 1]) = Size(Len(run))
              BY <4>2
            <7>2. Size(own[L]) \in Nat
              BY <1>0, <4>1
            <7> QED
              BY <1>0, <6>2, <7>1, <7>2
          <6>4. ~(Size(Len(run)) < Size(own2[i - 1])')
            BY <6>3
          <6> QED
            BY <5>2, <6>4
        <5> QED
          BY <1>14, <5>1, <5>2
      <4>4. NextLine(own2[i - 1], off2[i - 1], own2[i], off2[i])'
        <5>1. IF off2[i - 1] < Size(own2[i - 1])'
              THEN own2[i] = own2[i - 1] /\ off2[i] = off2[i - 1] + 1
              ELSE own2[i] = own2[i - 1] + 1 /\ off2[i] = 1
          BY <3>1, <3>3, <4>2, <4>3
        <5> QED
          BY <5>1 DEF NextLine
      <4> QED
        BY <3>2, <4>4
    <3>4. CASE a # 1
      <4>1. a - 1 \in 1 .. h /\ i - 1 = L + (a - 1)
        BY <2>2, <3>4
      <4>2. own2[i - 1] = K /\ off2[i - 1] = J + (a - 1)
        BY <1>4, <4>1
      <4>3. J + (a - 1) < J + h /\ J + a = (J + (a - 1)) + 1
        BY <4>1
      <4>4. NextLine(own2[i - 1], off2[i - 1], own2[i], off2[i])'
        <5>1. Size(K)' = J + h
          BY <1>14
        <5>2. IF off2[i - 1] < Size(own2[i - 1])'
              THEN own2[i] = own2[i - 1] /\ off2[i] = off2[i - 1] + 1
              ELSE own2[i] = own2[i - 1] + 1 /\ off2[i] = 1
          BY <3>1, <4>2, <4>3, <5>1
        <5> QED
          BY <5>2 DEF NextLine
      <4> QED
        BY <3>2, <4>4
    <3> QED
      BY <3>3, <3>4
  <2>3. i \in 1 .. L \/ \E a \in 1 .. h : i = L + a
    <3>1. i \in 0 .. L + h /\ (i \in 0 .. L => i \in 1 .. L)
      OBVIOUS
    <3> QED
      BY <1>5, <3>1
  <2> QED
    BY <2>1, <2>2, <2>3
<1>9. own2[0] = own[0] /\ 0 \in 0 .. L
  BY <1>3
<1>10. own2[L + h] = K /\ off2[L + h] = Size(K)'
  BY <1>4, <1>14
<1>11. own2 \in [0 .. L + h -> 0 .. K] /\ off2 \in [0 .. L + h -> Nat]
  BY <1>1, <1>2, <1>7
<1>12. Path(own2, off2)'
  BY <1>0, <1>7, <1>8, <1>9, <1>10, <1>11, <1>14 DEF Path
<1> QED
  BY <1>9, <1>12

LEMMA IsKept ==
  ASSUME TraceTypeOK, NEW k \in DOMAIN run, NEW j \in 1 .. Size(k), NEW i,
         run'[k].pc = run[k].pc, trace'[i] = trace[i],
         \A a \in 1 .. Len(run[k].accesses) : run'[k].accesses[a] = run[k].accesses[a],
         Is(trace[i], k, j)
  PROVE  Is(trace[i], k, j)'
<1>1. Heading(k)' = Heading(k)
  BY DEF Heading
<1>2. KindOf(k, j)' = KindOf(k, j) /\ WhatOf(k, j)' = WhatOf(k, j)
  <2>1. CASE j <= Heading(k)
    BY <1>1, <2>1 DEF KindOf, WhatOf
  <2>2. CASE ~(j <= Heading(k))
    <3>1. j - Heading(k) \in 1 .. Len(run[k].accesses)
      BY <2>2, SizeIs
    <3>2. run'[k].accesses[j - Heading(k)] = run[k].accesses[j - Heading(k)]
      BY <3>1
    <3> QED
      BY <1>1, <2>2, <3>2 DEF KindOf, WhatOf
  <2> QED
    BY <2>1, <2>2
<1>3. /\ trace[i].kind = KindOf(k, j) /\ trace[i].pc = run[k].pc /\ trace[i].what = WhatOf(k, j)
      /\ trace[i].ok \/ trace[i].kind \in {"W", "B"}
  BY DEF Is
<1>4. /\ trace'[i].kind = KindOf(k, j)' /\ trace'[i].pc = run'[k].pc /\ trace'[i].what = WhatOf(k, j)'
      /\ trace'[i].ok \/ trace'[i].kind \in {"W", "B"}
  BY <1>2, <1>3
<1> QED
  BY <1>4 DEF Is

LEMMA RunningStep ==
  ASSUME TraceInv, qemu = "running", qemu' \in {"running", "ended"}, UNCHANGED parseVars,
         TraceTypeOK', Marked',
         NEW L \in Nat, NEW h \in Nat, NEW K \in Nat, NEW J \in Nat, Grown(L, h, K, J)
  PROVE  TraceInv'
<1>1. /\ verdict = "waiting" /\ executions = <<>> /\ accesses = <<>> /\ outputs = <<>>
      /\ verdict' = "waiting" /\ executions' = <<>> /\ accesses' = <<>> /\ outputs' = <<>>
  BY DEF TraceInv, Staged, parseVars
<1>2. Staged'
  BY <1>1 DEF Staged
<1>3. Told'
  <2>1. 1 .. Len(executions') - 1 = {} /\ DOMAIN accesses' = {}
    BY <1>1
  <2> QED
    BY <1>1, <2>1 DEF Told
<1>4. PICK own, off : Path(own, off)
  BY DEF TraceInv, OnPath
<1>5. PICK own2, off2 : Path(own2, off2)' /\ own2[0] = own[0]
  BY <1>4, PathGrows DEF TraceInv
<1>6. own2[0] = 0
  <2>1. own[0] = Len(executions)
    BY <1>4, Zenon DEF Path
  <2>2. Len(<<>>) = 0
    OBVIOUS
  <2> QED
    BY <1>1, <1>5, <2>1, <2>2
<1>7. SoFar(own2[0], off2[0])'
  BY <1>1, <1>6 DEF SoFar
<1>8. OnPath'
  BY <1>5, <1>7 DEF OnPath
<1> QED
  BY <1>2, <1>3, <1>8 DEF TraceInv

LEMMA ExecuteStep ==
  ASSUME TraceInv, NEW pc \in Pcs, NEW readable \in BOOLEAN, Execute(pc, readable)
  PROVE  TraceInv'
<1> DEFINE Insn == [pc : Pcs, snapshot : BOOLEAN, write : BOOLEAN, accesses : Seq(Access)]
           insn == [pc |-> pc, snapshot |-> (pc \in Snapshots \/ pc = TerminalPc),
                    write |-> (pc = WritePc), accesses |-> <<>>]
<1>1. PICK N \in Nat : N = Len(run)
  BY DEF TraceInv, TraceTypeOK
<1>2. PICK L \in Nat : L = Len(trace)
  BY DEF TraceInv, TraceTypeOK
<1>3. PICK K \in Nat : K = N + 1
  OBVIOUS
<1>4. /\ qemu = "running" /\ run' = Append(run, insn)
      /\ trace' = (trace \o Lines(pc, K, readable)) \o When(pc = TerminalPc, <<Line("O", pc, K, TRUE)>>)
      /\ qemu' = IF pc = TerminalPc THEN "ended" ELSE "running"
      /\ UNCHANGED parseVars
  BY <1>1, <1>3 DEF Execute
<1>5. run \in Seq(Insn) /\ insn \in Insn
  <2>1. <<>> \in Seq(Access)
    OBVIOUS
  <2> QED
    BY <2>1 DEF TraceInv, TraceTypeOK
<1>6. /\ run' \in Seq(Insn) /\ Len(run') = K /\ run'[K] = insn
      /\ \A k \in 1 .. N : run'[k] = run[k]
  <2> HIDE DEF Insn, insn
  <2> QED
    BY <1>1, <1>3, <1>4, <1>5
<1>7. insn.pc = pc /\ insn.accesses = <<>> /\ (insn.snapshot <=> Wants(pc)) /\ (insn.write <=> pc = WritePc)
  BY DEF Wants
<1> HIDE DEF Insn, insn
<1>8. PICK h \in Nat : h = HeadSize(pc) /\ h # 0
  BY PlaceNumbers
<1> DEFINE head == Header(pc, K, readable)
<1>9. /\ head \in Seq(LineType) /\ Len(head) = h
      /\ \A j \in 1 .. h :
           /\ head[j].kind = KindAt(pc, j) /\ head[j].pc = pc /\ head[j].what = K
           /\ head[j].ok \/ head[j].kind \in {"W", "B"}
  BY <1>8, HeaderLines
<1>10. trace \in Seq(LineType)
  BY DEF TraceInv, TraceTypeOK
<1>11. trace' = trace \o head
  <2> DEFINE s == Lines(pc, K, readable)
             t == When(pc = TerminalPc, <<Line("O", pc, K, TRUE)>>)
  <2>1. s \in Seq(LineType)
    BY HeaderLines
  <2>2. t \in Seq(LineType)
    <3> DEFINE o == Line("O", pc, K, TRUE)
    <3>1. o \in LineType
      BY DEF Line, LineType, Named
    <3> HIDE DEF o
    <3>2. <<o>> \in Seq(LineType) /\ <<>> \in Seq(LineType)
      BY <3>1
    <3> QED
      BY <3>2 DEF When, o
  <2>3. head = s \o t /\ trace' = (trace \o s) \o t
    BY <1>4 DEF Header
  <2> HIDE DEF s, t, head
  <2>4. (trace \o s) \o t = trace \o (s \o t)
    BY <1>10, <2>1, <2>2, ConcatAssociative
  <2> QED
    BY <2>3, <2>4
<1> HIDE DEF head
<1>12. /\ trace' \in Seq(LineType) /\ Len(trace') = L + h
       /\ \A i \in 1 .. L : trace'[i] = trace[i]
       /\ \A i \in 1 .. h : trace'[L + i] = head[i]
  <2>1. trace \o head \in Seq(LineType) /\ Len(trace \o head) = L + h
    BY <1>2, <1>9, <1>10
  <2>2. \A i \in 1 .. L : (trace \o head)[i] = trace[i]
    BY <1>2, <1>9, <1>10
  <2>3. \A i \in 1 .. h : (trace \o head)[L + i] = head[i]
    BY <1>2, <1>9, <1>10
  <2> QED
    BY <1>11, <2>1, <2>2, <2>3
<1>13. /\ verdict' = verdict /\ executions' = executions /\ accesses' = accesses
  BY <1>4 DEF parseVars
<1>14. TraceTypeOK'
  <2>1. run' \in Seq([pc : Pcs, snapshot : BOOLEAN, write : BOOLEAN, accesses : Seq(Access)])
    BY <1>6 DEF Insn
  <2> QED
    BY <1>4, <1>12, <1>13, <2>1 DEF TraceInv, TraceTypeOK
<1>15. DOMAIN run = 1 .. N
  BY <1>1, <1>5
<1>16. DOMAIN run' = 1 .. K
  BY <1>6
<1>17. ASSUME NEW k \in DOMAIN run
       PROVE  run'[k] = run[k] /\ k # K /\ run[k].pc # TerminalPc
              /\ (run[k].snapshot <=> Wants(run[k].pc)) /\ (run[k].write <=> run[k].pc = WritePc)
  <2>1. k \in 1 .. N /\ k # K
    BY <1>3, <1>15
  <2>2. run'[k] = run[k]
    BY <1>6, <2>1
  <2> QED
    BY <1>4, <2>1, <2>2 DEF TraceInv, Marked
<1>18. \A k \in DOMAIN run' : k = K \/ k \in DOMAIN run
  BY <1>3, <1>15, <1>16
<1>19. Marked'
  <2>1. ASSUME NEW k \in DOMAIN run'
        PROVE  /\ (run'[k].snapshot <=> Wants(run'[k].pc)) /\ (run'[k].write <=> run'[k].pc = WritePc)
               /\ run'[k].pc = TerminalPc => k = Len(run') /\ qemu' # "running"
    <3>1. CASE k = K
      BY <1>4, <1>6, <1>7, <3>1
    <3>2. CASE k \in DOMAIN run
      BY <1>17, <3>2
    <3> QED
      BY <1>18, <3>1, <3>2
  <2>2. qemu' = "ended" => Len(run') > 0 /\ run'[Len(run')].pc = TerminalPc
    BY <1>3, <1>4, <1>6, <1>7
  <2> QED
    BY <2>1, <2>2 DEF Marked, Wants
<1>20. \A k \in DOMAIN run : /\ Size(k)' \in Nat /\ Size(k) <= Size(k)'
                             /\ k # K => Size(k)' = Size(k)
  <2> SUFFICES ASSUME NEW k \in DOMAIN run PROVE Size(k)' = Size(k) /\ Size(k) \in Nat
    OBVIOUS
  <2>1. Size(k) \in Nat
    BY SizeIs DEF TraceInv
  <2> QED
    BY <1>17, <2>1 DEF Size, Heading
<1>21. \A k \in DOMAIN run : \A j \in 1 .. Size(k) : \A i \in 1 .. L :
         Is(trace[i], k, j) => Is(trace[i], k, j)'
  <2> SUFFICES ASSUME NEW k \in DOMAIN run, NEW j \in 1 .. Size(k), NEW i \in 1 .. L, Is(trace[i], k, j)
               PROVE  Is(trace[i], k, j)'
    OBVIOUS
  <2>1. run'[k] = run[k] /\ trace'[i] = trace[i]
    BY <1>12, <1>17
  <2> QED
    BY <2>1, IsKept DEF TraceInv
<1>22. Heading(K)' = h /\ Size(K)' = h
  <2>1. Heading(K)' = h
    BY <1>6, <1>7, <1>8 DEF Heading
  <2>2. Len(run'[K].accesses) = 0 /\ K # 0
    BY <1>3, <1>6, <1>7
  <2> QED
    BY <2>1, <2>2 DEF Size
<1>26. PICK J \in Nat : J = 0
  OBVIOUS
<1>23. ASSUME NEW i \in 1 .. h PROVE Is(trace[L + i], K, J + i)'
  <2>1. J + i = i /\ i <= h
    BY <1>26
  <2>2. trace'[L + i] = head[i] /\ run'[K].pc = pc
    BY <1>6, <1>7, <1>12
  <2>3. KindOf(K, i)' = KindAt(pc, i) /\ WhatOf(K, i)' = K
    BY <1>22, <2>1, <2>2 DEF KindOf, WhatOf
  <2>4. Is(trace[L + i], K, i)'
    BY <1>9, <2>2, <2>3 DEF Is
  <2> QED
    BY <2>1, <2>4
<1>24. Grown(L, h, K, J)
  <2>1. /\ qemu # "cut" /\ Len(trace)' = L + h /\ K = Len(run)' /\ Size(K)' = J + h /\ K # 0
        /\ (K = Len(run) /\ J = Size(K)) \/ (K = Len(run) + 1 /\ J = 0)
        /\ h # 0 /\ L = Len(trace) /\ executions' = executions
    BY <1>1, <1>2, <1>3, <1>4, <1>6, <1>8, <1>12, <1>13, <1>22, <1>26
  <2>2. Lengths(L, h, K, J)
    BY <2>1 DEF Lengths
  <2>3. SizesGrow(K)
    BY <1>20 DEF SizesGrow
  <2>4. LinesKept(L)
    BY <1>21 DEF LinesKept
  <2>5. LinesAdded(L, h, K, J)
    BY <1>23 DEF LinesAdded
  <2> QED
    BY <2>2, <2>3, <2>4, <2>5 DEF Grown
<1>25. qemu' \in {"running", "ended"}
  BY <1>4
<1> QED
  BY <1>4, <1>14, <1>19, <1>24, <1>25, RunningStep

LEMMA MemoryStep ==
  ASSUME TraceInv, NEW kind \in {"L", "S"}, NEW address \in Addresses, Memory(kind, address)
  PROVE  TraceInv'
<1> DEFINE Insn == [pc : Pcs, snapshot : BOOLEAN, write : BOOLEAN, accesses : Seq(Access)]
<1>1. PICK K \in Nat : K = Len(run)
  BY DEF TraceInv, TraceTypeOK
<1>2. PICK L \in Nat : L = Len(trace)
  BY DEF TraceInv, TraceTypeOK
<1>3. PICK e : e = <<kind, address>>
  OBVIOUS
<1>4. /\ qemu = "running" /\ K > 0
      /\ run' = [run EXCEPT ![K].accesses = Append(@, e)]
      /\ trace' = Append(trace, Line(kind, run[K].pc, address, TRUE))
      /\ qemu' = qemu /\ UNCHANGED parseVars
  BY <1>1, <1>3 DEF Memory
<1>5. run \in Seq(Insn) /\ trace \in Seq(LineType)
  BY DEF TraceInv, TraceTypeOK
<1>6. DOMAIN run = 1 .. K /\ K \in 1 .. K
  BY <1>1, <1>4, <1>5
<1>7. PICK h \in Nat : h = 1
  OBVIOUS
<1>8. PICK J \in Nat : J = Size(K)
  BY <1>6, SizeIs DEF TraceInv
<1>9. /\ run[K] \in Insn /\ run[K].pc \in Pcs /\ run[K].accesses \in Seq(Access)
      /\ Len(run[K].accesses) \in Nat /\ Heading(K) \in Nat
      /\ J = Heading(K) + Len(run[K].accesses)
  <2>1. run[K] \in Insn
    <3> HIDE DEF Insn
    <3> QED
      BY <1>1, <1>5, <1>6, ElementOfSeq
  <2>2. K \in DOMAIN run
    BY <1>6
  <2> QED
    BY <1>8, <2>1, <2>2, SizeIs DEF TraceInv
<1>10. e \in Access /\ e[1] = kind /\ e[2] = address
  BY <1>3 DEF Access
<1> DEFINE acc == run[K].accesses
           more == Append(acc, e)
<1>11. /\ more \in Seq(Access) /\ Len(more) = Len(acc) + 1 /\ more[Len(acc) + 1] = e
       /\ \A a \in 1 .. Len(acc) : more[a] = acc[a]
  <2> HIDE DEF acc
  <2>1. acc \in Seq(Access)
    BY <1>9 DEF acc
  <2> QED
    BY <1>10, <2>1
<1>12. /\ DOMAIN run' = 1 .. K
       /\ run'[K] = [run[K] EXCEPT !.accesses = more]
       /\ \A k \in 1 .. K : k # K => run'[k] = run[k]
  BY <1>4, <1>6
<1> HIDE DEF more
<1>13. /\ run'[K] \in Insn /\ run'[K].pc = run[K].pc /\ run'[K].accesses = more
       /\ run'[K].snapshot = run[K].snapshot /\ run'[K].write = run[K].write
  BY <1>9, <1>11, <1>12
<1>14. run' \in Seq(Insn) /\ Len(run') = K
  <2> HIDE DEF Insn
  <2>1. \A k \in 1 .. K : run[k] \in Insn
    BY <1>1, <1>5, ElementOfSeq
  <2>2. \A k \in 1 .. K : run'[k] \in Insn
    BY <1>12, <1>13, <2>1
  <2>3. run' = [k \in 1 .. K |-> run'[k]]
    BY <1>4, <1>6
  <2>4. run' \in [1 .. K -> Insn]
    BY <2>2, <2>3
  <2> QED
    BY <2>4
<1> HIDE DEF acc
<1> DEFINE line == Line(kind, run[K].pc, address, TRUE)
<1>15. /\ line \in LineType /\ line.kind = kind /\ line.pc = run[K].pc /\ line.what = address /\ line.ok
  BY <1>9 DEF Line, LineType, Named
<1> HIDE DEF line
<1>16. trace' = Append(trace, line)
  BY <1>4 DEF line
<1>17. /\ trace' \in Seq(LineType) /\ Len(trace') = L + h /\ trace'[L + 1] = line
       /\ \A i \in 1 .. L : trace'[i] = trace[i]
  BY <1>2, <1>5, <1>7, <1>15, <1>16
<1>18. verdict' = verdict /\ executions' = executions /\ accesses' = accesses
  BY <1>4 DEF parseVars
<1>19. TraceTypeOK'
  <2>1. run' \in Seq([pc : Pcs, snapshot : BOOLEAN, write : BOOLEAN, accesses : Seq(Access)])
    BY <1>14
  <2> QED
    BY <1>4, <1>17, <1>18, <2>1 DEF TraceInv, TraceTypeOK
<1>20. \A k \in 1 .. K : /\ run'[k].pc = run[k].pc /\ run'[k].snapshot = run[k].snapshot
                         /\ run'[k].write = run[k].write
  BY <1>12, <1>13
<1>21. Marked'
  <2>1. ASSUME NEW k \in 1 .. K
        PROVE  /\ (run'[k].snapshot <=> Wants(run'[k].pc)) /\ (run'[k].write <=> run'[k].pc = WritePc)
               /\ run'[k].pc = TerminalPc => k = Len(run') /\ qemu' # "running"
    <3>1. k \in DOMAIN run
      BY <1>6
    <3>2. /\ (run[k].snapshot <=> Wants(run[k].pc)) /\ (run[k].write <=> run[k].pc = WritePc)
          /\ run[k].pc # TerminalPc
      BY <1>4, <3>1 DEF TraceInv, Marked
    <3> QED
      BY <1>20, <3>2
  <2>2. qemu' # "ended"
    BY <1>4
  <2>3. DOMAIN run' = 1 .. K
    BY <1>12
  <2> QED
    BY <2>1, <2>2, <2>3 DEF Marked, Wants
<1>22. Heading(K)' = Heading(K)
  BY <1>13 DEF Heading
<1>23. Size(K)' = J + h
  <2>1. Size(K)' = Heading(K)' + Len(run'[K].accesses)
    BY <1>4 DEF Size
  <2> QED
    BY <1>7, <1>9, <1>11, <1>13, <1>22, <2>1 DEF acc
<1>24. SizesGrow(K)
  <2> SUFFICES ASSUME NEW k \in DOMAIN run
               PROVE  /\ Size(k)' \in Nat /\ Size(k) <= Size(k)'
                      /\ k # K => Size(k)' = Size(k)
    BY DEF SizesGrow
  <2>1. CASE k = K
    BY <1>7, <1>8, <1>23, <2>1
  <2>2. CASE k # K
    <3>1. Size(k) \in Nat
      BY SizeIs DEF TraceInv
    <3>2. run'[k] = run[k]
      BY <1>6, <1>12, <2>2
    <3> QED
      BY <3>1, <3>2 DEF Size, Heading
  <2> QED
    BY <2>1, <2>2
<1>25. LinesKept(L)
  <2> SUFFICES ASSUME NEW k \in DOMAIN run, NEW j \in 1 .. Size(k), NEW i \in 1 .. L, Is(trace[i], k, j)
               PROVE  Is(trace[i], k, j)'
    BY DEF LinesKept
  <2>1. trace'[i] = trace[i]
    BY <1>17
  <2>2. /\ run'[k].pc = run[k].pc
        /\ \A a \in 1 .. Len(run[k].accesses) : run'[k].accesses[a] = run[k].accesses[a]
    BY <1>6, <1>11, <1>12, <1>13 DEF acc
  <2> QED
    BY <2>1, <2>2, IsKept DEF TraceInv
<1>26. LinesAdded(L, h, K, J)
  <2>1. /\ ~(J + 1 <= Heading(K)) /\ (J + 1) - Heading(K) = Len(acc) + 1
    BY <1>9 DEF acc
  <2>2. KindOf(K, J + 1)' = kind /\ WhatOf(K, J + 1)' = address
    BY <1>10, <1>11, <1>13, <1>22, <2>1 DEF KindOf, WhatOf
  <2>3. Is(trace[L + 1], K, J + 1)'
    BY <1>13, <1>15, <1>17, <2>2 DEF Is
  <2>4. \A i \in 1 .. h : i = 1
    BY <1>7
  <2> QED
    BY <2>3, <2>4 DEF LinesAdded
<1>27. Grown(L, h, K, J)
  <2>1. /\ qemu # "cut" /\ Len(trace)' = L + h /\ K = Len(run)' /\ Size(K)' = J + h /\ K # 0
        /\ (K = Len(run) /\ J = Size(K)) \/ (K = Len(run) + 1 /\ J = 0)
        /\ h # 0 /\ L = Len(trace) /\ executions' = executions
    BY <1>1, <1>2, <1>4, <1>7, <1>8, <1>14, <1>17, <1>18, <1>23
  <2>2. Lengths(L, h, K, J)
    BY <2>1 DEF Lengths
  <2> QED
    BY <1>24, <1>25, <1>26, <2>2 DEF Grown
<1> QED
  BY <1>4, <1>19, <1>21, <1>27, RunningStep

-------------------------------------------------------------------------------
(* The file ends early, and the steps of the parser that move no line.       *)

LEMMA RunStays ==
  ASSUME run' = run
  PROVE  /\ \A k : Heading(k)' = Heading(k) /\ Size(k)' = Size(k)
         /\ \A k, j : KindOf(k, j)' = KindOf(k, j) /\ WhatOf(k, j)' = WhatOf(k, j)
         /\ \A k, j, k2, j2 : NextLine(k, j, k2, j2)' <=> NextLine(k, j, k2, j2)
BY DEF Heading, Size, KindOf, WhatOf, NextLine

LEMMA RemainsIs ==
  ASSUME NEW line \in LineType, NEW rest \in Remains(line), line.ok \in BOOLEAN
  PROVE  /\ rest \in Seq(LineType) /\ (rest = <<>> \/ Len(rest) = 1)
         /\ rest # <<>> => /\ rest[1].kind = line.kind
                           /\ rest[1].kind = "E" \/ ~rest[1].ok \/ rest[1].pc = line.pc
<1> DEFINE Good(x) == /\ x \in LineType /\ x.kind = line.kind
                      /\ x.kind = "E" \/ ~x.ok \/ x.pc = line.pc
<1>1. rest = <<>> \/ \E x : rest = <<x>> /\ Good(x)
  <2>1. Good([line EXCEPT !.ok = FALSE])
    BY DEF LineType
  <2>2. \A pc \in Pcs : line.kind = "E" => Good([line EXCEPT !.pc = pc])
    BY DEF LineType
  <2>3. Good([line EXCEPT !.what = Garbled])
    BY DEF LineType, Garbled, Named
  <2> QED
    BY <2>1, <2>2, <2>3 DEF Remains
<1>2. CASE rest = <<>>
  BY <1>2
<1>3. ASSUME NEW x, rest = <<x>>, Good(x)
      PROVE  rest \in Seq(LineType) /\ Len(rest) = 1 /\ rest[1] = x
  BY <1>3
<1> QED
  BY <1>1, <1>2, <1>3

LEMMA OneMore ==
  ASSUME NEW S, NEW s \in Seq(S), NEW t \in Seq(S), Len(t) = 1
  PROVE  s \o t \in Seq(S) /\ Len(s \o t) = Len(s) + 1 /\ (s \o t)[Len(s) + 1] = t[1]
<1>0. /\ s \o t \in Seq(S) /\ Len(s \o t) = Len(s) + Len(t)
      /\ DOMAIN (s \o t) = 1 .. (Len(s) + Len(t))
      /\ \A k \in DOMAIN (s \o t) : (s \o t)[k] = IF k <= Len(s) THEN s[k] ELSE t[k - Len(s)]
      /\ DOMAIN s = 1 .. Len(s) /\ DOMAIN t = 1 .. Len(t) /\ Len(s) \in Nat /\ Len(t) \in Nat
  BY ConcatenationAt, Zenon
<1>1. /\ s \o t \in Seq(S) /\ Len(s \o t) = Len(s) + 1 /\ Len(s) \in Nat
      /\ \A k \in 1 .. Len(s) + 1 : (s \o t)[k] = IF k <= Len(s) THEN s[k] ELSE t[k - Len(s)]
  BY <1>0, Zenon
<1>2. Len(s) + 1 \in 1 .. Len(s) + 1 /\ (Len(s) + 1) - Len(s) = 1 /\ ~(Len(s) + 1 <= Len(s))
  <2>1. Len(s) \in Nat
    BY <1>1
  <2> QED
    BY <2>1
<1>3. (s \o t)[Len(s) + 1] = t[1]
  BY <1>1, <1>2
<1> QED
  BY <1>1, <1>3

LEMMA CutStep ==
  ASSUME TraceInv, NEW n \in 0 .. Len(trace) - 1, Cut(n)
  PROVE  TraceInv'
<1>1. PICK L \in Nat : L = Len(trace)
  BY DEF TraceInv, TraceTypeOK
<1>2. trace \in Seq(LineType) /\ n \in Nat /\ n < L /\ n + 1 \in 1 .. L
  BY <1>1 DEF TraceInv, TraceTypeOK
<1>3. PICK rest \in Remains(trace[n + 1]) : trace' = SubSeq(trace, 1, n) \o rest
  BY DEF Cut
<1>4. /\ qemu' = "cut" /\ verdict = "waiting" /\ run' = run /\ UNCHANGED parseVars
      /\ qemu \in {"running", "ended"}
  BY DEF Cut
<1> DEFINE line == trace[n + 1]
<1>5. line \in LineType
  BY <1>1, <1>2, ElementOfSeq
<1>6. /\ rest \in Seq(LineType) /\ (rest = <<>> \/ Len(rest) = 1)
      /\ rest # <<>> => /\ rest[1].kind = line.kind
                        /\ rest[1].kind = "E" \/ ~rest[1].ok \/ rest[1].pc = line.pc
  <2>1. line.ok \in BOOLEAN
    BY <1>5 DEF LineType
  <2> HIDE DEF line
  <2>2. rest \in Remains(line)
    BY <1>3 DEF line
  <2> QED
    BY <1>5, <2>1, <2>2, RemainsIs
<1> HIDE DEF line
<1>7. PICK s : s = SubSeq(trace, 1, n)
  OBVIOUS
<1>8. s \in Seq(LineType) /\ Len(s) = n /\ \A i \in 1 .. n : s[i] = trace[i]
  BY <1>1, <1>2, <1>7
<1>9. PICK M \in Nat : M = IF rest = <<>> THEN n ELSE n + 1
  BY <1>2
<1>10. /\ trace' \in Seq(LineType) /\ Len(trace') = M
       /\ \A i \in 1 .. n : trace'[i] = trace[i]
       /\ M = n + 1 => trace'[n + 1] = rest[1]
  <2>1. trace' = s \o rest
    BY <1>3, <1>7
  <2>2. CASE rest = <<>>
    BY <1>2, <1>8, <1>9, <2>1, <2>2
  <2>3. CASE rest # <<>>
    <3>1. Len(rest) = 1
      BY <1>6, <2>3
    <3>5. /\ s \o rest \in Seq(LineType) /\ Len(s \o rest) = Len(s) + 1
          /\ (s \o rest)[Len(s) + 1] = rest[1]
      BY <1>6, <1>8, <3>1, OneMore
    <3>0. rest \in Seq(LineType) /\ s \in Seq(LineType) /\ Len(s) = n /\ n \in Nat
      BY <1>2, <1>6, <1>8
    <3>2. s \o rest \in Seq(LineType) /\ Len(s \o rest) = n + 1
      BY <1>8, <3>5
    <3>3. (s \o rest)[n + 1] = rest[1]
      BY <1>8, <3>5
    <3>4. \A i \in 1 .. n : (s \o rest)[i] = s[i]
      BY <3>0, <3>1
    <3> QED
      BY <1>8, <1>9, <2>1, <2>3, <3>2, <3>3, <3>4
  <2> QED
    BY <2>2, <2>3
<1>11. /\ executions = <<>> /\ accesses = <<>> /\ outputs = <<>>
       /\ executions' = <<>> /\ accesses' = <<>> /\ outputs' = <<>> /\ verdict' = "waiting"
  BY <1>4 DEF TraceInv, Staged, parseVars
<1>12. TraceTypeOK'
  BY <1>4, <1>10, <1>11 DEF TraceInv, TraceTypeOK
<1>13. Marked'
  BY <1>4 DEF TraceInv, Marked, Wants
<1>14. Staged'
  BY <1>4, <1>11 DEF Staged
<1>15. Told'
  <2>1. 1 .. Len(executions') - 1 = {} /\ DOMAIN accesses' = {}
    BY <1>11
  <2> QED
    BY <1>11, <2>1 DEF Told
<1>16. PICK own, off : Path(own, off)
  BY DEF TraceInv, OnPath
<1>17. /\ own[0] = 0
       /\ \A i \in 0 .. L : /\ own[i] \in 0 .. Len(run) /\ off[i] \in Nat
                            /\ own[i] = 0 => off[i] = 0
                            /\ own[i] # 0 => off[i] \in 1 .. Size(own[i])
       /\ \A i \in 1 .. L : NextLine(own[i - 1], off[i - 1], own[i], off[i])
       /\ \A i \in 1 .. L : Is(trace[i], own[i], off[i])
  <2>1. own[0] = Len(executions) /\ Len(executions) = 0
    BY <1>11, <1>16, PathIs DEF TraceInv
  <2> QED
    BY <1>1, <1>4, <1>16, <2>1, PathIs DEF TraceInv
<1>18. PICK own2 : own2 = [i \in 0 .. M |-> own[i]]
  OBVIOUS
<1>19. PICK off2 : off2 = [i \in 0 .. M |-> off[i]]
  OBVIOUS
<1>20. \A i \in 0 .. M : i \in 0 .. L /\ own2[i] = own[i] /\ off2[i] = off[i]
  BY <1>2, <1>9, <1>18, <1>19
<1>21. own2 \in [0 .. M -> 0 .. Len(run)] /\ off2 \in [0 .. M -> Nat] /\ own2[0] = 0
  <2>1. \A i \in 0 .. M : own[i] \in 0 .. Len(run) /\ off[i] \in Nat
    BY <1>17, <1>20
  <2>2. 0 \in 0 .. M
    OBVIOUS
  <2> QED
    BY <1>17, <1>18, <1>19, <2>1, <2>2
<1>22. \A i \in 0 .. M : IF own2[i] = 0 THEN off2[i] = 0 ELSE off2[i] \in 1 .. Size(own2[i])'
  <2> SUFFICES ASSUME NEW i \in 0 .. M
               PROVE  IF own[i] = 0 THEN off[i] = 0 ELSE off[i] \in 1 .. Size(own[i])'
    BY <1>20
  <2>1. Size(own[i])' = Size(own[i]) /\ i \in 0 .. L
    BY <1>4, <1>20, RunStays
  <2> QED
    BY <1>17, <2>1
<1>23. ASSUME NEW i \in 1 .. M
       PROVE  /\ NextLine(own2[i - 1], off2[i - 1], own2[i], off2[i])'
              /\ \/ Is(trace[i], own2[i], off2[i])'
                 \/ i = M /\ Broken(trace[i], own2[i], off2[i])'
  <2> DEFINE k == own[i]
             j == off[i]
  <2>1. i \in 1 .. L /\ i \in 0 .. M /\ i - 1 \in 0 .. M
    BY <1>2, <1>9
  <2>2. /\ own2[i] = k /\ off2[i] = j
        /\ own2[i - 1] = own[i - 1] /\ off2[i - 1] = off[i - 1]
    BY <1>20, <2>1
  <2>3. NextLine(own[i - 1], off[i - 1], k, j) /\ Is(trace[i], k, j)
    BY <1>17, <2>1
  <2> HIDE DEF k, j
  <2>4. NextLine(own[i - 1], off[i - 1], k, j)'
    BY <1>4, <2>3, RunStays
  <2>5. KindOf(k, j)' = KindOf(k, j) /\ WhatOf(k, j)' = WhatOf(k, j)
    BY <1>4, RunStays
  <2>6. /\ trace[i].kind = KindOf(k, j) /\ trace[i].pc = run[k].pc /\ trace[i].what = WhatOf(k, j)
        /\ trace[i].ok \/ trace[i].kind \in {"W", "B"}
    BY <2>3 DEF Is
  <2>7. CASE i \in 1 .. n
    <3>1. trace'[i] = trace[i]
      BY <1>10, <2>7
    <3>2. Is(trace[i], k, j)'
      BY <1>4, <2>5, <2>6, <3>1 DEF Is
    <3> QED
      BY <2>2, <2>4, <3>2
  <2>8. CASE i \notin 1 .. n
    <3>1. i = n + 1 /\ M = n + 1 /\ rest # <<>>
      BY <1>2, <1>9, <2>8
    <3>2. trace'[i] = rest[1] /\ trace[i] = line
      BY <1>10, <3>1 DEF line
    <3>3. /\ trace'[i].kind = KindOf(k, j)'
          /\ trace'[i].kind = "E" \/ ~trace'[i].ok \/ trace'[i].pc = run'[k].pc
      BY <1>4, <1>6, <2>5, <2>6, <3>1, <3>2
    <3>4. Broken(trace[i], k, j)'
      BY <3>3 DEF Broken
    <3> QED
      BY <2>2, <2>4, <3>1, <3>4
  <2> QED
    BY <2>7, <2>8
<1>24. Path(own2, off2)'
  <2>1. own2[0] = Len(executions')
    BY <1>11, <1>21
  <2> QED
    BY <1>4, <1>10, <1>21, <1>22, <1>23, <2>1 DEF Path
<1>25. SoFar(own2[0], off2[0])'
  BY <1>11, <1>21 DEF SoFar
<1>26. OnPath'
  BY <1>24, <1>25 DEF OnPath
<1> QED
  BY <1>12, <1>13, <1>14, <1>15, <1>26 DEF TraceInv

LEMMA VerdictStep ==
  ASSUME TraceInv, Staged', verdict' \in {"waiting", "parsing", "parsed", "malformed"},
         UNCHANGED <<runVars, executions, registers, accesses, host_writes, outputs>>
  PROVE  TraceInv'
<1>1. /\ run' = run /\ qemu' = qemu /\ trace' = trace /\ executions' = executions
      /\ accesses' = accesses /\ outputs' = outputs
  BY DEF runVars
<1>2. TraceTypeOK'
  BY <1>1 DEF TraceInv, TraceTypeOK
<1>3. Marked'
  BY <1>1 DEF TraceInv, Marked, Wants
<1>4. Told'
  <2>1. \A i : Faithful(i)' <=> Faithful(i)
    BY <1>1 DEF Faithful, AccessesOf
  <2> QED
    BY <1>1, <2>1 DEF TraceInv, Told
<1>5. PICK own, off : Path(own, off) /\ (trace # <<>> \/ qemu # "cut" => SoFar(own[0], off[0]))
  BY DEF TraceInv, OnPath
<1>6. Path(own, off)'
  <2>1. \A k : Size(k)' = Size(k)
    BY <1>1, RunStays
  <2>2. \A k, j, k2, j2 : NextLine(k, j, k2, j2)' <=> NextLine(k, j, k2, j2)
    BY <1>1, RunStays
  <2>3. \A i, k, j : Is(trace[i], k, j)' <=> Is(trace[i], k, j)
    <3>1. \A k, j : KindOf(k, j)' = KindOf(k, j) /\ WhatOf(k, j)' = WhatOf(k, j)
      BY <1>1, RunStays
    <3> QED
      BY <1>1, <3>1 DEF Is
  <2>4. \A i, k, j : Broken(trace[i], k, j)' <=> Broken(trace[i], k, j)
    <3>1. \A k, j : KindOf(k, j)' = KindOf(k, j)
      BY <1>1, RunStays
    <3> QED
      BY <1>1, <3>1 DEF Broken
  <2> QED
    BY <1>1, <1>5, <2>1, <2>2, <2>3, <2>4 DEF Path
<1>7. SoFar(own[0], off[0])' <=> SoFar(own[0], off[0])
  BY <1>1 DEF SoFar, AccessesOf, Heading
<1>8. OnPath'
  BY <1>1, <1>5, <1>6, <1>7 DEF OnPath
<1> QED
  BY <1>2, <1>3, <1>4, <1>8 DEF TraceInv

\* Where the next line stands.
LEMMA FirstLine ==
  ASSUME TraceTypeOK, NEW own, NEW off, Path(own, off), trace # <<>>
  PROVE  /\ own[0] = Len(executions) /\ own[1] \in DOMAIN run /\ off[1] \in 1 .. Size(own[1])
         /\ off[0] \in Nat /\ own[0] \in 0 .. Len(run)
         /\ trace[1] \in LineType
         /\ trace[1].kind = KindOf(own[1], off[1])
         /\ trace[1].kind # "E" /\ trace[1].ok => trace[1].pc = run[own[1]].pc
         /\ trace[1].kind = "E" <=> off[1] = 1
         /\ off[1] = 1 => own[1] = own[0] + 1 /\ off[0] = Size(own[0])
         /\ off[1] # 1 => own[0] # 0 /\ own[1] = own[0] /\ off[1] = off[0] + 1
         /\ Is(trace[1], own[1], off[1]) \/ (qemu = "cut" /\ Len(trace) = 1)
<1>1. Len(trace) \in Nat /\ 1 \in 1 .. Len(trace) /\ 0 \in 0 .. Len(trace) /\ 1 \in 0 .. Len(trace)
      /\ 1 - 1 = 0
  BY DEF TraceTypeOK
<1>2. /\ own[0] = Len(executions) /\ Size(0) = 0
      /\ own[0] \in 0 .. Len(run) /\ off[0] \in Nat /\ Size(own[0]) \in Nat /\ off[0] <= Size(own[0])
      /\ own[0] = 0 => off[0] = 0
      /\ own[1] \in 0 .. Len(run) /\ off[1] \in Nat
      /\ own[1] # 0 => own[1] \in DOMAIN run /\ off[1] \in 1 .. Size(own[1])
  BY <1>1, PathIs
<1>3. /\ NextLine(own[0], off[0], own[1], off[1])
      /\ \/ Is(trace[1], own[1], off[1])
         \/ qemu = "cut" /\ 1 = Len(trace) /\ Broken(trace[1], own[1], off[1])
  BY <1>1, PathIs
<1>4. IF off[0] < Size(own[0]) THEN own[1] = own[0] /\ off[1] = off[0] + 1
      ELSE own[1] = own[0] + 1 /\ off[1] = 1
  BY <1>3 DEF NextLine
<1>5. /\ own[1] # 0
      /\ off[1] = 1 => own[1] = own[0] + 1 /\ off[0] = Size(own[0])
      /\ off[1] # 1 => own[0] # 0 /\ own[1] = own[0] /\ off[1] = off[0] + 1
  <2>1. CASE off[0] < Size(own[0])
    <3>1. own[0] # 0
      BY <1>2, <2>1
    <3>2. IF own[0] = 0 THEN off[0] = 0 ELSE off[0] \in 1 .. Size(own[0])
      BY <1>1, Zenon DEF Path
    <3>3. own[1] = own[0] /\ off[1] = off[0] + 1 /\ off[0] # 0
      BY <1>2, <1>4, <2>1, <3>1, <3>2
    <3> QED
      BY <1>2, <3>1, <3>3
  <2>2. CASE ~(off[0] < Size(own[0]))
    BY <1>2, <1>4, <2>2
  <2> QED
    BY <2>1, <2>2
<1>6. own[1] \in DOMAIN run /\ off[1] \in 1 .. Size(own[1])
  BY <1>2, <1>5
<1>7. trace[1] \in LineType
  BY <1>1, ElementOfSeq DEF TraceTypeOK
<1>8. trace[1].kind = KindOf(own[1], off[1])
  BY <1>3 DEF Is, Broken
<1>9. trace[1].kind # "E" /\ trace[1].ok => trace[1].pc = run[own[1]].pc
  BY <1>3 DEF Is, Broken
<1>10. trace[1].kind = "E" <=> off[1] = 1
  BY <1>6, <1>8, KindIs
<1> QED
  BY <1>2, <1>3, <1>5, <1>6, <1>7, <1>8, <1>9, <1>10

LEMMA RefuseStep ==
  ASSUME TraceInv, RefuseLine
  PROVE  TraceInv'
<1>1. /\ verdict = "parsing" /\ verdict' = "malformed" /\ trace # <<>> /\ Refused(trace[1])
      /\ UNCHANGED <<runVars, executions, registers, accesses, host_writes, outputs>>
  BY DEF RefuseLine
<1>2. PICK own, off : Path(own, off) /\ (trace # <<>> \/ qemu # "cut" => SoFar(own[0], off[0]))
  BY DEF TraceInv, OnPath
<1> DEFINE line == trace[1]
           k == own[1]
           j == off[1]
<1>3. /\ own[0] = Len(executions) /\ k \in DOMAIN run /\ j \in 1 .. Size(k) /\ off[0] \in Nat
      /\ line.kind = KindOf(k, j)
      /\ line.kind # "E" /\ line.ok => line.pc = run[k].pc
      /\ line.kind = "E" <=> j = 1
      /\ j # 1 => own[0] # 0 /\ k = own[0] /\ j = off[0] + 1
  BY <1>1, <1>2, FirstLine DEF TraceInv
<1>4. SoFar(own[0], off[0])
  BY <1>1, <1>2
<1> HIDE DEF line, k, j
<1>5. ASSUME line.ok PROVE FALSE
  <2>1. line.kind \in {"R", "L", "S", "B"}
    BY <1>1, <1>5 DEF Refused, line
  <2>2. own[0] # 0 /\ k = own[0] /\ j = off[0] + 1 /\ line.pc = run[k].pc
    BY <1>3, <1>5, <2>1
  <2>3. executions # <<>> /\ Len(executions) = k
    BY <1>3, <2>2
  <2>4. executions[k].pc = run[k].pc
    BY <1>4, <2>2 DEF SoFar
  <2>5. Follows(line)
    BY <2>2, <2>3, <2>4 DEF Follows, Latest
  <2>6. line.kind = "R" /\ executions[k].snapshot # <<>>
    BY <1>1, <1>5, <2>3, <2>5 DEF Refused, Latest, line
  <2>7. j = AtR(run[k].pc)
    BY <1>3, <2>6, KindIs DEF TraceInv
  <2>8. AtR(run[k].pc) \in Nat
    BY PlaceNumbers
  <2>9. ~(AtR(run[k].pc) <= off[0])
    BY <1>3, <2>2, <2>7, <2>8
  <2>10. executions[k].snapshot = When(run[k].snapshot /\ AtR(run[k].pc) <= off[0], <<k>>)
    BY <1>4, <2>2 DEF SoFar
  <2>11. executions[k].snapshot = <<>>
    BY <2>9, <2>10 DEF When
  <2> QED
    BY <2>6, <2>11
<1>6. Staged'
  <2>1. trace' = trace /\ qemu' = qemu
    BY <1>1 DEF runVars
  <2>2. ~trace'[1].ok
    BY <1>5, <2>1 DEF line
  <2> QED
    BY <1>1, <2>1, <2>2 DEF TraceInv, Staged
<1> QED
  BY <1>1, <1>6, VerdictStep

LEMMA BeginStep ==
  ASSUME TraceInv, BeginParse
  PROVE  TraceInv'
<1>1. /\ verdict' = "parsing" /\ qemu # "running"
      /\ UNCHANGED <<runVars, executions, registers, accesses, host_writes, outputs>>
  BY DEF BeginParse
<1>2. Staged'
  BY <1>1 DEF Staged, runVars
<1> QED
  BY <1>1, <1>2, VerdictStep

LEMMA EndStep ==
  ASSUME TraceInv, EndParse
  PROVE  TraceInv'
<1>1. /\ verdict = "parsing" /\ verdict' = "parsed" /\ trace = <<>>
      /\ UNCHANGED <<runVars, executions, registers, accesses, host_writes, outputs>>
  BY DEF EndParse
<1>2. Staged'
  BY <1>1 DEF TraceInv, Staged, runVars
<1> QED
  BY <1>1, <1>2, VerdictStep

-------------------------------------------------------------------------------
(* The parser takes a line.                                                  *)

LEMMA PathShifts ==
  ASSUME TraceTypeOK, NEW own, NEW off, Path(own, off), trace # <<>>,
         trace' = Tail(trace), run' = run, qemu' = qemu, Len(executions') = own[1]
  PROVE  \E own2, off2 : Path(own2, off2)' /\ own2[0] = own[1] /\ off2[0] = off[1]
<1>1. PICK L \in Nat : Len(trace) = L + 1
  <2>1. Len(trace) \in Nat /\ Len(trace) # 0
    BY DEF TraceTypeOK
  <2>2. Len(trace) - 1 \in Nat /\ Len(trace) = (Len(trace) - 1) + 1
    BY <2>1
  <2> QED
    BY <2>2
<1>2. trace' \in Seq(LineType) /\ Len(trace') = L /\ \A i \in 1 .. L : trace'[i] = trace[i + 1]
  BY <1>1 DEF TraceTypeOK
<1>3. /\ \A i \in 0 .. L + 1 :
           /\ own[i] \in 0 .. Len(run) /\ off[i] \in Nat
           /\ own[i] = 0 => off[i] = 0
           /\ own[i] # 0 => off[i] \in 1 .. Size(own[i])
      /\ \A i \in 1 .. L + 1 :
           /\ NextLine(own[i - 1], off[i - 1], own[i], off[i])
           /\ \/ Is(trace[i], own[i], off[i])
              \/ qemu = "cut" /\ i = L + 1 /\ Broken(trace[i], own[i], off[i])
      /\ qemu # "cut" => own[L + 1] = Len(run) /\ off[L + 1] = Size(Len(run))
  BY <1>1, PathIs
<1>4. PICK own2 : own2 = [i \in 0 .. L |-> own[i + 1]]
  OBVIOUS
<1>5. PICK off2 : off2 = [i \in 0 .. L |-> off[i + 1]]
  OBVIOUS
<1>6. \A i \in 0 .. L : i + 1 \in 0 .. L + 1 /\ own2[i] = own[i + 1] /\ off2[i] = off[i + 1]
  BY <1>4, <1>5
<1>7. own2 \in [0 .. L -> 0 .. Len(run)] /\ off2 \in [0 .. L -> Nat]
  <2>1. \A i \in 0 .. L : own[i + 1] \in 0 .. Len(run) /\ off[i + 1] \in Nat
    BY <1>3, <1>6
  <2> QED
    BY <1>4, <1>5, <2>1
<1>8. \A i \in 0 .. L : IF own2[i] = 0 THEN off2[i] = 0 ELSE off2[i] \in 1 .. Size(own2[i])'
  <2> SUFFICES ASSUME NEW i \in 0 .. L
               PROVE  IF own2[i] = 0 THEN off2[i] = 0 ELSE off2[i] \in 1 .. Size(own2[i])'
    OBVIOUS
  <2>1. Size(own2[i])' = Size(own2[i])
    BY RunStays
  <2>2. i + 1 \in 0 .. L + 1 /\ own2[i] = own[i + 1] /\ off2[i] = off[i + 1]
    BY <1>6
  <2>3. IF own[i + 1] = 0 THEN off[i + 1] = 0 ELSE off[i + 1] \in 1 .. Size(own[i + 1])
    BY <1>3, <2>2
  <2> QED
    BY <2>1, <2>2, <2>3
<1>9. ASSUME NEW i \in 1 .. L
      PROVE  /\ NextLine(own2[i - 1], off2[i - 1], own2[i], off2[i])'
             /\ \/ Is(trace[i], own2[i], off2[i])'
                \/ qemu' = "cut" /\ i = L /\ Broken(trace[i], own2[i], off2[i])'
  <2> DEFINE k == own2[i]
             j == off2[i]
  <2>1. /\ i + 1 \in 1 .. L + 1 /\ (i + 1) - 1 = i /\ (i - 1) + 1 = i
        /\ i \in 0 .. L /\ i - 1 \in 0 .. L /\ (i + 1 = L + 1 => i = L)
    OBVIOUS
  <2>2. /\ k = own[i + 1] /\ j = off[i + 1] /\ own2[i - 1] = own[i] /\ off2[i - 1] = off[i]
    BY <1>6, <2>1
  <2>3. /\ NextLine(own[(i + 1) - 1], off[(i + 1) - 1], own[i + 1], off[i + 1])
        /\ \/ Is(trace[i + 1], own[i + 1], off[i + 1])
           \/ qemu = "cut" /\ i + 1 = L + 1 /\ Broken(trace[i + 1], own[i + 1], off[i + 1])
    BY <1>3, <2>1, Zenon
  <2> HIDE DEF k, j
  <2>4. /\ NextLine(own2[i - 1], off2[i - 1], k, j)
        /\ Is(trace[i + 1], k, j) \/ (qemu = "cut" /\ i = L /\ Broken(trace[i + 1], k, j))
    BY <2>1, <2>2, <2>3
  <2>5. NextLine(own2[i - 1], off2[i - 1], k, j)'
    BY <2>4, RunStays
  <2>6. KindOf(k, j)' = KindOf(k, j) /\ WhatOf(k, j)' = WhatOf(k, j) /\ trace'[i] = trace[i + 1]
    BY <1>2, RunStays
  <2>7. Is(trace[i + 1], k, j) => Is(trace[i], k, j)'
    BY <2>6 DEF Is
  <2>8. Broken(trace[i + 1], k, j) => Broken(trace[i], k, j)'
    BY <2>6 DEF Broken
  <2> QED
    BY <2>4, <2>5, <2>7, <2>8 DEF k, j
<1>10. qemu' # "cut" => own2[L] = Len(run') /\ off2[L] = Size(Len(run))'
  <2>1. Size(Len(run))' = Size(Len(run))
    BY DEF Size, Heading
  <2>2. own2[L] = own[L + 1] /\ off2[L] = off[L + 1]
    BY <1>6
  <2> QED
    BY <1>3, <2>1, <2>2
<1>11. own2[0] = own[1] /\ off2[0] = off[1]
  <2>1. 0 \in 0 .. L /\ 0 + 1 = 1
    OBVIOUS
  <2> QED
    BY <1>6, <2>1
<1>12. Path(own2, off2)'
  BY <1>2, <1>7, <1>8, <1>9, <1>10, <1>11 DEF Path
<1> QED
  BY <1>11, <1>12

Execution == [pc : Pcs, snapshot : Seq(Named), writes : Seq(Named)]

\* What a line other than E changes.
LEMMA Effects ==
  ASSUME TraceTypeOK, NEW n \in Nat, n = Len(executions), n # 0,
         NEW line \in LineType, line.kind # "E", ~Refused(line), Parsed(line)
  PROVE  /\ executions' \in Seq(Execution) /\ Len(executions') = n
         /\ \A i \in 1 .. n : i # n => executions'[i] = executions[i]
         /\ executions'[n].pc = executions[n].pc
         /\ executions'[n].snapshot = IF line.kind = "R" THEN <<line.what>> ELSE executions[n].snapshot
         /\ executions'[n].writes = IF line.kind = "B" THEN Append(executions[n].writes, line.what)
                                    ELSE executions[n].writes
         /\ outputs' = IF line.kind = "O" THEN Append(outputs, line.what) ELSE outputs
         /\ accesses' = IF line.kind \in {"L", "S"}
                        THEN Append(accesses, [kind |-> line.kind, address |-> line.what, owner |-> n])
                        ELSE accesses
         /\ verdict' = verdict
<1>1. /\ executions \in Seq(Execution) /\ n \in 1 .. n /\ DOMAIN executions = 1 .. n
      /\ executions[n] \in Execution
  <2>1. executions \in Seq(Execution)
    BY DEF TraceTypeOK, Execution
  <2>2. n \in 1 .. n
    OBVIOUS
  <2> QED
    BY <2>1, <2>2, ElementOfSeq
<1>2. line.what \in Named /\ line.kind \in {"W", "B", "R", "O", "L", "S"}
  BY DEF LineType
<1>3. /\ executions[n].writes \in Seq(Named) /\ executions[n].snapshot \in Seq(Named)
      /\ executions[n].pc \in Pcs
  BY <1>1 DEF Execution
<1>4. <<line.what>> \in Seq(Named) /\ Append(executions[n].writes, line.what) \in Seq(Named)
  BY <1>2, <1>3
<1> DEFINE Kept == /\ executions' \in Seq(Execution) /\ Len(executions') = n
                   /\ \A i \in 1 .. n : i # n => executions'[i] = executions[i]
<1>5. ASSUME NEW x \in Execution, executions' = [executions EXCEPT ![n] = x]
      PROVE  Kept /\ executions'[n] = x
  BY <1>1, <1>5
<1>6. CASE line.kind = "R"
  <2>1. ParseR(line)
    BY <1>6 DEF Parsed
  <2> DEFINE x == [executions[n] EXCEPT !.snapshot = <<line.what>>]
  <2>2. x \in Execution /\ x.pc = executions[n].pc /\ x.snapshot = <<line.what>>
        /\ x.writes = executions[n].writes
    BY <1>1, <1>4 DEF Execution
  <2>3. executions' = [executions EXCEPT ![n] = x]
    BY <2>1 DEF ParseR
  <2>4. verdict' = verdict /\ accesses' = accesses /\ outputs' = outputs
    BY <2>1 DEF ParseR
  <2> HIDE DEF x, Kept
  <2>5. Kept /\ executions'[n] = x
    BY <1>5, <2>2, <2>3
  <2> QED
    BY <1>6, <2>2, <2>4, <2>5 DEF Kept
<1>7. CASE line.kind = "B"
  <2>1. ParseB(line)
    BY <1>7 DEF Parsed
  <2> DEFINE x == [executions[n] EXCEPT !.writes = Append(@, line.what)]
  <2>2. x \in Execution /\ x.pc = executions[n].pc /\ x.snapshot = executions[n].snapshot
        /\ x.writes = Append(executions[n].writes, line.what)
    BY <1>1, <1>4 DEF Execution
  <2>3. executions' = [executions EXCEPT ![n] = x]
    BY <2>1 DEF ParseB
  <2>4. verdict' = verdict /\ accesses' = accesses /\ outputs' = outputs
    BY <2>1 DEF ParseB
  <2> HIDE DEF x, Kept
  <2>5. Kept /\ executions'[n] = x
    BY <1>5, <2>2, <2>3
  <2> QED
    BY <1>7, <2>2, <2>4, <2>5 DEF Kept
<1>8. CASE line.kind \in {"L", "S"}
  <2>1. ParseAccess(line)
    BY <1>8 DEF Parsed
  <2> QED
    BY <1>1, <1>8, <2>1 DEF ParseAccess, Owner
<1>9. CASE line.kind = "O"
  <2>1. ParseO(line)
    BY <1>9 DEF Parsed
  <2> QED
    BY <1>1, <1>9, <2>1 DEF ParseO
<1>10. CASE line.kind = "W"
  <2>1. ParseW(line)
    BY <1>10 DEF Parsed
  <2> QED
    BY <1>1, <1>10, <2>1 DEF ParseW, parseVars
<1> QED
  BY <1>2, <1>6, <1>7, <1>8, <1>9, <1>10

\* Only the line that says it tells something of the instruction.
LEMMA Marks ==
  ASSUME TraceTypeOK, Marked, NEW k \in DOMAIN run, NEW o \in Nat, NEW j \in 1 .. Size(k), j = o + 1
  PROVE  LET pc == run[k].pc IN
         /\ IF KindOf(k, j) = "R" THEN run[k].snapshot /\ AtR(pc) <= j /\ ~(AtR(pc) <= o)
            ELSE run[k].snapshot /\ AtR(pc) <= j <=> run[k].snapshot /\ AtR(pc) <= o
         /\ IF KindOf(k, j) = "B" THEN run[k].write /\ AtB(pc) <= j /\ ~(AtB(pc) <= o)
            ELSE run[k].write /\ AtB(pc) <= j <=> run[k].write /\ AtB(pc) <= o
         /\ IF KindOf(k, j) = "O" THEN pc = TerminalPc /\ AtO(pc) <= j /\ ~(AtO(pc) <= o)
            ELSE pc = TerminalPc /\ AtO(pc) <= j <=> pc = TerminalPc /\ AtO(pc) <= o
         /\ KindOf(k, j) \in {"R", "B", "O"} => j <= Heading(k)
<1> DEFINE pc == run[k].pc
<1>1. (run[k].snapshot <=> Wants(pc)) /\ (run[k].write <=> pc = WritePc)
  BY DEF Marked
<1>2. /\ KindOf(k, j) = "B" <=> pc = WritePc /\ j = AtB(pc)
      /\ KindOf(k, j) = "R" <=> Wants(pc) /\ j = AtR(pc)
      /\ KindOf(k, j) = "O" <=> pc = TerminalPc /\ j = AtO(pc)
      /\ KindOf(k, j) \in {"L", "S"} <=> Heading(k) < j
  BY KindIs
<1>3. AtB(pc) \in Nat /\ AtR(pc) \in Nat /\ AtO(pc) \in Nat
  BY PlaceNumbers
<1>4. ASSUME NEW a \in Nat
      PROVE  /\ j = a => a <= j /\ ~(a <= o)
             /\ j # a => (a <= j <=> a <= o)
  OBVIOUS
<1>5. Heading(k) \in Nat
  BY SizeIs
<1>6. KindOf(k, j) \in {"R", "B", "O"} => j <= Heading(k)
  <2> SUFFICES ASSUME KindOf(k, j) \in {"R", "B", "O"} PROVE j <= Heading(k)
    OBVIOUS
  <2>1. ~(Heading(k) < j)
    BY <1>2
  <2> QED
    BY <1>5, <2>1
<1> HIDE DEF pc
<1>7. IF KindOf(k, j) = "R" THEN run[k].snapshot /\ AtR(pc) <= j /\ ~(AtR(pc) <= o)
      ELSE run[k].snapshot /\ AtR(pc) <= j <=> run[k].snapshot /\ AtR(pc) <= o
  <2>1. /\ j = AtR(pc) => AtR(pc) <= j /\ ~(AtR(pc) <= o)
        /\ j # AtR(pc) => (AtR(pc) <= j <=> AtR(pc) <= o)
    BY <1>3, <1>4
  <2> QED
    BY <1>1, <1>2, <2>1
<1>8. IF KindOf(k, j) = "B" THEN run[k].write /\ AtB(pc) <= j /\ ~(AtB(pc) <= o)
      ELSE run[k].write /\ AtB(pc) <= j <=> run[k].write /\ AtB(pc) <= o
  <2>1. /\ j = AtB(pc) => AtB(pc) <= j /\ ~(AtB(pc) <= o)
        /\ j # AtB(pc) => (AtB(pc) <= j <=> AtB(pc) <= o)
    BY <1>3, <1>4
  <2> QED
    BY <1>1, <1>2, <2>1
<1>9. IF KindOf(k, j) = "O" THEN pc = TerminalPc /\ AtO(pc) <= j /\ ~(AtO(pc) <= o)
      ELSE pc = TerminalPc /\ AtO(pc) <= j <=> pc = TerminalPc /\ AtO(pc) <= o
  <2>1. /\ j = AtO(pc) => AtO(pc) <= j /\ ~(AtO(pc) <= o)
        /\ j # AtO(pc) => (AtO(pc) <= j <=> AtO(pc) <= o)
    BY <1>3, <1>4
  <2> QED
    BY <1>1, <1>2, <2>1
<1> QED
  BY <1>6, <1>7, <1>8, <1>9 DEF pc

\* The lists of the accesses after a line.
LEMMA AccessesGrow ==
  ASSUME TraceTypeOK, NEW line \in LineType, NEW n \in Nat,
         accesses' = IF line.kind \in {"L", "S"}
                     THEN Append(accesses, [kind |-> line.kind, address |-> line.what, owner |-> n])
                     ELSE accesses
  PROVE  /\ accesses' \in Seq(Entry)
         /\ \A i : i # n => AccessesOf(i)' = AccessesOf(i)
         /\ AccessesOf(n)' = IF line.kind \in {"L", "S"} THEN Append(AccessesOf(n), <<line.kind, line.what>>)
                             ELSE AccessesOf(n)
         /\ \A a \in DOMAIN accesses' : \/ a \in DOMAIN accesses /\ accesses'[a] = accesses[a]
                                        \/ accesses'[a].owner = n
<1>1. accesses \in Seq(Entry)
  BY DEF TraceTypeOK, Entry
<1>2. CASE line.kind \in {"L", "S"}
  <2> DEFINE e == [kind |-> line.kind, address |-> line.what, owner |-> n]
  <2>1. e \in Entry /\ e.owner = n /\ e.kind = line.kind /\ e.address = line.what
    BY <1>2 DEF Entry, LineType
  <2>2. accesses' = Append(accesses, e)
    BY <1>2
  <2> HIDE DEF e
  <2>3. \A i : AccessesOf(i)' = IF e.owner = i THEN Append(AccessesOf(i), <<e.kind, e.address>>)
                               ELSE AccessesOf(i)
    <3> SUFFICES ASSUME NEW i
                 PROVE  AccessesOf(i)' = IF e.owner = i THEN Append(AccessesOf(i), <<e.kind, e.address>>)
                                        ELSE AccessesOf(i)
      OBVIOUS
    <3>1. FlattenSeq(Pieces(Append(accesses, e), i)) =
            IF e.owner = i THEN Append(FlattenSeq(Pieces(accesses, i)), <<e.kind, e.address>>)
            ELSE FlattenSeq(Pieces(accesses, i))
      BY <1>1, <2>1, AccessAppended
    <3>2. AccessesOf(i)' = FlattenSeq(Pieces(accesses', i))
      BY DEF AccessesOf, Pieces, PieceOf
    <3>3. AccessesOf(i) = FlattenSeq(Pieces(accesses, i))
      BY AccessesOfIs
    <3> QED
      BY <2>2, <3>1, <3>2, <3>3
  <2>4. accesses' \in Seq(Entry)
    BY <1>1, <2>1, <2>2
  <2>5. \A a \in DOMAIN accesses' : \/ a \in DOMAIN accesses /\ accesses'[a] = accesses[a]
                                    \/ accesses'[a].owner = n
    BY <1>1, <2>1, <2>2
  <2> QED
    BY <1>2, <2>1, <2>3, <2>4, <2>5
<1>3. CASE line.kind \notin {"L", "S"}
  <2>1. accesses' = accesses
    BY <1>3
  <2>2. \A i : AccessesOf(i)' = AccessesOf(i)
    BY <2>1 DEF AccessesOf
  <2> QED
    BY <1>1, <1>3, <2>1, <2>2
<1> QED
  BY <1>2, <1>3

LEMMA ParseSame ==
  ASSUME TraceInv, ParseLine, NEW own, NEW off, Path(own, off), SoFar(own[0], off[0]),
         trace[1].kind # "E"
  PROVE  /\ TraceTypeOK' /\ Told' /\ verdict' = verdict /\ Len(executions') = own[1]
         /\ Is(trace[1], own[1], off[1]) => SoFar(own[1], off[1])'
<1> DEFINE line == trace[1]
           o == off[0]
           k == own[1]
           j == off[1]
           pc == run[k].pc
<1>1. /\ trace # <<>> /\ ~Refused(line) /\ Parsed(line) /\ trace' = Tail(trace)
      /\ run' = run /\ qemu' = qemu
  BY DEF ParseLine
<1>2. /\ k = Len(executions) /\ k \in DOMAIN run /\ j \in 1 .. Size(k) /\ o \in Nat
      /\ line \in LineType /\ line.kind = KindOf(k, j) /\ k # 0 /\ j = o + 1 /\ k = own[0]
  BY <1>1, FirstLine DEF TraceInv
<1>3. SoFar(k, o)
  BY <1>2
<1> HIDE DEF line, k, j, o
<1>4. k \in Nat /\ run[k].accesses \in Seq(Access) /\ Heading(k) \in Nat
      /\ Size(k) = Heading(k) + Len(run[k].accesses) /\ Len(run[k].accesses) \in Nat
  BY <1>2, SizeIs DEF TraceInv
<1>5. /\ executions' \in Seq(Execution) /\ Len(executions') = k
      /\ \A i \in 1 .. k : i # k => executions'[i] = executions[i]
      /\ executions'[k].pc = executions[k].pc
      /\ executions'[k].snapshot = IF line.kind = "R" THEN <<line.what>> ELSE executions[k].snapshot
      /\ executions'[k].writes = IF line.kind = "B" THEN Append(executions[k].writes, line.what)
                                 ELSE executions[k].writes
      /\ outputs' = IF line.kind = "O" THEN Append(outputs, line.what) ELSE outputs
      /\ accesses' = IF line.kind \in {"L", "S"}
                     THEN Append(accesses, [kind |-> line.kind, address |-> line.what, owner |-> k])
                     ELSE accesses
      /\ verdict' = verdict
  <2>1. line.kind # "E"
    BY DEF line
  <2> QED
    BY <1>1, <1>2, <1>4, <2>1, Effects DEF TraceInv
<1>6. /\ accesses' \in Seq(Entry)
      /\ \A i : i # k => AccessesOf(i)' = AccessesOf(i)
      /\ AccessesOf(k)' = IF line.kind \in {"L", "S"} THEN Append(AccessesOf(k), <<line.kind, line.what>>)
                          ELSE AccessesOf(k)
      /\ \A a \in DOMAIN accesses' : \/ a \in DOMAIN accesses /\ accesses'[a] = accesses[a]
                                     \/ accesses'[a].owner = k
  <2>1. accesses' = IF line.kind \in {"L", "S"}
                    THEN Append(accesses, [kind |-> line.kind, address |-> line.what, owner |-> k])
                    ELSE accesses
    BY <1>5
  <2> QED
    BY <1>2, <1>4, <2>1, AccessesGrow DEF TraceInv
<1>7. TraceTypeOK'
  <2>1. trace' \in Seq(LineType)
    BY <1>1 DEF TraceInv, TraceTypeOK
  <2> QED
    BY <1>1, <1>5, <1>6, <2>1 DEF TraceInv, TraceTypeOK, Execution, Entry
<1>8. /\ executions[k].pc = pc
      /\ executions[k].snapshot = When(run[k].snapshot /\ AtR(pc) <= o, <<k>>)
      /\ executions[k].writes = When(run[k].write /\ AtB(pc) <= o, <<k>>)
      /\ Len(AccessesOf(k)) = IF o <= Heading(k) THEN 0 ELSE o - Heading(k)
      /\ \A a \in 1 .. Len(AccessesOf(k)) : AccessesOf(k)[a] = run[k].accesses[a]
      /\ outputs = When(pc = TerminalPc /\ AtO(pc) <= o, <<k>>)
  BY <1>2, <1>3 DEF SoFar
<1>9. /\ IF line.kind = "R" THEN run[k].snapshot /\ AtR(pc) <= j /\ ~(AtR(pc) <= o)
         ELSE run[k].snapshot /\ AtR(pc) <= j <=> run[k].snapshot /\ AtR(pc) <= o
      /\ IF line.kind = "B" THEN run[k].write /\ AtB(pc) <= j /\ ~(AtB(pc) <= o)
         ELSE run[k].write /\ AtB(pc) <= j <=> run[k].write /\ AtB(pc) <= o
      /\ IF line.kind = "O" THEN pc = TerminalPc /\ AtO(pc) <= j /\ ~(AtO(pc) <= o)
         ELSE pc = TerminalPc /\ AtO(pc) <= j <=> pc = TerminalPc /\ AtO(pc) <= o
      /\ line.kind \in {"R", "B", "O"} => j <= Heading(k)
  BY <1>2, Marks DEF TraceInv
<1>10. Told'
  <2>1. ASSUME NEW i \in 1 .. Len(executions') - 1 PROVE Faithful(i)'
    <3>1. i \in 1 .. Len(executions) - 1 /\ i \in 1 .. k /\ i # k
      BY <1>2, <1>4, <1>5
    <3>2. Faithful(i)
      BY <3>1 DEF TraceInv, Told
    <3>3. executions'[i] = executions[i] /\ AccessesOf(i)' = AccessesOf(i)
      BY <1>5, <1>6, <3>1
    <3> QED
      BY <1>1, <3>2, <3>3 DEF Faithful
  <2>2. outputs' # <<>> => Len(executions') = Len(run')
    <3>1. CASE line.kind = "O"
      <4>1. pc = TerminalPc
        BY <1>9, <3>1
      <4>2. k = Len(run)
        BY <1>2, <4>1 DEF TraceInv, Marked
      <4> QED
        BY <1>1, <1>5, <4>2
    <3>2. CASE line.kind # "O"
      BY <1>1, <1>2, <1>5, <3>2 DEF TraceInv, Told
    <3> QED
      BY <3>1, <3>2
  <2>3. \A a \in DOMAIN accesses' : accesses'[a].owner \in 1 .. Len(executions')
    <3>1. \A a \in DOMAIN accesses : accesses[a].owner \in 1 .. k
      BY <1>2 DEF TraceInv, Told
    <3>2. k \in 1 .. k
      BY <1>2, <1>4
    <3> QED
      BY <1>5, <1>6, <3>1, <3>2
  <2> QED
    BY <2>1, <2>2, <2>3 DEF Told
<1>11. ASSUME Is(line, k, j) PROVE SoFar(k, j)'
  <2>1. line.kind \in {"R", "B", "O"} => line.what = k
    BY <1>9, <1>11 DEF Is, WhatOf
  <2> HIDE DEF pc
  <2>2. executions'[k].snapshot = When(run[k].snapshot /\ AtR(pc) <= j, <<k>>)
    <3>1. CASE line.kind = "R"
      BY <1>5, <1>9, <2>1, <3>1 DEF When
    <3>2. CASE line.kind # "R"
      BY <1>5, <1>8, <1>9, <3>2 DEF When
    <3> QED
      BY <3>1, <3>2
  <2>3. executions'[k].writes = When(run[k].write /\ AtB(pc) <= j, <<k>>)
    <3>1. CASE line.kind = "B"
      <4>1. executions[k].writes = <<>>
        BY <1>8, <1>9, <3>1 DEF When
      <4>2. executions'[k].writes = <<k>>
        BY <1>5, <2>1, <3>1, <4>1
      <4> QED
        BY <1>9, <3>1, <4>2 DEF When
    <3>2. CASE line.kind # "B"
      BY <1>5, <1>8, <1>9, <3>2 DEF When
    <3> QED
      BY <3>1, <3>2
  <2>4. outputs' = When(pc = TerminalPc /\ AtO(pc) <= j, <<k>>)
    <3>1. CASE line.kind = "O"
      <4>1. outputs = <<>>
        BY <1>8, <1>9, <3>1 DEF When
      <4>2. outputs' = <<k>>
        BY <1>5, <2>1, <3>1, <4>1
      <4> QED
        BY <1>9, <3>1, <4>2 DEF When
    <3>2. CASE line.kind # "O"
      BY <1>5, <1>8, <1>9, <3>2 DEF When
    <3> QED
      BY <3>1, <3>2
  <2> DEFINE got == AccessesOf(k)
             now == AccessesOf(k)'
             acc == run[k].accesses
  <2>5. got \in Seq({"L", "S"} \X Named) /\ Len(got) \in Nat
    BY AccessesTyped DEF TraceInv
  <2>6. /\ Len(now) = IF j <= Heading(k) THEN 0 ELSE j - Heading(k)
        /\ \A a \in 1 .. Len(now) : now[a] = acc[a]
    <3>1. CASE line.kind \in {"L", "S"}
      <4>1. Heading(k) < j
        BY <1>2, <3>1, KindIs DEF TraceInv
      <4>2. PICK a \in Nat : a = j - Heading(k)
        BY <1>2, <1>4, <4>1
      <4>3. a \in 1 .. Len(acc) /\ Len(got) = a - 1 /\ ~(j <= Heading(k))
        BY <1>2, <1>4, <1>8, <4>1, <4>2
      <4> DEFINE e == <<line.kind, line.what>>
      <4>4. acc[a] = e
        <5>1. acc[a] \in Access
          BY <1>4, <4>3
        <5>2. line.kind = acc[a][1] /\ line.what = acc[a][2]
          BY <1>11, <4>2, <4>3 DEF Is, KindOf, WhatOf
        <5>3. acc[a] = <<acc[a][1], acc[a][2]>>
          BY <5>1 DEF Access
        <5> QED
          BY <5>2, <5>3
      <4>5. e \in {"L", "S"} \X Named
        BY <1>2, <3>1 DEF LineType
      <4>6. now = Append(got, e)
        BY <1>6, <3>1
      <4> HIDE DEF e, got, now, acc
      <4>7. Len(now) = a /\ now[a] = e /\ \A b \in 1 .. a - 1 : now[b] = got[b]
        BY <2>5, <4>3, <4>5, <4>6
      <4>8. \A b \in 1 .. a - 1 : got[b] = acc[b]
        BY <1>8, <4>3 DEF got, acc
      <4>9. \A b \in 1 .. a : b = a \/ b \in 1 .. a - 1
        OBVIOUS
      <4>10. \A b \in 1 .. Len(now) : now[b] = acc[b]
        BY <4>4, <4>7, <4>8, <4>9
      <4> QED
        BY <4>2, <4>3, <4>7, <4>10
    <3>2. CASE line.kind \notin {"L", "S"}
      <4>1. ~(Heading(k) < j)
        BY <1>2, <3>2, KindIs DEF TraceInv
      <4>2. j <= Heading(k) /\ o <= Heading(k)
        BY <1>2, <1>4, <4>1
      <4>3. now = got
        BY <1>6, <3>2
      <4> QED
        BY <1>8, <4>2, <4>3
    <3> QED
      BY <3>1, <3>2
  <2>7. executions'[k].pc = run'[k].pc /\ Heading(k)' = Heading(k) /\ pc = run'[k].pc
    BY <1>1, <1>5, <1>8 DEF Heading, pc
  <2> QED
    BY <1>1, <1>2, <2>2, <2>3, <2>4, <2>6, <2>7 DEF SoFar, pc
<1> QED
  BY <1>5, <1>7, <1>10, <1>11 DEF line, k, j

LEMMA ParseNew ==
  ASSUME TraceInv, ParseLine, NEW own, NEW off, Path(own, off), SoFar(own[0], off[0]),
         trace[1].kind = "E"
  PROVE  /\ TraceTypeOK' /\ Told' /\ verdict' = verdict /\ Len(executions') = own[1]
         /\ Is(trace[1], own[1], off[1]) => SoFar(own[1], off[1])'
<1> DEFINE line == trace[1]
           m == own[0]
           k == own[1]
           j == off[1]
           x == [pc |-> line.pc, snapshot |-> <<>>, writes |-> <<>>]
<1>1. /\ trace # <<>> /\ ~Refused(line) /\ Parsed(line) /\ trace' = Tail(trace)
      /\ run' = run /\ qemu' = qemu
  BY DEF ParseLine
<1>2. /\ m = Len(executions) /\ k \in DOMAIN run /\ j = 1 /\ m \in 0 .. Len(run)
      /\ line \in LineType /\ k = m + 1 /\ off[0] = Size(m)
  BY <1>1, FirstLine DEF TraceInv
<1>3. SoFar(m, Size(m))
  BY <1>2
<1> HIDE DEF line, k, j, m
<1>4. ParseE(line)
  BY <1>1 DEF Parsed, line
<1>5. /\ executions' = Append(executions, x) /\ verdict' = verdict /\ accesses' = accesses
      /\ outputs' = outputs
  BY <1>4 DEF ParseE
<1>6. x \in Execution /\ x.pc = line.pc /\ x.snapshot = <<>> /\ x.writes = <<>>
  <2>1. <<>> \in Seq(Named)
    OBVIOUS
  <2> QED
    BY <1>2, <2>1 DEF Execution, LineType
<1> HIDE DEF x
<1>7. executions \in Seq(Execution) /\ m \in Nat
  BY <1>2 DEF TraceInv, TraceTypeOK, Execution
<1>8. /\ executions' \in Seq(Execution) /\ Len(executions') = k /\ executions'[k] = x
      /\ \A i \in 1 .. m : executions'[i] = executions[i]
  BY <1>2, <1>5, <1>6, <1>7
<1>9. TraceTypeOK'
  <2>1. trace' \in Seq(LineType)
    BY <1>1 DEF TraceInv, TraceTypeOK
  <2> QED
    BY <1>1, <1>5, <1>8, <2>1 DEF TraceInv, TraceTypeOK, Execution
<1>10. k \in Nat /\ k <= Len(run) /\ Len(run) \in Nat
  BY <1>2, SizeIs DEF TraceInv
<1>11. outputs = <<>> /\ (m # 0 => Faithful(m))
  <2>1. CASE m = 0
    BY <1>3, <2>1 DEF SoFar
  <2>2. CASE m # 0
    <3>1. m \in DOMAIN run
      <4>1. m \in 1 .. Len(run)
        BY <1>2, <1>7, <1>10, <2>2
      <4> QED
        BY <4>1 DEF TraceInv, TraceTypeOK
    <3>2. Faithful(m) /\ outputs = When(run[m].pc = TerminalPc, <<m>>)
      BY <1>3, <3>1, SoFarFaithful DEF TraceInv
    <3>3. run[m].pc # TerminalPc
      <4>1. m # Len(run)
        BY <1>2, <1>7, <1>10
      <4> QED
        BY <3>1, <4>1 DEF TraceInv, Marked
    <3> QED
      BY <3>2, <3>3 DEF When
  <2> QED
    BY <2>1, <2>2
<1>12. \A i : AccessesOf(i)' = AccessesOf(i)
  BY <1>5 DEF AccessesOf
<1>13. \A a \in DOMAIN accesses : accesses[a].owner \in 1 .. m
  BY <1>2 DEF TraceInv, Told
<1>14. Told'
  <2>1. ASSUME NEW i \in 1 .. Len(executions') - 1 PROVE Faithful(i)'
    <3>1. i \in 1 .. m /\ i \in Int
      BY <1>2, <1>7, <1>8
    <3>2. Faithful(i)
      <4>1. CASE i = m
        BY <1>7, <1>11, <3>1, <4>1
      <4>2. CASE i # m
        <5>1. i \in 1 .. m - 1
          BY <1>7, <3>1, <4>2
        <5> QED
          BY <1>2, <5>1 DEF TraceInv, Told
      <4> QED
        BY <4>1, <4>2
    <3>3. executions'[i] = executions[i] /\ AccessesOf(i)' = AccessesOf(i)
      BY <1>8, <1>12, <3>1
    <3> QED
      BY <1>1, <3>2, <3>3 DEF Faithful
  <2>2. \A a \in DOMAIN accesses' : accesses'[a].owner \in 1 .. Len(executions')
    <3>1. \A a \in 1 .. m : a \in 1 .. k
      BY <1>2, <1>7
    <3> QED
      BY <1>5, <1>8, <1>13, <3>1
  <2> QED
    BY <1>5, <1>11, <2>1, <2>2 DEF Told
<1>15. ASSUME Is(line, k, j) PROVE SoFar(k, j)'
  <2> DEFINE pc == run[k].pc
  <2>1. line.pc = pc
    BY <1>15 DEF Is
  <2> HIDE DEF pc
  <2>2. /\ ~(AtR(pc) <= j) /\ ~(AtB(pc) <= j) /\ ~(AtO(pc) <= j)
    <3>1. /\ AtB(pc) \in Nat /\ AtR(pc) \in Nat /\ AtO(pc) \in Nat
          /\ 2 <= AtB(pc) /\ AtB(pc) <= AtR(pc) /\ AtR(pc) <= AtO(pc)
      BY PlaceNumbers
    <3> QED
      BY <1>2, <3>1
  <2>3. /\ executions'[k].pc = pc
        /\ executions'[k].snapshot = When(run[k].snapshot /\ AtR(pc) <= j, <<k>>)
        /\ executions'[k].writes = When(run[k].write /\ AtB(pc) <= j, <<k>>)
        /\ outputs' = When(pc = TerminalPc /\ AtO(pc) <= j, <<k>>)
    BY <1>5, <1>6, <1>8, <1>11, <2>1, <2>2 DEF When
  <2>4. AccessesOf(k)' = <<>>
    <3>1. \A a \in DOMAIN accesses : accesses[a].owner # k
      <4>1. k \notin 1 .. m
        BY <1>2, <1>7
      <4> QED
        BY <1>13, <4>1
    <3>2. AccessesOf(k) = <<>>
      BY <3>1, AccessesTyped DEF TraceInv
    <3> QED
      BY <1>12, <3>2
  <2>5. j <= Heading(k)' /\ k # 0
    <3>1. Heading(k)' = Heading(k) /\ 1 <= Heading(k) /\ k # 0
      BY <1>1, <1>2, SizeIs, RunStays DEF TraceInv
    <3> QED
      BY <1>2, <3>1
  <2>6. /\ Len(AccessesOf(k)') = IF j <= Heading(k)' THEN 0 ELSE j - Heading(k)'
        /\ \A a \in 1 .. Len(AccessesOf(k)') : AccessesOf(k)'[a] = run'[k].accesses[a]
    BY <2>4, <2>5
  <2> QED
    BY <1>1, <2>3, <2>5, <2>6 DEF SoFar, pc
<1> QED
  BY <1>5, <1>8, <1>9, <1>14, <1>15 DEF line, k, j

LEMMA ParseStep ==
  ASSUME TraceInv, ParseLine
  PROVE  TraceInv'
<1>1. /\ verdict = "parsing" /\ trace # <<>> /\ trace' = Tail(trace) /\ run' = run /\ qemu' = qemu
  BY DEF ParseLine
<1>2. PICK own, off : Path(own, off) /\ SoFar(own[0], off[0])
  BY <1>1 DEF TraceInv, OnPath
<1>3. /\ TraceTypeOK' /\ Told' /\ verdict' = verdict /\ Len(executions') = own[1]
      /\ Is(trace[1], own[1], off[1]) => SoFar(own[1], off[1])'
  <2>1. CASE trace[1].kind = "E"
    BY <1>2, <2>1, ParseNew
  <2>2. CASE trace[1].kind # "E"
    BY <1>2, <2>2, ParseSame
  <2> QED
    BY <2>1, <2>2
<1>4. PICK own2, off2 : Path(own2, off2)' /\ own2[0] = own[1] /\ off2[0] = off[1]
  BY <1>1, <1>2, <1>3, PathShifts DEF TraceInv
<1>5. trace' # <<>> \/ qemu' # "cut" => Is(trace[1], own[1], off[1])
  <2>1. Is(trace[1], own[1], off[1]) \/ (qemu = "cut" /\ Len(trace) = 1)
    BY <1>1, <1>2, FirstLine DEF TraceInv
  <2>2. Len(trace) = 1 => trace' = <<>>
    BY <1>1, TailShort DEF TraceInv, TraceTypeOK
  <2> QED
    BY <1>1, <2>1, <2>2
<1>6. OnPath'
  <2>1. trace' # <<>> \/ qemu' # "cut" => SoFar(own2[0], off2[0])'
    BY <1>3, <1>4, <1>5
  <2> QED
    BY <1>4, <2>1 DEF OnPath
<1>7. Marked'
  BY <1>1 DEF TraceInv, Marked, Wants
<1>8. Staged'
  BY <1>1, <1>3 DEF TraceInv, Staged
<1> QED
  BY <1>3, <1>6, <1>7, <1>8 DEF TraceInv

-------------------------------------------------------------------------------
(* The invariant, and what it says of the result.                            *)

LEMMA TraceStarts == TraceInit => TraceInv
<1> SUFFICES ASSUME TraceInit PROVE TraceInv
  OBVIOUS
<1>1. /\ run = <<>> /\ qemu = "running" /\ trace = <<>> /\ verdict = "waiting"
      /\ executions = <<>> /\ accesses = <<>> /\ outputs = <<>>
  BY DEF TraceInit
<1>2. TraceTypeOK
  BY <1>1 DEF TraceTypeOK
<1>3. Marked
  BY <1>1 DEF Marked
<1>4. Told
  BY <1>1 DEF Told
<1>5. Staged
  BY <1>1 DEF Staged
<1>6. PICK f : f = [i \in 0 .. 0 |-> 0]
  OBVIOUS
<1>7. Path(f, f)
  <2>1. Len(trace) = 0 /\ Len(run) = 0 /\ Len(executions) = 0 /\ Size(0) = 0
    BY <1>1 DEF Size
  <2>2. f \in [0 .. 0 -> 0 .. 0] /\ f \in [0 .. 0 -> Nat] /\ f[0] = 0 /\ \A i \in 0 .. 0 : f[i] = 0
    BY <1>6
  <2>3. 1 .. 0 = {}
    OBVIOUS
  <2> QED
    BY <2>1, <2>2, <2>3 DEF Path
<1>8. SoFar(f[0], f[0])
  <2>1. f[0] = 0
    BY <1>6
  <2> QED
    BY <1>1, <2>1 DEF SoFar
<1>9. OnPath
  BY <1>7, <1>8 DEF OnPath
<1> QED
  BY <1>2, <1>3, <1>4, <1>5, <1>9 DEF TraceInv

LEMMA TraceStep == TraceInv /\ [TraceNext]_traceVars => TraceInv'
<1> SUFFICES ASSUME TraceInv, [TraceNext]_traceVars PROVE TraceInv'
  OBVIOUS
<1>1. ASSUME NEW pc \in Pcs, NEW readable \in BOOLEAN, Execute(pc, readable) PROVE TraceInv'
  BY <1>1, ExecuteStep
<1>2. ASSUME NEW kind \in {"L", "S"}, NEW a \in Addresses, Memory(kind, a) PROVE TraceInv'
  BY <1>2, MemoryStep
<1>3. ASSUME NEW n \in 0 .. Len(trace) - 1, Cut(n) PROVE TraceInv'
  BY <1>3, CutStep
<1>4. CASE BeginParse
  BY <1>4, BeginStep
<1>5. CASE ParseLine
  BY <1>5, ParseStep
<1>6. CASE RefuseLine
  BY <1>6, RefuseStep
<1>7. CASE EndParse
  BY <1>7, EndStep
<1>8. CASE UNCHANGED traceVars
  <2>1. UNCHANGED <<runVars, executions, registers, accesses, host_writes, outputs>> /\ verdict' = verdict
    BY <1>8 DEF traceVars, parseVars
  <2>2. Staged'
    BY <2>1 DEF TraceInv, Staged, runVars
  <2>3. verdict' \in {"waiting", "parsing", "parsed", "malformed"}
    BY <2>1 DEF TraceInv, TraceTypeOK
  <2> QED
    BY <2>1, <2>2, <2>3, VerdictStep
<1> QED
  BY <1>1, <1>2, <1>3, <1>4, <1>5, <1>6, <1>7, <1>8 DEF TraceNext

LEMMA InvIsFaithful == TraceInv => TraceIsFaithful
<1> SUFFICES ASSUME TraceInv, verdict = "parsed"
             PROVE  /\ \A i \in 1 .. Len(executions) - 1 : Faithful(i)
                    /\ outputs # <<>> => Len(executions) = Len(run)
                    /\ qemu = "ended" =>
                         /\ Len(executions) = Len(run) /\ \A i \in DOMAIN run : Faithful(i)
                         /\ outputs = <<Len(run)>>
  BY DEF TraceIsFaithful
<1>1. /\ \A i \in 1 .. Len(executions) - 1 : Faithful(i)
      /\ outputs # <<>> => Len(executions) = Len(run)
  BY DEF TraceInv, Told
<1>2. ASSUME qemu = "ended"
      PROVE  /\ Len(executions) = Len(run) /\ \A i \in DOMAIN run : Faithful(i)
             /\ outputs = <<Len(run)>>
  <2>1. PICK N \in Nat : N = Len(run)
    BY DEF TraceInv, TraceTypeOK
  <2>2. N \in DOMAIN run /\ run[N].pc = TerminalPc
    <3>1. N > 0 /\ run[N].pc = TerminalPc
      BY <1>2, <2>1 DEF TraceInv, Marked
    <3>2. N \in 1 .. N
      BY <3>1
    <3> QED
      BY <2>1, <3>1, <3>2 DEF TraceInv, TraceTypeOK
  <2>3. Len(trace) = 0
    BY DEF TraceInv, Staged
  <2>4. PICK own, off : Path(own, off) /\ SoFar(own[0], off[0])
    BY <1>2 DEF TraceInv, OnPath
  <2>5. own[0] = N /\ off[0] = Size(N) /\ Len(executions) = N
    BY <1>2, <2>1, <2>3, <2>4, PathIs DEF TraceInv
  <2>6. Faithful(N) /\ outputs = When(run[N].pc = TerminalPc, <<N>>)
    BY <2>2, <2>4, <2>5, SoFarFaithful DEF TraceInv
  <2>7. ASSUME NEW i \in DOMAIN run PROVE Faithful(i)
    <3>1. i \in 1 .. N
      BY <2>1 DEF TraceInv, TraceTypeOK
    <3>2. i = N \/ i \in 1 .. N - 1
      BY <3>1
    <3> QED
      BY <1>1, <2>5, <2>6, <3>2
  <2> QED
    BY <2>1, <2>2, <2>5, <2>6, <2>7 DEF When
<1> QED
  BY <1>1, <1>2

\* A trace that is accepted says of every executed instruction but the last what
\* the machine did, and of the last one too when the file is complete, for all
\* program counters, snapshots, runs and cuts (execute, memory, parse_trace).
THEOREM TraceTheorem == TraceSpec => []TraceIsFaithful
<1>1. TraceSpec => []TraceInv
  BY TraceStarts, TraceStep, PTL DEF TraceSpec
<1> QED
  BY <1>1, InvIsFaithful, PTL

\* parse_trace raises only at a line that is broken or says <unreadable>, never
\* because of the order in which the callbacks write.
THEOREM RefusalTheorem == TraceSpec => []OnlyBrokenLinesRefused
<1>1. TraceSpec => []TraceInv
  BY TraceStarts, TraceStep, PTL DEF TraceSpec
<1>2. TraceInv => OnlyBrokenLinesRefused
  BY DEF TraceInv, Staged, OnlyBrokenLinesRefused
<1> QED
  BY <1>1, <1>2, PTL

===============================================================================
