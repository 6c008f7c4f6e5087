------------------------------ MODULE RuntimeProofs ------------------------------
(***************************************************************************)
(* The runtime of the program under every input.  The memory functions are *)
(* right for every size of memory, every overlap and every argument.  The  *)
(* runtime on an operating system implements Host, for every buffer and    *)
(* every way in which the kernel answers; so does the host without an      *)
(* operating system, and the two agree.                                    *)
(***************************************************************************)
EXTENDS Retarget, MemoryFunctions, SequenceLemmas

-------------------------------------------------------------------------------
(* The memory functions.                                                     *)

\* Is the byte at dst + j copied already?
Copied(j) == IF Backward THEN j >= k ELSE j < k

(* What the loops have done so far, in terms of the memory at the call.    *)
CopyInv ==
  op \in {"memcpy", "memmove"} =>
    \A a \in Addresses :
      mem[a] = IF Written(a) /\ dst # src /\ Copied(a - dst)
               THEN before[src + (a - dst)] ELSE before[a]

FillInv ==
  op = "memset" =>
    \A a \in Addresses :
      mem[a] = IF Written(a) /\ a - dst < k THEN AsByte(c) ELSE before[a]

CompareInv ==
  op = "memcmp" => mem = before /\ \A j \in 0 .. k - 1 : mem[dst + j] = mem[src + j]

\* What the loop variable and the result are when the function has returned.
ReturnInv ==
  returned =>
    IF op = "memcmp"
    THEN IF result = 0 THEN k = n
         ELSE k < n /\ mem[dst + k] # mem[src + k] /\ result = mem[dst + k] - mem[src + k]
    ELSE /\ result = dst
         /\ (op = "memmove" /\ dst = src) \/ k = (IF Backward THEN 0 ELSE n)

MemInv == MemTypeOK /\ Legal /\ CopyInv /\ FillInv /\ CompareInv /\ ReturnInv

\* A byte that has been converted is a byte.
LEMMA ByteRange == ASSUME NEW i \in Int PROVE AsByte(i) \in ByteValues
BY SizeAssumption DEF AsByte, ByteValues

\* Going up, a byte is read before the loop writes it.
LEMMA ForwardStep == ASSUME MemInv, CopyForward PROVE MemInv'
<1> USE SizeAssumption DEF MemInv
<1>1. /\ UNCHANGED callVars /\ returned' = returned /\ ~returned /\ result' = result
      /\ k \in Nat /\ k' = k + 1 /\ k < n /\ op \in {"memcpy", "memmove"}
      /\ dst \in Nat /\ src \in Nat /\ n \in Nat
      /\ mem' = [mem EXCEPT ![dst + k] = mem[src + k]]
  BY DEF CopyForward, TakesForward, Store, MemTypeOK
<1>2. dst + k \in Addresses /\ src + k \in Addresses
  BY <1>1 DEF Legal, Addresses
<1>3. ~Backward /\ (dst < src \/ src + n <= dst)
  BY <1>1 DEF CopyForward, TakesForward, Backward, Legal
<1>4. dst # src
  BY <1>1, <1>3
<1>5. mem[src + k] = before[src + k]
  BY <1>1, <1>2, <1>3 DEF CopyInv, Written, Copied
<1>6. MemTypeOK'
  BY <1>1, <1>2 DEF MemTypeOK, callVars
<1>7. CopyInv'
  <2> SUFFICES ASSUME NEW a \in Addresses
               PROVE  mem'[a] = IF Written(a) /\ dst # src /\ a - dst < k + 1
                                THEN before[src + (a - dst)] ELSE before[a]
    BY <1>1, <1>3 DEF CopyInv, Written, Copied, Backward, callVars
  <2>1. CASE a = dst + k
    <3>1. mem'[a] = before[src + k] /\ a - dst = k /\ Written(a)
      BY <1>1, <1>2, <1>5, <2>1 DEF MemTypeOK, Written
    <3>2. QED
      BY <1>1, <1>4, <3>1
  <2>2. CASE a # dst + k
    <3>1. mem'[a] = mem[a] /\ a \in Int
      BY <1>1, <1>2, <2>2 DEF MemTypeOK, Addresses
    <3>2. a - dst < k + 1 <=> a - dst < k
      BY <1>1, <2>2, <3>1
    <3>3. QED
      BY <1>1, <1>3, <3>1, <3>2 DEF CopyInv, Copied
  <2>3. QED
    BY <2>1, <2>2
<1>8. QED
  BY <1>1, <1>6, <1>7 DEF Legal, FillInv, CompareInv, ReturnInv, callVars

\* Going down, too.
LEMMA BackwardStep == ASSUME MemInv, CopyBackward PROVE MemInv'
<1> USE SizeAssumption DEF MemInv
<1>1. /\ UNCHANGED callVars /\ returned' = returned /\ ~returned /\ result' = result
      /\ k \in Nat /\ k # 0 /\ k' = k - 1 /\ k <= n /\ op = "memmove" /\ dst > src
      /\ dst \in Nat /\ src \in Nat /\ n \in Nat
      /\ mem' = [mem EXCEPT ![dst + (k - 1)] = mem[src + (k - 1)]]
  BY DEF CopyBackward, Store, MemTypeOK
<1>2. dst + (k - 1) \in Addresses /\ src + (k - 1) \in Addresses
  BY <1>1 DEF Legal, Addresses
<1>3. Backward
  BY <1>1 DEF Backward
<1>4. mem[src + (k - 1)] = before[src + (k - 1)]
  BY <1>1, <1>2, <1>3 DEF CopyInv, Written, Copied
<1>5. MemTypeOK'
  BY <1>1, <1>2 DEF MemTypeOK, callVars
<1>6. CopyInv'
  <2> SUFFICES ASSUME NEW a \in Addresses
               PROVE  mem'[a] = IF Written(a) /\ dst # src /\ a - dst >= k - 1
                                THEN before[src + (a - dst)] ELSE before[a]
    BY <1>1, <1>3 DEF CopyInv, Written, Copied, Backward, callVars
  <2>1. CASE a = dst + (k - 1)
    <3>1. mem'[a] = before[src + (k - 1)] /\ a - dst = k - 1 /\ Written(a)
      BY <1>1, <1>2, <1>4, <2>1 DEF MemTypeOK, Written
    <3>2. QED
      BY <1>1, <3>1
  <2>2. CASE a # dst + (k - 1)
    <3>1. mem'[a] = mem[a] /\ a \in Int
      BY <1>1, <1>2, <2>2 DEF MemTypeOK, Addresses
    <3>2. a - dst >= k - 1 <=> a - dst >= k
      BY <1>1, <2>2, <3>1
    <3>3. QED
      BY <1>1, <1>3, <3>1, <3>2 DEF CopyInv, Copied
  <2>3. QED
    BY <2>1, <2>2
<1>7. QED
  BY <1>1, <1>5, <1>6 DEF Legal, FillInv, CompareInv, ReturnInv, callVars

\* A byte of memset.
LEMMA FillStep == ASSUME MemInv, Fill PROVE MemInv'
<1> USE SizeAssumption DEF MemInv
<1>1. /\ UNCHANGED callVars /\ returned' = returned /\ ~returned /\ result' = result
      /\ k \in Nat /\ k' = k + 1 /\ k < n /\ op = "memset" /\ dst \in Nat /\ n \in Nat
      /\ c \in Int /\ mem' = [mem EXCEPT ![dst + k] = AsByte(c)]
  BY DEF Fill, Store, MemTypeOK
<1>2. dst + k \in Addresses
  BY <1>1 DEF Legal, Addresses, MemTypeOK
<1>3. MemTypeOK'
  BY <1>1, <1>2, ByteRange DEF MemTypeOK, callVars
<1>4. FillInv'
  <2> SUFFICES ASSUME NEW a \in Addresses
               PROVE  mem'[a] = IF Written(a) /\ a - dst < k + 1 THEN AsByte(c) ELSE before[a]
    BY <1>1 DEF FillInv, Written, AsByte, callVars
  <2>1. CASE a = dst + k
    BY <1>1, <1>2, <2>1 DEF MemTypeOK, Written
  <2>2. CASE a # dst + k
    <3>1. mem'[a] = mem[a] /\ a \in Int
      BY <1>1, <1>2, <2>2 DEF MemTypeOK, Addresses
    <3>2. a - dst < k + 1 <=> a - dst < k
      BY <1>1, <2>2, <3>1
    <3>3. QED
      BY <1>1, <3>1, <3>2 DEF FillInv
  <2>3. QED
    BY <2>1, <2>2
<1>5. QED
  BY <1>1, <1>3, <1>4 DEF Legal, CopyInv, CompareInv, ReturnInv, callVars

\* A byte of memcmp.
LEMMA CompareStep == ASSUME MemInv, Compare PROVE MemInv'
<1> USE SizeAssumption DEF MemInv
<1>1. /\ UNCHANGED <<callVars, mem>> /\ ~returned /\ op = "memcmp" /\ k < n /\ k \in Nat
      /\ n \in Nat /\ dst \in Nat /\ src \in Nat
  BY DEF Compare, MemTypeOK
<1>2. mem[dst + k] \in Int /\ mem[src + k] \in Int
  BY <1>1 DEF Legal, MemTypeOK, Addresses, ByteValues
<1>3. CASE mem[dst + k] # mem[src + k]
  <2>1. returned' /\ k' = k /\ result' = mem[dst + k] - mem[src + k]
    BY <1>3 DEF Compare, Difference
  <2>2. result' \in Int /\ result' # 0
    BY <1>2, <1>3, <2>1
  <2>3. QED
    BY <1>1, <1>3, <2>1, <2>2
       DEF MemTypeOK, Legal, CopyInv, FillInv, CompareInv, ReturnInv, callVars
<1>4. CASE mem[dst + k] = mem[src + k]
  <2>1. ~returned' /\ returned' = returned /\ k' = k + 1 /\ result' = result
    BY <1>1, <1>4 DEF Compare
  <2>2. CompareInv'
    BY <1>1, <1>4, <2>1 DEF CompareInv, callVars
  <2>3. MemTypeOK'
    BY <1>1, <2>1 DEF MemTypeOK, callVars
  <2>4. QED
    BY <1>1, <2>1, <2>2, <2>3 DEF Legal, CopyInv, FillInv, ReturnInv, callVars
<1>5. QED
  BY <1>3, <1>4

\* The invariant of the four loops.
THEOREM MemInductive == MemSpec => []MemInv
<1>1. MemInit => MemInv
  <2> SUFFICES ASSUME MemInit PROVE MemInv
    OBVIOUS
  <2>1. MemTypeOK
    <3>1. dst \in Nat /\ src \in Nat /\ n \in Nat
      BY SizeAssumption DEF MemInit
    <3>2. k \in 0 .. n
      BY <3>1 DEF MemInit
    <3>3. returned \in BOOLEAN
      BY DEF MemInit
    <3>4. result \in Int
      BY DEF MemInit
    <3>5. QED
      BY <3>1, <3>2, <3>3, <3>4 DEF MemInit, MemTypeOK
  <2>2. CopyInv /\ FillInv
    BY SizeAssumption DEF MemInit, CopyInv, FillInv, Copied, Written, Backward, Addresses
  <2>3. QED
    BY <2>1, <2>2 DEF MemInit, MemInv, CompareInv, ReturnInv, Backward
<1>2. MemInv /\ [MemNext]_memVars => MemInv'
  <2> SUFFICES ASSUME MemInv, [MemNext]_memVars PROVE MemInv'
    OBVIOUS
  <2>1. CASE Return
    BY <2>1, SizeAssumption DEF Return, LoopEnd, MemInv, MemTypeOK, Legal, CopyInv, FillInv,
       CompareInv, ReturnInv, Copied, Written, Backward, callVars
  <2>2. CASE UNCHANGED memVars
    BY <2>2 DEF memVars, callVars, MemInv, MemTypeOK, Legal, CopyInv, FillInv, CompareInv,
       ReturnInv, Copied, Written, Backward
  <2>3. QED
    BY <2>1, <2>2, ForwardStep, BackwardStep, FillStep, CompareStep DEF MemNext
<1>3. QED
  BY <1>1, <1>2, PTL DEF MemSpec

\* memcpy and memmove copy exactly, overlaps included.
THEOREM CopyTheorem == MemSpec => []CopyExact
<1>1. MemInv => CopyExact
  BY SizeAssumption DEF MemInv, MemTypeOK, CopyInv, ReturnInv, CopyExact, Copied, Written,
     Backward, Addresses
<1>2. QED
  BY <1>1, MemInductive, PTL

\* memcmp orders byte strings as unsigned numbers at the first difference.
THEOREM CompareTheorem == MemSpec => []CompareExact
<1>1. MemInv => CompareExact
  <2> SUFFICES ASSUME MemInv, returned, op = "memcmp" PROVE CompareExact
    BY DEF CompareExact
  <2>1. /\ mem = before /\ k \in 0 .. n /\ n \in Nat
        /\ \A j \in 0 .. k - 1 : mem[dst + j] = mem[src + j]
    BY DEF MemInv, MemTypeOK, CompareInv
  <2>2. \A j \in 0 .. n - 1 : mem[dst + j] \in Int /\ mem[src + j] \in Int
    BY <2>1, SizeAssumption DEF MemInv, MemTypeOK, Legal, Addresses, ByteValues
  <2>3. CASE result = 0
    BY <2>1, <2>3 DEF MemInv, ReturnInv, CompareExact
  <2>4. CASE result # 0
    <3>1. k \in 0 .. n - 1 /\ mem[dst + k] # mem[src + k] /\ result = mem[dst + k] - mem[src + k]
      BY <2>1, <2>4 DEF MemInv, ReturnInv
    <3>2. result < 0 <=> mem[dst + k] < mem[src + k]
      BY <2>2, <3>1
    <3>3. QED
      BY <2>1, <2>4, <3>1, <3>2 DEF CompareExact
  <2>5. QED
    BY <2>3, <2>4
<1>2. QED
  BY <1>1, MemInductive, PTL

\* A number less than m that m divides is 0.
LEMMA SmallMultiple ==
  ASSUME NEW m \in Nat \ {0}, NEW d \in Int, NEW r \in 0 .. m - 1, m * d = r
  PROVE  r = 0
<1>1. CASE d >= 1
  <2>1. m * d >= m
    BY <1>1
  <2> QED
    BY <2>1
<1>2. CASE d <= 0
  <2>1. m * d <= 0
    BY <1>2
  <2> QED
    BY <2>1
<1> QED
  BY <1>1, <1>2

LEMMA Division ==
  ASSUME NEW i \in Int, NEW m \in Nat \ {0}
  PROVE  i = m * (i \div m) + (i % m) /\ i \div m \in Int /\ i % m \in 0 .. m - 1
<1>1. i = m * (i \div m) + (i % m)
  OBVIOUS
<1> QED
  BY <1>1

\* The remainder differs from the number by a multiple of the divisor.
LEMMA RemainderCongruent ==
  ASSUME NEW i \in Int, NEW m \in Nat \ {0}
  PROVE  ((i % m) - i) % m = 0
<1> DEFINE q == i \div m
           e == (i % m) - i
           p == e \div m
<1>1. i = m * q + (i % m) /\ q \in Int /\ i % m \in Int
  BY Division
<1>2. e = m * (-q) /\ e \in Int
  BY <1>1
<1>3. e = m * p + (e % m) /\ p \in Int /\ e % m \in 0 .. m - 1
  <2> HIDE DEF e
  <2> QED
    BY <1>2, Division
<1> HIDE DEF q, e, p
<1>4. m * (-q - p) = e % m /\ -q - p \in Int
  BY <1>1, <1>2, <1>3
<1>5. e % m = 0
  BY <1>3, <1>4, SmallMultiple
<1> QED
  BY <1>5 DEF e

\* memset writes the low byte of its argument, negative arguments included.
THEOREM SetTheorem == MemSpec => []SetExact
<1>1. MemInv => SetExact
  <2> SUFFICES ASSUME MemInv, returned, op = "memset", NEW a \in Addresses
               PROVE  IF Written(a) THEN mem[a] \in ByteValues /\ (mem[a] - c) % ByteSize = 0
                                    ELSE mem[a] = before[a]
    BY DEF SetExact
  <2>1. /\ mem[a] = IF Written(a) /\ a - dst < k THEN AsByte(c) ELSE before[a]
        /\ k = n /\ dst \in Nat /\ n \in Nat /\ a \in Nat /\ c \in Int
    BY SizeAssumption DEF MemInv, MemTypeOK, FillInv, ReturnInv, Backward, Addresses
  <2>2. Written(a) => a - dst < k
    BY <2>1 DEF Written
  <2>3. AsByte(c) \in ByteValues /\ (AsByte(c) - c) % ByteSize = 0
    BY <2>1, ByteRange, RemainderCongruent, SizeAssumption DEF AsByte
  <2> QED
    BY <2>1, <2>2, <2>3
<1>2. QED
  BY <1>1, MemInductive, PTL

-------------------------------------------------------------------------------
(* The runtime on an operating system, and the host without one.             *)

(* What is in the buffer is what the kernel has handed out, in its place; a  *)
(* system call asks for exactly what is left; nothing has been read before   *)
(* the loop returns, and there is no exit code before the end.               *)
BufferFilled ==
  phase = "read_input" =>
    /\ taken = used
    /\ request \in {0, Capacity - used}
    /\ \A i \in 0 .. used - 1 : input_buffer[i] = given[i + 1]

PlacesKept ==
  /\ phase = "start" => taken = 0
  /\ phase = "write_output" => request \in {0, Len(piece) - written}
  /\ phase \in {"start", "main", "exited"} => request = 0
  /\ phase \in {"start", "read_input"} => seen = NotYet
  /\ phase \in {"main", "write_output", "exited"} => seen \in Seq(Bytes)
  /\ phase # "exited" => status = NotYet

LinuxInv == LinuxTypeOK /\ BufferFilled /\ PlacesKept

USE CapacityAssumption, MaxPiecesAssumption, BytesAssumption DEF Bytes

-------------------------------------------------------------------------------
(* Sequences.                                                                *)

LEMMA EmptyTail == ASSUME NEW s \in Seq(Bytes) PROVE SubSeq(s, Len(s) + 1, Len(s)) = <<>>
OBVIOUS

LEMMA NothingAdded == ASSUME NEW s \in Seq(Bytes), NEW t \in Seq(Bytes)
                      PROVE  s \o SubSeq(t, 1, 0) = s
OBVIOUS

LEMMA PartOfSequence ==
  ASSUME NEW s \in Seq(Bytes), NEW m \in Int, NEW l \in Int, 1 <= m, l <= Len(s)
  PROVE  SubSeq(s, m, l) \in Seq(Bytes)
<1>1. \A i \in m .. l : i \in 1 .. Len(s)
  OBVIOUS
<1>2. \A i \in 1 .. Len(s) : s[i] \in Bytes
  BY ElementOfSeq, Zenon
<1>3. \A i \in m .. l : s[i] \in Bytes
  BY <1>1, <1>2
<1> QED
  BY <1>3, SubSeqProperties, Zenon

\* The first part of what is left of a piece, and what is left after it.
LEMMA Remainder ==
  ASSUME NEW s \in Seq(Bytes), NEW w \in 0 .. Len(s), NEW g \in 0 .. Len(s) - w
  PROVE  LET rest == SubSeq(s, w + 1, Len(s)) IN
         /\ rest \in Seq(Bytes)
         /\ Len(rest) = Len(s) - w
         /\ SubSeq(rest, 1, g) = SubSeq(s, w + 1, w + g)
         /\ SubSeq(rest, g + 1, Len(rest)) = SubSeq(s, w + g + 1, Len(s))
<1> DEFINE rest == SubSeq(s, w + 1, Len(s))
<1>1. /\ rest \in Seq(Bytes) /\ Len(rest) = Len(s) - w
      /\ \A i \in 1 .. Len(s) - w : rest[i] = s[w + i]
  <2>1. rest \in Seq(Bytes)
    <3>1. w + 1 \in Int /\ 1 <= w + 1 /\ Len(s) \in Int /\ Len(s) <= Len(s)
      OBVIOUS
    <3> QED
      BY <3>1, PartOfSequence, Zenon
  <2>2. Len(rest) = Len(s) - w
    <3>1. CASE w = Len(s)
      BY <3>1, EmptyTail
    <3>2. CASE w < Len(s)
      BY <3>2
    <3> QED
      BY <3>1, <3>2
  <2>3. \A i \in 1 .. Len(s) - w : rest[i] = s[w + i]
    OBVIOUS
  <2> QED
    BY <2>1, <2>2, <2>3
<1> HIDE DEF rest
<1>2. SubSeq(rest, 1, g) = SubSeq(s, w + 1, w + g)
  BY <1>1
<1>3. SubSeq(rest, g + 1, Len(rest)) = SubSeq(s, w + g + 1, Len(s))
  BY <1>1
<1> QED
  BY <1>1, <1>2, <1>3 DEF rest

\* What the loop of read_input returns at its end.
LEMMA ReadIsFitting ==
  ASSUME NEW s \in Seq(Bytes), NEW l \in 0 .. Capacity, l <= Len(s),
         l = Capacity \/ l = Len(s),
         NEW b, \A i \in 0 .. l - 1 : b[i] = s[i + 1]
  PROVE  [i \in 1 .. l |-> b[i - 1]] = Fitting(s)
<1>1. Fitting(s) = SubSeq(s, 1, l)
  BY DEF Fitting
<1>2. SubSeq(s, 1, l) = [i \in 1 .. l |-> s[i]]
  OBVIOUS
<1>3. \A i \in 1 .. l : b[i - 1] = s[i]
  OBVIOUS
<1> QED
  BY <1>1, <1>2, <1>3

-------------------------------------------------------------------------------
(* The invariant.                                                            *)

LEMMA LinuxInitially == LinuxInit => LinuxInv
BY DEF LinuxInit, LinuxInv, LinuxTypeOK, BufferFilled, PlacesKept

LEMMA LinuxPreserved == LinuxInv /\ [LinuxNext]_linuxVars => LinuxInv'
<1> SUFFICES ASSUME LinuxInv, [LinuxNext]_linuxVars PROVE LinuxInv'
  OBVIOUS
<1> USE DEF LinuxInv, LinuxTypeOK, BufferFilled, PlacesKept, readVars, writeVars
<1>0. given \in Seq(Bytes) /\ Len(given) \in Nat
  OBVIOUS
<1>1. CASE CallReadInput
  BY <1>1 DEF CallReadInput
<1>2. ASSUME NEW s \in Pieces, CallWriteOutput(s) PROVE LinuxInv'
  BY <1>2 DEF CallWriteOutput
<1>3. ASSUME NEW code \in Codes, LinuxExit(code) PROVE LinuxInv'
  BY <1>3 DEF LinuxExit
<1>4. CASE AskRead
  BY <1>4 DEF AskRead, Ask, Room
<1>5. CASE AskWrite
  BY <1>5 DEF AskWrite, Ask
<1>6. ASSUME NEW l \in 0 .. Capacity, ReturnInput(l), lost' \in BOOLEAN PROVE LinuxInv'
  <2>1. [i \in 1 .. l |-> input_buffer[i - 1]] \in Seq(Bytes)
    OBVIOUS
  <2> QED
    BY <1>6, <2>1 DEF ReturnInput
<1>7. CASE BufferFull
  BY <1>6, <1>7 DEF BufferFull
<1>8. CASE ReadEof
  BY <1>6, <1>8 DEF ReadEof
<1>9. CASE ReadFails
  BY <1>6, <1>9 DEF ReadFails, AfterReadError
<1>10. ASSUME NEW got \in 1 .. request, ReadSome(got) PROVE LinuxInv'
  <2>1. got \in Nat /\ used + got \in 0 .. Capacity /\ taken + got <= Len(given) /\ taken = used
    BY <1>0, <1>10 DEF ReadSome
  <2>2. \A i \in used .. used + got - 1 : given[taken + (i - used) + 1] = given[i + 1] /\ given[i + 1] \in Bytes
    <3>1. used \in Nat
      OBVIOUS
    <3>2. \A i \in used .. used + got - 1 : taken + (i - used) + 1 = i + 1 /\ i + 1 \in 1 .. Len(given)
      BY <1>0, <2>1, <3>1
    <3>3. \A i \in 1 .. Len(given) : given[i] \in Bytes
      BY <1>0, ElementOfSeq, Zenon
    <3> QED
      BY <3>2, <3>3
  <2>3. input_buffer' \in [0 .. Capacity - 1 -> Bytes]
    BY <1>10, <2>1, <2>2 DEF ReadSome, ReadAt
  <2>4. \A i \in 0 .. used + got - 1 : input_buffer'[i] = given[i + 1]
    BY <1>10, <2>1, <2>2 DEF ReadSome, ReadAt
  <2>5. LinuxTypeOK'
    BY <1>10, <2>1, <2>3 DEF ReadSome
  <2>6. BufferFilled'
    <3>1. used' = used + got /\ taken' = taken + got /\ request' = 0 /\ given' = given
      BY <1>10 DEF ReadSome
    <3> QED
      BY <2>1, <2>4, <3>1
  <2>7. PlacesKept'
    BY <1>10 DEF ReadSome
  <2> QED
    BY <2>5, <2>6, <2>7
<1>11. ASSUME NEW got \in 1 .. request, WriteSome(got) PROVE LinuxInv'
  <2>1. written + got \in 0 .. Len(piece)
    BY <1>11 DEF WriteSome
  <2>2. SubSeq(piece, written + 1, written + got) \in Seq(Bytes)
    <3>1. written + 1 \in Int /\ 1 <= written + 1 /\ written + got \in Int /\ written + got <= Len(piece)
      BY <2>1
    <3> QED
      BY <3>1, PartOfSequence
  <2>3. stdout' \in Seq(Bytes)
    <3>1. stdout' = stdout \o SubSeq(piece, written + 1, written + got)
      BY <1>11 DEF WriteSome
    <3> QED
      BY <2>2, <3>1
  <2>4. LinuxTypeOK'
    BY <1>11, <2>1, <2>3 DEF WriteSome
  <2>5. BufferFilled' /\ PlacesKept'
    BY <1>11 DEF WriteSome
  <2> QED
    BY <2>4, <2>5
<1>12. ASSUME NEW got \in {-1, 0}, WriteStops(got) PROVE LinuxInv'
  BY <1>12 DEF WriteStops, AfterWriteStops
<1>13. CASE WriteDone
  BY <1>13 DEF WriteDone
<1>14. CASE UNCHANGED linuxVars
  BY <1>14 DEF linuxVars
<1> QED
  BY <1>1, <1>2, <1>3, <1>4, <1>5, <1>7, <1>8, <1>9, <1>10, <1>11, <1>12, <1>13, <1>14
     DEF LinuxNext, Runtime, Answer

-------------------------------------------------------------------------------
(* Refinement.                                                               *)

due == IF phase = "write_output" THEN SubSeq(piece, written + 1, Len(piece)) ELSE <<>>

LEMMA HostInitially == LinuxInit => Linux!HostInit
BY DEF LinuxInit, Linux!HostInit

LEMMA HostStep == LinuxInv /\ LinuxInv' /\ [LinuxNext]_linuxVars => [Linux!HostNext]_(Linux!hostVars)
<1> SUFFICES ASSUME LinuxInv, LinuxInv', [LinuxNext]_linuxVars
             PROVE  Linux!HostNext \/ UNCHANGED Linux!hostVars
  OBVIOUS
<1> USE DEF LinuxInv, LinuxTypeOK, BufferFilled, PlacesKept, readVars, writeVars, due
<1>0. given \in Seq(Bytes) /\ Len(given) \in Nat
  OBVIOUS
<1>s. ASSUME UNCHANGED <<given, seen, due, stdout, lost, status>> PROVE UNCHANGED Linux!hostVars
  BY <1>s DEF Linux!hostVars
<1>1. CASE CallReadInput
  BY <1>1, <1>s DEF CallReadInput
<1>2. ASSUME NEW s \in Pieces, CallWriteOutput(s) PROVE Linux!HostNext
  <2>1. seen # NotYet /\ status = NotYet /\ due = <<>>
    BY <1>2, NotYetAssumption DEF CallWriteOutput
  <2>2. due' = SubSeq(s, 1, Len(s)) /\ stdout' = stdout \o SubSeq(s, 1, 0)
    BY <1>2, NothingAdded DEF CallWriteOutput
  <2>3. Linux!DeliverOf(s, 0)
    BY <1>2, <2>2 DEF CallWriteOutput, Linux!DeliverOf
  <2>4. 0 \in 0 .. Len(s)
    OBVIOUS
  <2> QED
    BY <2>1, <2>3, <2>4 DEF Linux!HostNext, Linux!HandOver
<1>3. ASSUME NEW code \in Codes, LinuxExit(code) PROVE Linux!HostNext
  BY <1>3 DEF LinuxExit, Linux!HostNext, Linux!End
<1>4. CASE AskRead
  BY <1>4, <1>s DEF AskRead, Ask
<1>5. CASE AskWrite
  BY <1>5, <1>s DEF AskWrite, Ask
<1>6. ASSUME NEW l \in 0 .. Capacity, ReturnInput(l), 
             l <= Len(given), l = Capacity \/ l = Len(given),
             \A i \in 0 .. l - 1 : input_buffer[i] = given[i + 1],
             UNCHANGED lost
      PROVE  Linux!HostNext
  <2>1. [i \in 1 .. l |-> input_buffer[i - 1]] = Fitting(given)
    <3>1. l \in 0 .. Capacity /\ l <= Len(given)
      BY <1>6
    <3>2. l = Capacity \/ l = Len(given)
      BY <1>6
    <3>3. \A i \in 0 .. l - 1 : input_buffer[i] = given[i + 1]
      BY <1>6
    <3> HIDE DEF LinuxInv
    <3> QED
      BY <1>0, <3>1, <3>2, <3>3, ReadIsFitting
  <2>2. seen' = Linux!Fitting(given)
    BY <1>6, <2>1 DEF ReturnInput, Fitting, Linux!Fitting
  <2> QED
    BY <1>6, <2>2 DEF ReturnInput, Linux!HostNext, Linux!Read
<1>7. CASE BufferFull
  BY <1>0, <1>6, <1>7 DEF BufferFull, Room, ReturnInput
<1>8. CASE ReadEof
  BY <1>0, <1>6, <1>8 DEF ReadEof, ReturnInput
<1>9. CASE ReadFails
  <2>1. seen' = <<>>
    BY <1>9 DEF ReadFails, ReturnInput, AfterReadError
  <2> QED
    BY <1>9, <2>1 DEF ReadFails, ReturnInput, Linux!HostNext, Linux!Read
<1>10. ASSUME NEW got \in 1 .. request, ReadSome(got) PROVE UNCHANGED Linux!hostVars
  BY <1>10, <1>s DEF ReadSome
<1>11. ASSUME NEW got \in 1 .. request, WriteSome(got) PROVE Linux!HostNext
  <2>1. got \in 0 .. Len(piece) - written /\ got \in 1 .. Len(due) /\ Len(due) \in Nat
    BY <1>11, Remainder DEF WriteSome
  <2>2. /\ SubSeq(due, 1, got) = SubSeq(piece, written + 1, written + got)
        /\ SubSeq(due, got + 1, Len(due)) = SubSeq(piece, written + got + 1, Len(piece))
    BY <1>11, <2>1, Remainder DEF WriteSome
  <2>3. Linux!DeliverOf(due, got)
    BY <1>11, <2>2 DEF WriteSome, Linux!DeliverOf
  <2> QED
    BY <2>1, <2>3 DEF Linux!HostNext, Linux!Deliver
<1>12. ASSUME NEW got \in {-1, 0}, WriteStops(got) PROVE Linux!HostNext
  <2>1. due # <<>>
    <3>1. Len(piece) - written > 0 /\ 0 \in 0 .. Len(piece) - written
      BY <1>12 DEF WriteStops
    <3>2. Len(due) = Len(piece) - written
      BY <1>12, <3>1, Remainder DEF WriteStops
    <3>3. Len(<<>>) = 0
      OBVIOUS
    <3> HIDE DEF LinuxInv, due
    <3> QED
      BY <3>1, <3>2, <3>3
  <2> QED
    BY <1>12, <2>1 DEF WriteStops, AfterWriteStops, Linux!HostNext, Linux!GiveUp
<1>13. CASE WriteDone
  BY <1>13, <1>s, EmptyTail DEF WriteDone
<1>14. CASE UNCHANGED linuxVars
  BY <1>14, <1>s DEF linuxVars
<1> QED
  BY <1>1, <1>2, <1>3, <1>4, <1>5, <1>7, <1>8, <1>9, <1>10, <1>11, <1>12, <1>13, <1>14
     DEF LinuxNext, Runtime, Answer

LEMMA LinuxAlways == LinuxSpec => []LinuxInv
BY LinuxInitially, LinuxPreserved, PTL DEF LinuxSpec

\* The loops of riscv64_runtime.v stay inside the input buffer and inside the
\* piece that they write.
THEOREM LinuxTypeCorrect == LinuxSpec => []LinuxTypeOK
<1>1. LinuxInv => LinuxTypeOK
  BY DEF LinuxInv
<1> QED
  BY <1>1, LinuxAlways, PTL

\* Whatever parts the kernel transfers and wherever it fails, the endpoint and
\* its output see what Host promises: read_input, write_output and zkvm_exit of
\* riscv64_runtime.v, for every size of buffer, input and piece.
THEOREM LinuxRefinement == LinuxSpec => LinuxImplementsHost
BY LinuxAlways, HostInitially, HostStep, PTL DEF LinuxSpec, LinuxImplementsHost, Linux!HostSpec

-------------------------------------------------------------------------------
(* The host without an operating system.                                     *)

LastWrite == IF writes = <<>> THEN <<>> ELSE Last(writes)

BareTypeOK ==
  /\ file \in Inputs /\ Len(file) <= Capacity
  /\ address \in Buffers \cup {NoBuffer} /\ length \in Nat
  /\ memory \in [Buffers -> Pieces]
  /\ place \in {"reset", "main", "exited", "returned", "ended"}
  /\ writes \in Seq(Pieces)
  /\ reused \in BOOLEAN

(* The context names the last write while its buffer is left alone, and what *)
(* the plugin records at the end is what the context then names.             *)
BareInv ==
  /\ BareTypeOK
  /\ read \in {NotYet, file}
  /\ place = "reset" => read = NotYet
  /\ place # "reset" => size = Len(file)
  /\ address = NoBuffer => length = 0
  /\ ~reused => Named(address, length) = LastWrite
  /\ exitCode # NotYet => place \in {"exited", "ended"}
  /\ terminal # NotYet => place = "ended" /\ terminal = Named(address, length)

\* Its steps, taken alone.
BareNext ==
  \/ Reset \/ ReadInput \/ MainReturns \/ Terminal
  \/ \E b \in Buffers : \E s \in Pieces : Compose(b, s)
  \/ \E b \in Buffers : \E l \in 0 .. Len(memory[b]) : WriteOutput(b, l)
  \/ \E v \in Codes : ZkvmExit(v)

LEMMA NamedIsPiece ==
  ASSUME BareInv, NEW b \in Buffers, NEW l \in 0 .. Len(memory[b])
  PROVE  Named(b, l) \in Pieces
<1>1. memory[b] \in Pieces
  BY DEF BareInv, BareTypeOK
<1> QED
  BY <1>1, PiecesClosed, PiecesAssumption DEF Named

LEMMA AppendLast ==
  ASSUME NEW S, NEW s \in Seq(S), NEW e \in S, NEW t, t = Append(s, e)
  PROVE  t \in Seq(S) /\ t # <<>> /\ Last(t) = e
BY AppendProperties DEF Last

LEMMA BareInitially == BareInit => BareInv
<1> SUFFICES ASSUME BareInit PROVE BareInv
  OBVIOUS
<1>1. memory \in [Buffers -> Pieces] /\ writes \in Seq(Pieces) /\ length = 0 /\ writes = <<>>
  <2>1. memory = [b \in Buffers |-> <<>>] /\ writes = <<>> /\ length = 0
    BY DEF BareInit
  <2>2. memory \in [Buffers -> Pieces]
    BY <2>1, PiecesAssumption, Zenon
  <2>3. writes \in Seq(Pieces)
    BY <2>1, EmptySeq, Zenon
  <2> QED
    BY <2>1, <2>2, <2>3
<1>2. Named(address, length) = LastWrite
  BY <1>1 DEF Named, LastWrite
<1>3. BareTypeOK
  <2>1. /\ file \in Inputs /\ Len(file) <= Capacity /\ address = NoBuffer
        /\ place = "reset" /\ reused = FALSE
    BY DEF BareInit
  <2>2. length \in Nat
    BY <1>1
  <2> QED
    BY <1>1, <2>1, <2>2, Zenon DEF BareTypeOK
<1> QED
  BY <1>1, <1>2, <1>3, Zenon DEF BareInit, BareInv

LEMMA BarePreserved == BareInv /\ [BareNext]_bareVars => BareInv'
<1> SUFFICES ASSUME BareInv, [BareNext]_bareVars PROVE BareInv'
  OBVIOUS
<1> USE DEF BareInv, BareTypeOK
<1>0. Named(address, length)' = Named(address, length) <=>
        (IF length' = 0 THEN <<>> ELSE SubSeq(memory'[address'], 1, length')) =
        (IF length = 0 THEN <<>> ELSE SubSeq(memory[address], 1, length))
  BY DEF Named
<1>1. CASE Reset
  BY <1>1 DEF Reset, LengthWord, Named, LastWrite
<1>2. CASE ReadInput
  <2>1. SubSeq(file, 1, Len(file)) = file
    <3>1. file \in Seq(Bytes)
      OBVIOUS
    <3> QED
      BY <3>1, SubSeqFull
  <2> QED
    BY <1>2, <2>1 DEF ReadInput, Named, LastWrite
<1>3. CASE MainReturns
  BY <1>3 DEF MainReturns, Named, LastWrite
<1>4. CASE Terminal
  BY <1>4 DEF Terminal, Named, LastWrite
<1>5. ASSUME NEW b \in Buffers, NEW s \in Pieces, Compose(b, s) PROVE BareInv'
  <2>1. s \o SubSeq(memory[b], Len(s) + 1, Len(memory[b])) \in Pieces
    BY PiecesClosed
  <2>2. memory' \in [Buffers -> Pieces]
    BY <1>5, <2>1 DEF Compose
  <2>3. ~reused' => Named(address, length)' = Named(address, length)
    BY <1>5 DEF Compose, Named
  <2> QED
    BY <1>5, <2>2, <2>3 DEF Compose, LastWrite
<1>6. ASSUME NEW b \in Buffers, NEW l \in 0 .. Len(memory[b]), WriteOutput(b, l) PROVE BareInv'
  <2>1. Named(b, l) \in Pieces
    BY <1>6, NamedIsPiece
  <2>2. l \in Nat
    <3>1. memory[b] \in Seq(Bytes)
      OBVIOUS
    <3> QED
      BY <3>1
  <2>3. writes' \in Seq(Pieces) /\ LastWrite' = Named(b, l)
    <3>1. writes' = Append(writes, Named(b, l)) /\ writes \in Seq(Pieces)
      BY <1>6 DEF WriteOutput
    <3>2. writes' \in Seq(Pieces) /\ writes' # <<>> /\ Last(writes') = Named(b, l)
      <4>1. \A s \in Seq(Pieces), e \in Pieces : \A t :
              t = Append(s, e) => t \in Seq(Pieces) /\ t # <<>> /\ Last(t) = e
        BY AppendLast, Zenon
      <4> QED
        BY <2>1, <3>1, <4>1, Zenon
    <3> QED
      BY <3>2 DEF LastWrite
  <2>4. Named(address, length)' = Named(b, l)
    BY <1>6 DEF WriteOutput, Context, Named
  <2> QED
    BY <1>6, <2>2, <2>3, <2>4, BuffersAssumption DEF WriteOutput, Context
<1>7. ASSUME NEW v \in Codes, ZkvmExit(v) PROVE BareInv'
  BY <1>7 DEF ZkvmExit, Named, LastWrite
<1>8. CASE UNCHANGED bareVars
  BY <1>8 DEF bareVars, Named, LastWrite
<1> QED
  BY <1>1, <1>2, <1>3, <1>4, <1>5, <1>6, <1>7, <1>8 DEF BareNext

-------------------------------------------------------------------------------
(* Its refinement.                                                           *)

LEMMA PieceSequences ==
  ASSUME NEW ss \in Seq(Pieces), NEW s \in Pieces
  PROVE  /\ FlattenSeq(ss) \in Seq(Bytes)
         /\ FlattenSeq(Append(ss, s)) = FlattenSeq(ss) \o s
<1>1. ss \in Seq(Seq(Bytes)) /\ s \in Seq(Bytes)
  BY SeqMonotonic
<1> HIDE DEF Bytes
<1> QED
  BY <1>1, FlattenAppend, Zenon

LEMMA BareHostInitially == BareInit => Bare!HostInit
BY FlattenEmpty DEF BareInit, Bare!HostInit

LEMMA BareHostStep == BareInv /\ [BareNext]_bareVars => [Bare!HostNext]_(Bare!hostVars)
<1> SUFFICES ASSUME BareInv, [BareNext]_bareVars
             PROVE  Bare!HostNext \/ UNCHANGED Bare!hostVars
  OBVIOUS
<1>s. ASSUME UNCHANGED <<file, read, writes, exitCode>> PROVE UNCHANGED Bare!hostVars
  BY <1>s DEF Bare!hostVars
<1>0. place = "main" => exitCode = NotYet
  BY DEF BareInv
<1>1. CASE Reset
  BY <1>1, <1>s DEF Reset
<1>2. CASE ReadInput
  <2>1. read' = SubSeq(file, 1, Len(file))
    BY <1>2 DEF ReadInput, BareInv
  <2>2. Bare!Fitting(file) = SubSeq(file, 1, Len(file))
    <3>1. Len(file) \in Nat /\ Len(file) <= Capacity
      BY DEF BareInv, BareTypeOK
    <3> QED
      BY <3>1 DEF Bare!Fitting
  <2> QED
    BY <1>0, <1>2, <2>1, <2>2 DEF ReadInput, Bare!HostNext, Bare!Read
<1>3. CASE MainReturns
  BY <1>3, <1>s DEF MainReturns
<1>4. CASE Terminal
  BY <1>4, <1>s DEF Terminal
<1>5. ASSUME NEW b \in Buffers, NEW s \in Pieces, Compose(b, s) PROVE UNCHANGED Bare!hostVars
  BY <1>5, <1>s DEF Compose
<1>6. ASSUME NEW b \in Buffers, NEW l \in 0 .. Len(memory[b]), WriteOutput(b, l)
      PROVE  Bare!HostNext
  <2> DEFINE s == Named(b, l)
  <2>1. s \in Pieces /\ s \in Seq(Bytes) /\ Len(s) \in 0 .. Len(s)
    BY NamedIsPiece
  <2>2. FlattenSeq(writes') = FlattenSeq(writes) \o s
    <3>1. writes' = Append(writes, s) /\ writes \in Seq(Pieces)
      BY <1>6 DEF WriteOutput, BareInv, BareTypeOK
    <3> HIDE DEF s
    <3> QED
      BY <2>1, <3>1, PieceSequences
  <2>3. SubSeq(s, 1, Len(s)) = s /\ SubSeq(s, Len(s) + 1, Len(s)) = <<>>
    BY <2>1, SubSeqFull, EmptyTail
  <2>4. Bare!DeliverOf(s, Len(s))
    <3> HIDE DEF s
    <3> QED
      BY <1>6, <2>2, <2>3 DEF WriteOutput, Bare!DeliverOf
  <2>5. read # NotYet /\ exitCode = NotYet
    BY <1>0, <1>6 DEF WriteOutput
  <2> HIDE DEF s
  <2> QED
    BY <2>1, <2>4, <2>5 DEF Bare!HostNext, Bare!HandOver
<1>7. ASSUME NEW v \in Codes, ZkvmExit(v) PROVE Bare!HostNext
  BY <1>0, <1>7 DEF ZkvmExit, Bare!HostNext, Bare!End
<1>8. CASE UNCHANGED bareVars
  BY <1>8, <1>s DEF bareVars
<1> QED
  BY <1>1, <1>2, <1>3, <1>4, <1>5, <1>6, <1>7, <1>8 DEF BareNext

-------------------------------------------------------------------------------
(* Both runs.  Unless a system call has failed, what the one has written and *)
(* what is due are the B records of the other.                               *)
Agreement ==
  /\ file = Fitting(given)
  /\ phase = "start" <=> read = NotYet
  /\ ~lost /\ seen # NotYet => seen = file
  /\ ~lost => FlattenSeq(writes) = stdout \o due
  /\ place \in {"exited", "returned", "ended"} => phase = "exited"
  /\ exitCode # NotYet => status = exitCode

RetargetInv == LinuxInv /\ BareInv /\ Agreement

LEMMA RetargetSteps ==
  ASSUME RetargetInv, [RetargetNext]_retargetVars
  PROVE  [LinuxNext]_linuxVars /\ [BareNext]_bareVars
<1>1. CASE BothRead
  BY <1>1 DEF BothRead, LinuxNext, BareNext
<1>2. ASSUME NEW b \in Buffers, NEW l \in 0 .. Len(memory[b]), BothWrite(b, l)
      PROVE  LinuxNext /\ BareNext
  <2>1. Named(b, l) \in Pieces
    BY NamedIsPiece DEF RetargetInv
  <2> QED
    BY <1>2, <2>1 DEF BothWrite, LinuxNext, BareNext
<1>3. ASSUME NEW v \in Codes, BothExit(v) \/ BothReturn(v) PROVE LinuxNext /\ BareNext
  BY <1>3 DEF BothExit, BothReturn, LinuxNext, BareNext
<1>4. ASSUME NEW b \in Buffers, NEW s \in Pieces, BothCompose(b, s)
      PROVE  BareNext /\ UNCHANGED linuxVars
  BY <1>4 DEF BothCompose, BareNext
<1>5. CASE LinuxAlone
  BY <1>5 DEF LinuxAlone, LinuxNext
<1>6. CASE BareAlone
  BY <1>6 DEF BareAlone, BareNext
<1>7. CASE UNCHANGED retargetVars
  BY <1>7 DEF retargetVars
<1> QED
  BY <1>1, <1>2, <1>3, <1>4, <1>5, <1>6, <1>7 DEF RetargetNext

LEMMA RetargetInitially == RetargetInit => RetargetInv
<1> SUFFICES ASSUME RetargetInit PROVE RetargetInv
  OBVIOUS
<1>1. LinuxInv /\ BareInv
  BY LinuxInitially, BareInitially DEF RetargetInit
<1>2. FlattenSeq(writes) = stdout \o due
  <2>1. writes = <<>> /\ stdout = <<>> /\ due = <<>>
    BY DEF RetargetInit, LinuxInit, BareInit, due
  <2>2. <<>> \o <<>> = <<>>
    BY ConcatEmptySeq, EmptySeq
  <2> QED
    BY <2>1, <2>2, FlattenEmpty
<1>3. Agreement
  BY <1>2 DEF Agreement, RetargetInit, LinuxInit, BareInit
<1> QED
  BY <1>1, <1>3 DEF RetargetInv

\* What is written and what is due, put together, are what they were.
LEMMA WriteKeepsTogether ==
  ASSUME LinuxInv, NEW got \in 1 .. request, WriteSome(got)
  PROVE  stdout' \o due' = stdout \o due
<1> DEFINE w == written
<1>1. /\ piece \in Seq(Bytes) /\ stdout \in Seq(Bytes)
      /\ w \in 0 .. Len(piece) /\ w + got \in w .. Len(piece) /\ Len(piece) \in Nat
  BY DEF LinuxInv, LinuxTypeOK, PlacesKept, WriteSome
<1>2. w + 1 \in 1 .. Len(piece) + 1 /\ w + got \in (w + 1) - 1 .. Len(piece)
      /\ Len(piece) \in w + got .. Len(piece)
  BY <1>1
<1> HIDE DEF Bytes, w
<1> DEFINE a == SubSeq(piece, w + 1, w + got)
           z == SubSeq(piece, w + got + 1, Len(piece))
<1>3. a \o z = SubSeq(piece, w + 1, Len(piece))
  BY <1>1, <1>2, ConcatAdjacentSubSeq, Zenon
<1>4. a \in Seq(Bytes) /\ z \in Seq(Bytes)
  <2>1. w + 1 \in Int /\ w + got \in Int /\ w + got + 1 \in Int /\ Len(piece) \in Int
        /\ 1 <= w + 1 /\ 1 <= w + got + 1 /\ w + got <= Len(piece) /\ Len(piece) <= Len(piece)
    BY <1>1
  <2> QED
    BY <1>1, <2>1, PartOfSequence, Zenon
<1>5. /\ due = SubSeq(piece, w + 1, Len(piece)) /\ due' = z /\ stdout' = stdout \o a
  BY DEF WriteSome, due, w
<1>6. (stdout \o a) \o z = stdout \o (a \o z)
  <2>1. \A x, y, u \in Seq(Bytes) : (x \o y) \o u = x \o (y \o u)
    BY ConcatAssociative
  <2>2. stdout \in Seq(Bytes)
    BY <1>1
  <2> HIDE DEF a, z
  <2> QED
    BY <1>4, <2>1, <2>2, Zenon
<1> QED
  BY <1>3, <1>5, <1>6

\* What read_input returns unless a system call has failed.
LEMMA ReadReturns ==
  ASSUME LinuxInv, BufferFull \/ ReadEof
  PROVE  seen' = Fitting(given)
<1>1. /\ used \in 0 .. Capacity /\ used <= Len(given)
      /\ used = Capacity \/ used = Len(given)
      /\ \A i \in 0 .. used - 1 : input_buffer[i] = given[i + 1]
      /\ given \in Seq(Bytes)
  BY DEF LinuxInv, LinuxTypeOK, BufferFilled, BufferFull, ReadEof, ReturnInput, Room
<1>2. [i \in 1 .. used |-> input_buffer[i - 1]] = Fitting(given)
  <2>1. used \in 0 .. Capacity /\ used <= Len(given)
    BY <1>1
  <2>2. used = Capacity \/ used = Len(given)
    BY <1>1
  <2>3. \A i \in 0 .. used - 1 : input_buffer[i] = given[i + 1]
    BY <1>1
  <2>4. given \in Seq(Bytes)
    BY <1>1
  <2> QED
    BY <2>1, <2>2, <2>3, <2>4, ReadIsFitting
<1> QED
  BY <1>2 DEF BufferFull, ReadEof, ReturnInput

LEMMA AgreementPreserved ==
  ASSUME RetargetInv, [RetargetNext]_retargetVars
  PROVE  Agreement'
<1>0. /\ place = "main" => exitCode = NotYet /\ size = Len(file)
      /\ phase # "write_output" => due = <<>>
      /\ phase' # "write_output" => due' = <<>>
      /\ file \in Seq(Bytes) /\ SubSeq(file, 1, Len(file)) = file
  <2>1. file \in Seq(Bytes)
    BY DEF RetargetInv, BareInv, BareTypeOK
  <2>2. SubSeq(file, 1, Len(file)) = file
    BY <2>1, SubSeqFull
  <2> QED
    BY <2>1, <2>2 DEF RetargetInv, BareInv, due
<1>1. CASE BothRead
  <2>1. /\ read' = file /\ read' # NotYet
        /\ seen' = NotYet /\ phase' = "read_input" /\ due = <<>> /\ due' = <<>>
    BY <1>0, <1>1, NotYetAssumption
       DEF BothRead, CallReadInput, ReadInput, RetargetInv, LinuxInv, PlacesKept
  <2> QED
    BY <1>1, <2>1 DEF BothRead, CallReadInput, ReadInput, writeVars, RetargetInv, Agreement
<1>2. ASSUME NEW b \in Buffers, NEW l \in 0 .. Len(memory[b]), BothWrite(b, l)
      PROVE  Agreement'
  <2> DEFINE s == Named(b, l)
  <2>1. s \in Pieces /\ s \in Seq(Bytes) /\ writes \in Seq(Pieces) /\ stdout \in Seq(Bytes)
    BY NamedIsPiece DEF RetargetInv, LinuxInv, LinuxTypeOK, BareInv, BareTypeOK
  <2> HIDE DEF s
  <2>2. due' = s
    <3>1. phase' = "write_output" /\ piece' = s /\ written' = 0
      BY <1>2 DEF BothWrite, CallWriteOutput, s
    <3>2. SubSeq(s, 1, Len(s)) = s
      BY <2>1, SubSeqFull
    <3> QED
      BY <3>1, <3>2 DEF due
  <2>3. FlattenSeq(writes') = FlattenSeq(writes) \o s
    <3>1. writes' = Append(writes, s)
      BY <1>2 DEF BothWrite, WriteOutput, s
    <3> QED
      BY <2>1, <3>1, PieceSequences
  <2>4. ~lost => FlattenSeq(writes) = stdout
    <3>1. due = <<>> /\ stdout \o <<>> = stdout
      BY <1>0, <1>2, <2>1, ConcatEmptySeq DEF BothWrite, CallWriteOutput
    <3> QED
      BY <3>1 DEF RetargetInv, Agreement
  <2>5. UNCHANGED <<given, seen, stdout, lost, status, file, place, read, exitCode>>
        /\ phase = "main" /\ phase' = "write_output" /\ place = "main"
    BY <1>2 DEF BothWrite, CallWriteOutput, WriteOutput, readVars
  <2> QED
    BY <2>2, <2>3, <2>4, <2>5 DEF RetargetInv, Agreement
<1>3. ASSUME NEW v \in Codes, BothExit(v) \/ BothReturn(v) PROVE Agreement'
  <2>1. /\ UNCHANGED <<given, seen, stdout, lost, file, read, writes>>
        /\ phase = "main" /\ phase' = "exited" /\ place = "main" /\ status' = v
        /\ exitCode' \in {v, exitCode}
    BY <1>3 DEF BothExit, BothReturn, LinuxExit, ZkvmExit, MainReturns, readVars, writeVars
  <2> QED
    BY <1>0, <2>1 DEF RetargetInv, Agreement
<1>4. ASSUME NEW b \in Buffers, NEW s \in Pieces, BothCompose(b, s) PROVE Agreement'
  <2>1. UNCHANGED <<given, seen, stdout, due, lost, status, phase, file, place, read, writes,
                    exitCode>>
    BY <1>4 DEF BothCompose, Compose, linuxVars, due
  <2> QED
    BY <2>1 DEF RetargetInv, Agreement
<1>s. ASSUME UNCHANGED <<file, place, read, writes, exitCode, given, status>>,
             phase # "start", phase' # "start", phase # "exited",
             ~lost' => /\ ~lost
                       /\ seen' \in {seen, Fitting(given)}
                       /\ stdout' \o due' = stdout \o due
      PROVE  Agreement'
  BY <1>s DEF RetargetInv, Agreement
<1>5. CASE Runtime /\ UNCHANGED bareVars
  <2> USE DEF bareVars
  <2>1. CASE AskRead
    BY <1>5, <1>s, <2>1, <1>0 DEF AskRead, Ask, readVars, writeVars
  <2>2. CASE BufferFull \/ ReadEof
    BY <1>5, <1>s, <2>2, <1>0, ReadReturns
       DEF RetargetInv, BufferFull, ReadEof, ReturnInput, writeVars
  <2>3. CASE AskWrite
    BY <1>5, <1>s, <2>3 DEF AskWrite, Ask, readVars, writeVars, due
  <2>4. CASE WriteDone
    <3>1. due = <<>> /\ due' = <<>>
      BY <2>4, EmptyTail DEF WriteDone, due, RetargetInv, LinuxInv, LinuxTypeOK
    <3> QED
      BY <1>5, <1>s, <2>4, <3>1 DEF WriteDone, readVars, writeVars
  <2>5. CASE ReadFails
    BY <1>5, <1>s, <2>5 DEF ReadFails, ReturnInput, writeVars
  <2>6. ASSUME NEW got \in 1 .. request, ReadSome(got) PROVE Agreement'
    BY <1>5, <1>s, <2>6, <1>0 DEF ReadSome, writeVars
  <2>7. ASSUME NEW got \in 1 .. request, WriteSome(got) PROVE Agreement'
    <3>1. stdout' \o due' = stdout \o due
      BY <2>7, WriteKeepsTogether DEF RetargetInv
    <3> QED
      BY <1>5, <1>s, <2>7, <3>1 DEF WriteSome, readVars
  <2>8. ASSUME NEW got \in {-1, 0}, WriteStops(got) PROVE Agreement'
    BY <1>5, <1>s, <2>8 DEF WriteStops, AfterWriteStops, readVars, writeVars
  <2> QED
    BY <1>5, <2>1, <2>2, <2>3, <2>4, <2>5, <2>6, <2>7, <2>8 DEF Runtime, Answer
<1>6. CASE BareAlone
  <2>1. UNCHANGED <<given, seen, stdout, due, lost, status, phase, file, read, writes, exitCode>>
        /\ (place' = "main" \/ (place = "exited" /\ place' = "ended"))
    BY <1>6 DEF BareAlone, Reset, Terminal, linuxVars, due
  <2> QED
    BY <2>1 DEF RetargetInv, Agreement
<1>7. CASE UNCHANGED retargetVars
  BY <1>7 DEF retargetVars, linuxVars, bareVars, RetargetInv, Agreement, due
<1> QED
  BY <1>1, <1>2, <1>3, <1>4, <1>5, <1>6, <1>7 DEF RetargetNext, LinuxAlone

LEMMA RetargetAlways == RetargetSpec => []RetargetInv
<1>1. RetargetInv /\ [RetargetNext]_retargetVars => RetargetInv'
  <2> SUFFICES ASSUME RetargetInv, [RetargetNext]_retargetVars PROVE RetargetInv'
    OBVIOUS
  <2>1. LinuxInv'
    BY RetargetSteps, LinuxPreserved DEF RetargetInv
  <2>2. BareInv'
    BY RetargetSteps, BarePreserved DEF RetargetInv
  <2>3. Agreement'
    BY AgreementPreserved
  <2> QED
    BY <2>1, <2>2, <2>3 DEF RetargetInv
<1> QED
  BY <1>1, RetargetInitially, PTL DEF RetargetSpec

\* Linked with either host, the endpoint and its output see what Host promises.
THEOREM BothImplementHost == RetargetSpec => LinuxImplementsHost /\ BareImplementsHost
<1>1. RetargetInv /\ RetargetInv' /\ [RetargetNext]_retargetVars
        => /\ [Linux!HostNext]_(Linux!hostVars)
           /\ [Bare!HostNext]_(Bare!hostVars)
  <2> SUFFICES ASSUME RetargetInv, RetargetInv', [RetargetNext]_retargetVars
               PROVE  /\ [Linux!HostNext]_(Linux!hostVars)
                      /\ [Bare!HostNext]_(Bare!hostVars)
    OBVIOUS
  <2>1. [LinuxNext]_linuxVars /\ [BareNext]_bareVars
    BY RetargetSteps
  <2> QED
    BY <2>1, HostStep, BareHostStep DEF RetargetInv
<1>2. RetargetInit => Linux!HostInit /\ Bare!HostInit
  BY HostInitially, BareHostInitially DEF RetargetInit
<1> QED
  BY <1>1, <1>2, RetargetAlways, PTL
     DEF RetargetSpec, LinuxImplementsHost, BareImplementsHost, Linux!HostSpec, Bare!HostSpec

\* The last of the sequences put together is at the end.
LEMMA LastIsSuffix ==
  ASSUME NEW ss \in Seq(Pieces), ss # <<>>
  PROVE  IsSuffix(Last(ss), FlattenSeq(ss))
<1>1. PICK tt \in Seq(Pieces), s \in Pieces : ss = Append(tt, s)
  BY SequenceEmptyOrAppend
<1>2. Last(ss) = s
  BY <1>1, AppendLast
<1>3. FlattenSeq(ss) = FlattenSeq(tt) \o s /\ FlattenSeq(tt) \in Seq(Bytes) /\ s \in Seq(Bytes)
  BY <1>1, PieceSequences
<1> DEFINE f == FlattenSeq(tt)
           g == f \o s
<1>4. /\ g \in Seq(Bytes) /\ Len(g) = Len(f) + Len(s) /\ Len(f) \in Nat /\ Len(s) \in Nat
      /\ \A i \in 1 .. Len(s) : g[Len(g) - i + 1] = s[Len(s) - i + 1]
  <2>1. /\ g \in Seq(Bytes) /\ Len(g) = Len(f) + Len(s)
        /\ \A i \in 1 .. Len(f) + Len(s) : g[i] = IF i <= Len(f) THEN f[i] ELSE s[i - Len(f)]
    BY <1>3, ConcatProperties
  <2>2. f \in Seq(Bytes) /\ Len(f) \in Nat /\ Len(s) \in Nat
    BY <1>3
  <2> HIDE DEF f, g
  <2>3. ASSUME NEW i \in 1 .. Len(s) PROVE g[Len(g) - i + 1] = s[Len(s) - i + 1]
    <3>1. /\ Len(g) - i + 1 \in 1 .. Len(f) + Len(s) /\ ~(Len(g) - i + 1 <= Len(f))
          /\ (Len(g) - i + 1) - Len(f) = Len(s) - i + 1
      BY <2>1, <2>2
    <3>2. PICK p : p = Len(g) - i + 1
      OBVIOUS
    <3>3. p \in 1 .. Len(f) + Len(s) /\ ~(p <= Len(f)) /\ p - Len(f) = Len(s) - i + 1
      BY <3>1, <3>2
    <3>4. g[p] = IF p <= Len(f) THEN f[p] ELSE s[p - Len(f)]
      BY <2>1, <3>3, Zenon
    <3>5. g[p] = s[Len(s) - i + 1]
      BY <3>3, <3>4, Zenon
    <3> QED
      BY <3>2, <3>5, Zenon
  <2> QED
    BY <2>1, <2>2, <2>3
<1> HIDE DEF f, g
<1>5. Reverse(s) = [i \in 1 .. Len(s) |-> s[(Len(s) - i) + 1]]
      /\ Reverse(g) = [i \in 1 .. Len(g) |-> g[(Len(g) - i) + 1]]
  BY DEF Reverse
<1>6. /\ Len(Reverse(s)) = Len(s) /\ Len(Reverse(g)) = Len(g)
  BY <1>4, <1>5
<1>7. SubSeq(Reverse(s), 1, Len(s)) = SubSeq(Reverse(g), 1, Len(s))
  <2>1. \A i \in 1 .. Len(s) : Reverse(s)[i] = Reverse(g)[i]
    BY <1>4, <1>5
  <2> QED
    BY <1>4, <2>1
<1>8. IsSuffix(s, g)
  BY <1>4, <1>6, <1>7 DEF IsSuffix, IsPrefix
<1> QED
  BY <1>2, <1>3, <1>8 DEF f, g

\* Nothing that is learnt from the run without an operating system is different
\* in the run with one, unless a system call fails there.
THEOREM AgreeTheorem == RetargetSpec => []RunsAgree
<1>1. RetargetInv => RunsAgree
  <2> SUFFICES ASSUME RetargetInv, ~lost PROVE RunsAgree
    BY DEF RunsAgree
  <2>1. seen # NotYet => seen = read
    BY NotYetAssumption DEF RetargetInv, Agreement, LinuxInv, PlacesKept, BareInv, LinuxTypeOK
  <2>2. phase \in {"main", "exited"} => stdout = FlattenSeq(writes)
    <3> SUFFICES ASSUME phase \in {"main", "exited"} PROVE stdout = FlattenSeq(writes)
      OBVIOUS
    <3>1. due = <<>> /\ stdout \in Seq(Bytes)
      BY DEF due, RetargetInv, LinuxInv, LinuxTypeOK
    <3>2. stdout \o <<>> = stdout
      BY <3>1, ConcatEmptySeq
    <3> QED
      BY <3>1, <3>2 DEF RetargetInv, Agreement
  <2>3. exitCode # NotYet => status = exitCode
    BY DEF RetargetInv, Agreement
  <2>4. ASSUME terminal # NotYet, ~reused
        PROVE  /\ terminal = IF writes = <<>> THEN <<>> ELSE Last(writes)
               /\ IsSuffix(terminal, stdout)
    <3>1. terminal = LastWrite
      BY <2>4 DEF RetargetInv, BareInv
    <3>2. stdout = FlattenSeq(writes)
      BY <2>2, <2>4 DEF RetargetInv, BareInv, Agreement
    <3>3. CASE writes = <<>>
      <4>1. terminal = <<>> /\ stdout = <<>>
        BY <3>1, <3>2, <3>3, FlattenEmpty DEF LastWrite
      <4>2. IsSuffix(<<>>, <<>>)
        BY DEF IsSuffix, IsPrefix, Reverse
      <4> QED
        BY <3>3, <4>1, <4>2
    <3>4. CASE writes # <<>>
      BY <3>1, <3>2, <3>4, LastIsSuffix DEF LastWrite, RetargetInv, BareInv, BareTypeOK
    <3> QED
      BY <3>3, <3>4
  <2> QED
    BY <2>1, <2>2, <2>3, <2>4 DEF RunsAgree
<1> QED
  BY <1>1, RetargetAlways, PTL
================================================================================
