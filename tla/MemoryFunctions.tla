----------------------------- MODULE MemoryFunctions -----------------------------
(***************************************************************************)
(* memcpy, memmove, memset and memcmp of runtime/riscv64/riscv64_runtime.c *)
(* on one memory, a byte at a time as the loops go.  memcmp's lhs and rhs  *)
(* are dst and src here.                                                   *)
(***************************************************************************)
EXTENDS Integers

CONSTANTS
  Size,         \* bytes of memory: addresses 0 .. Size - 1
  ByteSize,     \* values of an unsigned char (256 in C)
  Fills         \* values of memset's int argument

ASSUME SizeAssumption == Size \in Nat /\ ByteSize \in Nat \ {0} /\ Fills \subseteq Int

Addresses == 0 .. Size - 1
ByteValues == 0 .. ByteSize - 1
Ops == {"memcpy", "memmove", "memset", "memcmp"}

VARIABLES
  op, dst, src, n, c,   \* the call
  before,               \* the memory when it was made
  mem,
  k,                    \* the loop variable: i, or n in memmove's second loop
  returned, result      \* the function has returned, with this

callVars == <<op, dst, src, n, c, before>>
memVars == <<callVars, mem, k, returned, result>>

Backward == op = "memmove" /\ dst > src

\* restrict: memcpy may assume that what it writes is not what it reads.
Legal ==
  /\ dst + n <= Size
  /\ src + n <= Size
  /\ op = "memcpy" => dst + n <= src \/ src + n <= dst

MemTypeOK ==
  /\ op \in Ops /\ dst \in Nat /\ src \in Nat /\ n \in Nat /\ c \in Fills
  /\ before \in [Addresses -> ByteValues]
  /\ mem \in [Addresses -> ByteValues]
  /\ k \in 0 .. n
  /\ returned \in BOOLEAN
  /\ result \in Int

MemInit ==
  /\ op \in Ops /\ dst \in 0 .. Size /\ src \in 0 .. Size /\ n \in 0 .. Size /\ c \in Fills
  /\ Legal
  /\ before \in [Addresses -> ByteValues]
  /\ mem = before
  /\ k = IF Backward THEN n ELSE 0
  /\ returned = FALSE
  /\ result = 0

Store(a, b) == mem' = [mem EXCEPT ![a] = b]

\* Mutant of TakesForward: memmove always goes up.
TakesForwardAlways == op \in {"memcpy", "memmove"}

\* Does the loop go up?  memmove(p, p, n) has no loop.
TakesForward ==
  \/ op = "memcpy"
  \/ op = "memmove" /\ dst < src

CopyForward ==
  /\ ~returned
  /\ TakesForward
  /\ k < n
  /\ Store(dst + k, mem[src + k])
  /\ k' = k + 1
  /\ UNCHANGED <<callVars, returned, result>>

CopyBackward ==
  /\ ~returned
  /\ op = "memmove" /\ dst > src
  /\ k # 0
  /\ Store(dst + (k - 1), mem[src + (k - 1)])
  /\ k' = k - 1
  /\ UNCHANGED <<callVars, returned, result>>

\* Mutant of AsByte: saturates.
AsByteSaturating(i) == IF i > ByteSize - 1 THEN ByteSize - 1 ELSE IF i < 0 THEN 0 ELSE i

\* The conversion (unsigned char)c.
AsByte(i) == i % ByteSize

Fill ==
  /\ ~returned
  /\ op = "memset"
  /\ k < n
  /\ Store(dst + k, AsByte(c))
  /\ k' = k + 1
  /\ UNCHANGED <<callVars, returned, result>>

\* Mutant of Difference: a byte above the middle is negative, as in a plain char.
DifferenceSigned(l, r) ==
  LET signed(b) == IF b >= ByteSize \div 2 THEN b - ByteSize ELSE b IN signed(l) - signed(r)

Difference(l, r) == l - r

Compare ==
  /\ ~returned
  /\ op = "memcmp"
  /\ k < n
  /\ IF mem[dst + k] # mem[src + k]
     THEN /\ returned' = TRUE
          /\ result' = Difference(mem[dst + k], mem[src + k])
          /\ UNCHANGED k
     ELSE /\ k' = k + 1
          /\ UNCHANGED <<returned, result>>
  /\ UNCHANGED <<callVars, mem>>

LoopEnd ==
  IF op = "memmove"
  THEN \/ dst = src
       \/ dst < src /\ k = n
       \/ dst > src /\ k = 0
  ELSE k = n

Return ==
  /\ ~returned
  /\ LoopEnd
  /\ returned' = TRUE
  /\ result' = IF op = "memcmp" THEN 0 ELSE dst
  /\ UNCHANGED <<callVars, mem, k>>

MemNext == CopyForward \/ CopyBackward \/ Fill \/ Compare \/ Return

MemSpec == MemInit /\ [][MemNext]_memVars

-------------------------------------------------------------------------------
(* Properties.                                                             *)

Written(a) == dst <= a /\ a < dst + n

\* After memcpy or memmove the destination holds what the source held when the
\* call was made, also where the two overlap; nothing else has changed.
CopyExact ==
  returned /\ op \in {"memcpy", "memmove"} =>
    /\ \A a \in Addresses : mem[a] = IF Written(a) THEN before[src + (a - dst)] ELSE before[a]
    /\ result = dst

\* memset writes the low byte of its argument to the n bytes and no other.
SetExact ==
  returned /\ op = "memset" =>
    \A a \in Addresses : IF Written(a) THEN mem[a] \in ByteValues /\ (mem[a] - c) % ByteSize = 0
                                       ELSE mem[a] = before[a]

\* memcmp orders byte strings as unsigned numbers at the first difference.
CompareExact ==
  returned /\ op = "memcmp" =>
    /\ mem = before
    /\ result = 0 <=> \A j \in 0 .. n - 1 : mem[dst + j] = mem[src + j]
    /\ result # 0 =>
         \E j \in 0 .. n - 1 :
           /\ \A h \in 0 .. j - 1 : mem[dst + h] = mem[src + h]
           /\ result < 0 <=> mem[dst + j] < mem[src + j]
           /\ mem[dst + j] # mem[src + j]
===============================================================================
