---------------------------- MODULE MCLevelManifest ----------------------------
EXTENDS LevelManifest

MCFunctions ==
  [_start |-> 1 .. 2, main |-> 3 .. 7, f |-> 8 .. 11, g |-> 12 .. 13, zkvm_exit |-> 14 .. 15]

Op(kind, to) == [kind |-> kind, to |-> to]
Plain == Op("plain", 0)
Ret == Op("ret", 0)
Ecall == Op("ecall", 0)

\* All combinations of these instructions.
AllCodes ==
  {<<Op("call", "main"), Op("jump", 2), Plain, o4, o5, o6, o7, o8, o9, Ecall, o11, o12, o13, Plain,
     Op("jump", 15)>> :
     o4 \in {Op("branch", 7), Op("call", "g")},
     o5 \in {Op("call", "f"), Op("tail", "g")},
     o6 \in {Op("call", "f"), Op("jump", 4)},
     o7 \in {Ret, Op("tail", "f"), Op("call", "zkvm_exit")},
     o8 \in {Op("branch", 11)},
     o9 \in {Op("call", "g"), Op("branch", 8), Op("call", "f")},
     o11 \in {Ret, Op("tail", "g")},
     o12 \in {Op("tail", "f"), Ret, Op("call", "f")},
     o13 \in {Ret, Ecall}}

\* g ends the program only where it does so after a call that returns.
MCCodes ==
  {c \in AllCodes : c[13] = Ret \/ <<c[9].kind, c[11], c[12].kind>> = <<"branch", Ret, "call">>}

Inline(parent, pcs) == [parent |-> parent, pcs |-> pcs]
MCInlinings ==
  {[i1 |-> Inline("main", {4, 6})],
   [i1 |-> Inline("main", {4, 5, 6}), i2 |-> Inline("i1", {5})],
   [i1 |-> Inline("main", {5, 6, 7})],
   [i2 |-> Inline("f", {11})],
   [i1 |-> Inline("f", {9, 10}), i2 |-> Inline("main", {3, 4})]}
===============================================================================
