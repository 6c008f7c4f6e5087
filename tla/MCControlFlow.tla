----------------------------- MODULE MCControlFlow -----------------------------
EXTENDS FlameGraph

MCFunctions == [f |-> 1 .. 4, g |-> 5 .. 6, h |-> 7 .. 8]

Op(kind, to) == [kind |-> kind, to |-> to]
Plain == Op("plain", 0)
Ret == Op("end", 0)
Indirect == Op("indirect", 0)
Jr == Op("jr", 0)
Trap == Op("trap", 0)

\* Branches and jumps back and forth, calls in a circle, a call of a label, a
\* jump to the entry of another function, traps, and data next to a label.
MCPrograms ==
  {<<o1, o2, o3, o4, o5, o6, o7, o8>> :
     o1 \in {Plain, Op("call", 5)},
     o2 \in {Op("plain", 4), Op("call", 7), Op("branch", 4), Op("call", 4)},
     o3 \in {Op("branch", 1), Op("jump", 2), Indirect, Jr, Op("tail", 5)},
     o4 \in {Op("branch", 2), Ret, Trap},
     o5 \in {Op("branch", 6), Op("call", 7)},
     o6 \in {Ret, Op("tail", 5)},
     o7 \in {Op("call", 1), Op("call", 5), Op("branch", 7)},
     o8 \in {Ret}}

\* An indirect call followed by whatever a compiler puts behind it.
MCIndirectPrograms ==
  {<<o1, Indirect, o3, Ret, Ret, Ret, Ret, Ret>> :
     o1 \in {Plain, Op("branch", 3)}, o3 \in {Plain, Op("call", 5)}}

-------------------------------------------------------------------------------
MCNoInputs == {}
MCNames == <<"alias", "g", "h", "inner", "main">>
Symbol(name, start, size) == [name |-> name, start |-> start, size |-> size]
Apart == {Symbol("main", 1, 4), Symbol("g", 5, 2), Symbol("h", 7, 2)}

\* Calls in a circle, of the function itself and of the next instruction,
\* a tail call, jumps through registers, a trap, calls that
\* nothing reaches.
MCFlameCode ==
  {<<o1, o2, o3, o4, o5, Ret, o7, Ret>> :
     o1 \in {Plain, Op("call", 5)},
     o2 \in {Plain, Op("call", 7), Op("branch", 4), Op("call", 3)},
     o3 \in {Plain, Op("call", 5), Op("jump", 2), Indirect, Jr, Trap},
     o4 \in {Ret, Op("branch", 2), Op("tail", 5)},
     o5 \in {Op("branch", 6), Op("call", 7)},
     o7 \in {Plain, Op("call", 1), Op("call", 5), Op("call", 7)}}

\* main with a call that is inlined, in pieces or without code, and a second
\* one in a lexical block of main or of the first; g with or without an entry.
Dies(a, b, inA, c, gTag) ==
  <<[tag |-> "concrete", pcs |-> 1 .. 4, parent |-> 0],
    [tag |-> "inlined", pcs |-> a, parent |-> 1],
    [tag |-> "block", pcs |-> a \cup b, parent |-> IF inA THEN 2 ELSE 1],
    [tag |-> "inlined", pcs |-> b, parent |-> 3],
    [tag |-> gTag, pcs |-> 5 .. 6, parent |-> 0],
    [tag |-> "inlined", pcs |-> c, parent |-> 5],
    [tag |-> "concrete", pcs |-> 7 .. 8, parent |-> 0]>>

MCDies ==
  {Dies({2, 3}, {3}, TRUE, {}, "concrete"), Dies({1, 3}, {1, 3}, TRUE, {5}, "concrete"),
   Dies({1, 2}, {3}, FALSE, {5, 6}, "concrete"), Dies({}, {2}, TRUE, {}, "block"),
   Dies({1, 2, 3, 4}, {2, 3}, TRUE, {5}, "concrete")}

\* Of g, with a second name as well.
MCFlameInputs ==
  {[code |-> p, symbols |-> Apart, dies |-> d] : p \in MCFlameCode, d \in MCDies} \cup
  {[code |-> p, symbols |-> Apart \cup {Symbol("alias", 5, 2)}, dies |-> d] :
     p \in {q \in MCFlameCode : q[4] = Ret}, d \in MCDies}
===============================================================================
