---------------------------- MODULE MCPatternStudy ----------------------------
EXTENDS PatternStudy

\* Registers 2 and 3 stand for all that have no fixed role.
Shape(m, r) ==
  CASE m = "addi" -> <<<<"reg", r[1]>>, <<"reg", r[2]>>, <<"imm", r[3]>>>>
    [] m = "add"  -> <<<<"reg", r[1]>>, <<"reg", r[2]>>, <<"reg", r[3]>>>>
    [] m \in {"ld", "sd"} -> <<<<"reg", r[1]>>, <<"mem", r[2], r[3]>>>>
    [] m = "beq"  -> <<<<"reg", r[1]>>, <<"reg", r[2]>>, <<"imm", r[3]>>>>
    [] OTHER -> <<>>

Code(first, shapes) ==
  [k \in DOMAIN shapes |->
     [pc |-> 4 * (first + k), mnemonic |-> shapes[k][1], fields |-> Shape(shapes[k][1], shapes[k][2])]]

\* Two functions with one block each; instance 1 is the first function, 2 a
\* call that was inlined into it, 3 the second function.
Artifact(shapes, cut, inlined) ==
  LET pcs == {4 * k : k \in DOMAIN shapes}
      first == {4 * k : k \in 1..cut}
      Block(lo, hi) == <<[code |-> Code(lo - 1, SubSeq(shapes, lo, hi)), successors |-> {}]>>
  IN [instances |-> <<[parent |-> 0, pcs |-> first], [parent |-> 1, pcs |-> {4 * k : k \in inlined}],
                      [parent |-> 0, pcs |-> pcs \ first]>>,
      functions |-> <<Block(1, cut), Block(cut + 1, Len(shapes))>>]

Straight == {<<"addi", <<2, 2, 8>>>>, <<"addi", <<3, 2, 8>>>>, <<"ld", <<3, 2, 8>>>>}
Ret == <<"ret", <<>>>>

\* Two straight pieces with a return between them, in one function; in two,
\* with and without an inlined call, so that a motif may be a lemma.
Pieces(m, n, shapes, together, inlinings) == UNION {
  {Artifact(a \o <<Ret>> \o b, IF together THEN m + n + 1 ELSE m + 1, inlined) :
     a \in [1..m -> shapes], b \in [1..n -> shapes]} : inlined \in inlinings}

Two == {<<"addi", <<2, 2, 8>>>>, <<"ld", <<3, 2, 8>>>>}

Motif == Pieces(3, 3, Two, TRUE, {{}}) \cup Pieces(4, 2, Two, FALSE, {{}}) \cup
         Pieces(3, 2, Straight, TRUE, {{}})
Resampled == Pieces(2, 2, Straight \ {<<"ld", <<3, 2, 8>>>>}, FALSE, {{}, {2}})

\* Windows: three of many instructions, four of two chains.
Windowed == {<<"addi", <<3, 2, 8>>>>, <<"add", <<2, 3, 2>>>>, <<"add", <<4, 2, 2>>>>,
             <<"ld", <<3, 2, 8>>>>, <<"ld", <<2, 0, 8>>>>, <<"sd", <<4, 3, 8>>>>,
             <<"sd", <<2, 3, 8>>>>}
Chains == {<<"ld", <<3, 2, 8>>>>, <<"ld", <<4, 2, 8>>>>, <<"addi", <<3, 3, 8>>>>, <<"addi", <<4, 4, 8>>>>}
Dag == {Artifact(a, 3, {}) : a \in [1..3 -> Windowed]} \cup
       {Artifact(a, 4, {}) : a \in {c \in [1..4 -> Chains] : c[1][1] = "ld"}}

MCNoRuns == {}
MCRuns == ((Motif \cup Dag) \X {0}) \cup (Resampled \X {1})
MCDagLengths == {3, 4}
-----------------------------------------------------------------------------
Input(t, r, s) == [text |-> t, rows |-> r, shuffled |-> s]
Line(decl, mentions, tokens) == [decl |-> decl, mentions |-> mentions, tokens |-> tokens]
Header(name) == Line(name, {name}, <<name>>)
Body(mentions) == Line("none", mentions, <<"x">>)
Word(w) == Line("none", {}, <<w>>)

Docs == {<<>>, <<Line("none", {}, <<"/-", "x", "-/">>)>>,
         <<Line("none", {}, <<"/-", "x">>), Line("none", {}, <<"end", "-/">>)>>,
         <<Word("open"), Word("end")>>}

\* Three declarations, each with a line of text; the kernel has some of them,
\* one is private.  The range of a row starts at its comment.
Names == <<"a", "b", "c'">>
Module(doc, mentions) ==
  <<Header("a"), Body(mentions[1])>> \o doc \o <<Header("b"), Body(mentions[2])>> \o
  <<Header("c'"), Body(mentions[3])>>
Row(name, private, first, last) ==
  [name |-> name, private |-> private, first |-> first, last |-> last, recovered |-> FALSE]
KernelRows(doc, private) ==
  LET d == Len(doc)
  IN <<Row("a", private = 1, 1, 2), Row("b", private = 2, 3, 4 + d), Row("c'", private = 3, 5 + d, 6 + d)>>
Mentions == {{}} \cup {{n} : n \in ToSet(Names)}
Recovery == UNION {
  {Input(Module(doc, m), {KernelRows(doc, private)[k] : k \in known \cup {private}}, FALSE) :
     m \in [1..3 -> Mentions], known \in {{}, {1, 2}}} : doc \in Docs, private \in 1..3}

\* A long declaration and a short one.
Words == {"x", "y"}
Repeats(u, v, s) ==
  LET n == Len(u)
  IN Input(<<Header("a")>> \o [k \in 1..n |-> Word(u[k])] \o <<Header("b")>> \o
             [k \in 1..Len(v) |-> Word(v[k])],
           {Row("a", FALSE, 1, n + 1), Row("b", FALSE, n + 2, n + 2 + Len(v))}, s)
Repetitive == {Repeats(u, v, FALSE) : u \in [1..7 -> Words], v \in [1..2 -> Words]} \cup
              {Repeats(<<"x", "x", "y", "x", "y">>, <<"y", "x">>, TRUE)}

\* Comments of all kinds, and a word that one of the readers leaves out.
Marks == {"/-", "-/", "--", "sorry", "end"}
Commented == {Input(<<Line("none", {}, p), Line("none", {}, q), Word("root_compliance")>>,
                    {Row("a", FALSE, 1, 3)}, FALSE) : p \in SeqOf(Marks, 3), q \in SeqOf(Marks, 2)}

MCInputs == Recovery \cup Repetitive \cup Commented
MCLengths == {2}
MCPrimed == {"c'"}
=============================================================================
