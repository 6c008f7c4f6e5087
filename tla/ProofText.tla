------------------------------ MODULE ProofText ------------------------------
(***************************************************************************)
(* From the dependencies of the root theorem to the repeated proof text:   *)
(* tools/build_hlevel2_baseline.py recovers the declarations behind        *)
(* private ones and counts lines, tools/ngram_lean.py reads the same       *)
(* declarations as a stream of lines and covers it with repeated windows.  *)
(* One module of the Lean library; a line of it is                         *)
(*   [decl: name that the line declares, or "none";                        *)
(*    mentions: names that occur in it; tokens: see LeanText].             *)
(* A row of the manifest is [name, private, first, last, recovered].       *)
(***************************************************************************)
EXTENDS LeanText, PatternCover

CONSTANTS Inputs,         \* [text; rows that the kernel reports; shuffled]
          CensusLengths,        \* lengths that the census asks for
          PrimedNames     \* names that end in a quote

VARIABLES
  step, text, rows,
  selected,      \* names that the recovery has found
  loc,           \* nonCommentLeanLoc
  corpus,        \* the stream: sequence of [line, owner, segment]
  shuffled       \* whether this census is the one of the shuffled control

proofVars == <<step, text, rows, selected, loc, corpus, shuffled, coverVars>>
textVars == <<step, text, rows, selected, loc, corpus, shuffled>>

NoText ==
  /\ selected = {} /\ loc = 0 /\ corpus = <<>>
  /\ size = 1 /\ candidates = <<>> /\ CoverInit

TextInit ==
  /\ step = "recover"
  /\ \E input \in Inputs : text = input.text /\ rows = input.rows /\ shuffled = input.shuffled
  /\ NoText

-----------------------------------------------------------------------------
\* expand_private_sources.

Headers == {k \in DOMAIN text : text[k].decl # "none"}

\* A declaration runs to the line on which the next one starts.
SourceRow(h) ==
  [name |-> text[h].decl, first |-> h,
   last |-> Min({k \in Headers : k > h} \cup {Len(text) + 1})]
source_rows == {SourceRow(h) : h \in Headers}

Bodies(names) ==
  UNION {text[k].mentions : k \in {k \in DOMAIN text :
           \E row \in source_rows : row.name \in names /\ k \in row.first..row.last}}

anchors == {row \in rows : row.private}

Anchor ==
  /\ step = "recover" /\ step' = "sweep"
  /\ selected' = {row.name : row \in {r \in source_rows :
                    \E anchor \in anchors : anchor.first \in r.first..r.last}}
  /\ UNCHANGED <<text, rows, loc, corpus, shuffled, coverVars>>

\* One pass of the loop.  The word boundary after a quote never matches.
Found == {row.name : row \in source_rows} \cap (Bodies(selected) \ PrimedNames)

Sweep ==
  /\ step = "sweep" /\ Found \ selected # {}
  /\ selected' = selected \cup Found
  /\ UNCHANGED <<step, text, rows, loc, corpus, shuffled, coverVars>>

Recovered ==
  {[name |-> row.name, private |-> FALSE, first |-> row.first, last |-> row.last,
    recovered |-> TRUE] :
     row \in {r \in source_rows : /\ r.name \in selected
                                  /\ \A known \in rows : known.first # r.first \/ known.last # r.last}}

\* Mutant of NothingNew: one pass is enough.
OnePass == TRUE

NothingNew == Found \subseteq selected

Expand ==
  /\ step = "sweep" /\ NothingNew /\ step' = "count"
  /\ rows' = rows \cup Recovered
  /\ UNCHANGED <<text, selected, loc, corpus, shuffled, coverVars>>

-----------------------------------------------------------------------------
Lines(row) == (row.first..row.last) \cap DOMAIN text

\* Mutant of Unclaimed: a line in two ranges is read twice.
UnclaimedOrNot(row, claimed) == Lines(row)

Unclaimed(row, claimed) == Lines(row) \ claimed

\* The lines of all declarations, one after the other.
Count ==
  /\ step = "count" /\ step' = "read"
  /\ LET source_lines == UNION {Lines(row) : row \in rows}
         joined == SelectSeq([k \in DOMAIN text |-> k], LAMBDA k : k \in source_lines)
     IN loc' = non_comment_lines([k \in DOMAIN joined |-> text[joined[k]].tokens])
  /\ UNCHANGED <<text, rows, selected, corpus, shuffled, coverVars>>

\* from_manifest: recovered rows first, private ones last, then by range; a
\* range once, and a line in the first declaration that claims it.
Before(r, s) ==
  LET Class(row) == CASE row.recovered -> 0 [] row.private -> 2 [] OTHER -> 1
  IN \/ Class(r) < Class(s)
     \/ Class(r) = Class(s) /\ (r.first < s.first \/ (r.first = s.first /\ r.last < s.last))

ReadRow(acc, row) ==
  LET Line(m, k) ==
        IF k \notin Unclaimed(row, acc.claimed) THEN m
        ELSE LET read == ReadLine(m, text[k].tokens)
             IN [inside |-> read.inside, code |-> IF read.code THEN Append(m.code, k) ELSE m.code]
      code == FoldLeft(Line, [inside |-> FALSE, code |-> <<>>], [k \in DOMAIN text |-> k]).code
  IN [claimed |-> acc.claimed \cup Lines(row),
      stream |-> acc.stream \o
        [k \in DOMAIN code |-> [line |-> code[k], owner |-> row.name, segment |-> row.first]]]

Read ==
  /\ step = "read" /\ step' = "group"
  /\ LET Rank(r) == Cardinality({s \in rows : Before(s, r)}) + 1
         unique == {r \in rows : \A s \in rows : s.first = r.first /\ s.last = r.last => ~Before(s, r)}
         Step(acc, k) == LET now == {r \in unique : Rank(r) = k}
                         IN IF now = {} THEN acc ELSE ReadRow(acc, CHOOSE r \in now : TRUE)
     IN corpus' = FoldLeft(Step, [claimed |-> {}, stream |-> <<>>],
                           [k \in 1..Cardinality(rows) |-> k]).stream
  /\ UNCHANGED <<text, rows, selected, loc, shuffled, coverVars>>

-----------------------------------------------------------------------------
Identity == [i \in DOMAIN corpus |-> i]
Tokens == [i \in DOMAIN corpus |-> text[corpus[i].line].tokens]

\* shuffled_control: the lines of each declaration in any order.
Shuffles ==
  LET Insert(s, pos, t) == SubSeq(s, 1, pos - 1) \o <<t>> \o SubSeq(s, pos, Len(s))
      Shuffle(acc, i) ==
        LET first == Min({k \in 1..i : corpus[k].segment = corpus[i].segment})
        IN {Insert(s, pos, Tokens[i]) : s \in acc, pos \in first..i}
  IN FoldLeft(Shuffle, {<<>>}, Identity)

StreamWindows(length) ==
  {i \in DOMAIN corpus : i + length - 1 \in DOMAIN corpus /\
     \A k \in i..(i + length - 1) : corpus[k].segment = corpus[i].segment}

\* groups: repeated windows by their lines, keys in order of first occurrence.
Groups(tokens, length) ==
  LET Alike(i, j) == \A k \in 0..(length - 1) : tokens[i + k] = tokens[j + k]
      Class(i) == SelectSeq(Identity, LAMBDA j : j \in StreamWindows(length) /\ Alike(i, j))
      First(i) == i \in StreamWindows(length) /\ Len(Class(i)) >= 2 /\ Class(i)[1] = i
      firsts == SelectSeq(Identity, First)
  IN [k \in DOMAIN firsts |-> Class(firsts[k])]

\* One row of the census, of the corpus or of the shuffled control.
Group ==
  /\ step = "group" /\ step' = "cover"
  /\ size' \in CensusLengths
  /\ \E tokens \in IF shuffled THEN Shuffles ELSE {Tokens} : candidates' = Groups(tokens, size')
  /\ UNCHANGED <<text, rows, selected, loc, corpus, shuffled,
                 covered, placements, at, chosen, limit, best, running>>

Cover == step = "cover" /\ CoverNext /\ UNCHANGED textVars

TextNext == Anchor \/ Sweep \/ Expand \/ Count \/ Read \/ Group \/ Cover

TextSpec == TextInit /\ [][TextNext]_proofVars

-----------------------------------------------------------------------------
\* The recovery stops at the least set of names that has the anchors' and,
\* with each name, all that its text names (expand_private_sources).
RecoveryIsClosure ==
  step = "count" =>
    LET names == {row.name : row \in source_rows} \ PrimedNames
        Closed(S) == names \cap Bodies(S) \subseteq S
        Anchored(S) == \A anchor \in anchors : \A row \in source_rows :
                         anchor.first \in row.first..row.last => row.name \in S
    IN /\ Anchored(selected) /\ Closed(selected)
       /\ \A S \in SUBSET selected : Anchored(S) /\ Closed(S) => S = selected

Kinds(k) == ToSet(text[k].tokens) \cap {"/-", "-/", "--"}
opens == {k \in DOMAIN text : "/-" \in Kinds(k) /\ "-/" \notin Kinds(k)}
closes == {k \in DOMAIN text : "-/" \in Kinds(k) /\ "/-" \notin Kinds(k)}

\* Comments stand on lines of their own and none is inside another.
PlainComments ==
  /\ \A k \in DOMAIN text : Kinds(k) \cap {"/-", "--"} # {} => Head(text[k].tokens) \in Kinds(k)
  /\ \A k \in DOMAIN text : "-/" \in Kinds(k) => Last(text[k].tokens) = "-/"
  /\ \A k \in opens : \E c \in closes : k < c /\ \A m \in k..c : text[m].decl = "none" /\
                        (m \in opens \cup closes => m \in {k, c})
  /\ \A c \in closes : \E k \in opens : k < c
  /\ \A k \in DOMAIN text : \A t \in Kinds(k) :
       Cardinality({i \in DOMAIN text[k].tokens : text[k].tokens[i] = t}) = 1

\* Lines of the declarations with a word at their start that the study leaves out.
InComment(k) == \E o \in opens, c \in closes :
                  /\ Head(text[o].tokens) = "/-" /\ o < k /\ k <= c
                  /\ \A m \in opens \cup closes : m <= o \/ c <= m
Skipped == {k \in UNION {Lines(row) : row \in rows} :
              text[k].tokens # <<>> /\ Head(text[k].tokens) \in SKIP /\ ~InComment(k)}

\* The lines that the baseline counts are those of the study of the proof text,
\* each once, and the lines with a word of SKIP, which only the baseline counts:
\* though one reads range by range, and a line in the first that has it, and the
\* other all lines in order.
CorpusIsLoc ==
  step = "group" /\ PlainComments =>
    /\ Len(corpus) + Cardinality(Skipped) = loc
    /\ \A i, j \in DOMAIN corpus : corpus[i].line = corpus[j].line => i = j

\* On text without strings the audit of forbidden words and the baseline see
\* code on the same lines, whatever the comments do.
LexersAgree ==
  step = "recover" =>
    LET lines == [k \in DOMAIN text |-> text[k].tokens]
        clean == erase_comments_and_literals(lines)
        ends == {i \in DOMAIN clean : clean[i] = "newline"}
        Visible(e) == \E i \in 1..(e - 1) : clean[i] \notin {Blank, "newline"} /\
                                            \A m \in ends : ~(i < m /\ m < e)
    IN (\A k \in DOMAIN lines : "quote" \notin ToSet(lines[k])) =>
         Cardinality({e \in ends : Visible(e)}) = non_comment_lines(lines)

\* In a text that the audit accepts a forbidden word makes no line a line of
\* code for the baseline.
AuditIsSound ==
  step = "recover" =>
    LET lines == [k \in DOMAIN text |-> text[k].tokens]
        Allowed(t) == t \notin FORBIDDEN
    IN trust_audit(lines) =>
         non_comment_lines(lines) = non_comment_lines([k \in DOMAIN lines |-> SelectSeq(lines[k], Allowed)])

\* The three readers of Lean text agree on which lines are code, where the
\* text allows it (from_manifest, non_comment_lines,
\* erase_comments_and_literals).
ReadersAgree == CorpusIsLoc /\ LexersAgree /\ AuditIsSound

\* A declaration is recovered because an opaque one is in it or because the
\* text of another one that was found names it: "Recover source dependencies
\* hidden inside opaque private theorem constants"
\* (expand_private_sources, docstring).
RecoveredAreDependencies ==
  step = "count" =>
    \A row \in source_rows : row.name \in selected =>
      \/ \E anchor \in anchors : anchor.first \in row.first..(row.last - 1)
      \/ \E other \in source_rows \ {row} :
           /\ other.name \in selected
           /\ row.name \in UNION {text[k].mentions : k \in other.first..(other.last - 1)}
=============================================================================
