------------------------------ MODULE LeanText ------------------------------
(***************************************************************************)
(* The four readers of Lean text in tools/: what each takes for code.      *)
(* A text is a sequence of lines, a line a sequence of tokens: "/-", "-/", *)
(* "--", "quote", "backslash", or a word.                                  *)
(***************************************************************************)
EXTENDS Integers, Sequences, FiniteSets, SequencesExt

Blank == ""

\* check_lean_trust.py: the text with everything blanked that is inside a
\* comment, which may be nested, or a string.
erase_comments_and_literals(text) ==
  LET Step(m, t) ==
        LET blanked == [m EXCEPT !.out = Append(@, IF t = "newline" THEN t ELSE Blank)]
        IN CASE m.escaped -> [m EXCEPT !.out = Append(@, Blank), !.escaped = FALSE]
             [] m.line -> [blanked EXCEPT !.line = t # "newline"]
             [] m.depth > 0 -> [blanked EXCEPT !.depth = @ + (CASE t = "/-" -> 1 [] t = "-/" -> -1
                                                                [] OTHER -> 0)]
             [] m.quoted -> [blanked EXCEPT !.escaped = t = "backslash", !.quoted = t # "quote"]
             [] t = "/-" -> [blanked EXCEPT !.depth = 1]
             [] t = "--" -> [blanked EXCEPT !.line = TRUE]
             [] t = "quote" -> [blanked EXCEPT !.quoted = TRUE]
             [] OTHER -> [m EXCEPT !.out = Append(@, t)]
      tokens == FlattenSeq([k \in DOMAIN text |-> Append(text[k], "newline")])
  IN FoldLeft(Step, [depth |-> 0, quoted |-> FALSE, escaped |-> FALSE, line |-> FALSE,
                     out |-> <<>>], tokens).out

FORBIDDEN == {"sorry"}
ROOT_DECL == {"root_compliance", "root_other"}

\* The audit passes: no forbidden word and one root theorem.
trust_audit(text) ==
  LET clean == erase_comments_and_literals(text)
  IN /\ FORBIDDEN \cap ToSet(clean) = {}
     /\ SelectSeq(clean, LAMBDA w : w \in ROOT_DECL) = <<"root_compliance">>

\* build_hlevel2_baseline.py: lines with something outside of comments.
non_comment_lines(text) ==
  LET Token(m, t) ==
        CASE m.cut -> m
          [] m.depth > 0 /\ t = "-/" -> [m EXCEPT !.depth = @ - 1]
          [] t = "/-" -> [m EXCEPT !.depth = @ + 1]
          [] m.depth = 0 /\ t = "--" -> [m EXCEPT !.cut = TRUE]
          [] OTHER -> [m EXCEPT !.visible = @ \/ m.depth = 0]
      Line(acc, line) ==
        LET read == FoldLeft(Token, [depth |-> acc.depth, cut |-> FALSE, visible |-> FALSE], line)
        IN [depth |-> read.depth, count |-> acc.count + IF read.visible THEN 1 ELSE 0]
  IN FoldLeft(Line, [depth |-> 0, count |-> 0], text).count

\* ngram_lean.py: one line after the other, m.inside of a comment that a line
\* has opened at its start and no line has closed.
\* Lines that begin with one of these words are left out; "end" stands for an
\* end that a name follows.
SKIP == {"import", "open", "end"}

ReadLine(m, line) ==
  LET closes == "-/" \in ToSet(line)
      opens == line # <<>> /\ Head(line) = "/-"
  IN [inside |-> ~closes /\ (m.inside \/ opens),
      code |-> ~m.inside /\ ~opens /\ line # <<>> /\ Head(line) \notin SKIP \cup {"--"}]
=============================================================================
