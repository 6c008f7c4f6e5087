-------------------------- MODULE PermutationTest --------------------------
(***************************************************************************)
(* The significance test of tools/ngram_motifs.py: the largest statistic   *)
(* over all motifs of a length, computed on arrays, for the corpus and for *)
(* draws of three null models.  A draw puts instruction take[p] at p.      *)
(***************************************************************************)
EXTENDS Motifs

CONSTANT MAXIMUM_SLOTS

PADDING_CODE == 1000
PINNED_OFFSET == 500

\* A window as mnemonics and codes of its register slots.  The code folds
\* this sequence into 64 bits; here two keys are equal only if it is.
alpha_keys(instructions, take, starts, length) ==
  LET Slot(i, s) == IF s <= Len(instructions[i].registers) THEN instructions[i].registers[s] ELSE -1
      Slots(p) == FlattenSeq([k \in 1..length |->
                    [s \in 1..MAXIMUM_SLOTS |-> Slot(take[p + k - 1], s)]])
      Code(slots, j) == CASE slots[j] < 0 -> PADDING_CODE
                          [] slots[j] \in PINNED_REGISTERS -> PINNED_OFFSET + slots[j]
                          [] OTHER -> SelectInSeq(slots, LAMBDA r : r = slots[j])
  IN [p \in starts |->
        <<[k \in 1..length |-> instructions[take[p + k - 1]].mnemonic],
          LET slots == Slots(p) IN [j \in DOMAIN slots |-> Code(slots, j)]>>]

\* Nothing that is left can win.
CannotWin(size, best) == size < 2 \/ (size <= best.count /\ size <= best.owners)

\* Groups of equal keys, largest first, until none that is left can win.
alpha_max_statistics(instructions, take, starts, length) ==
  LET keys == alpha_keys(instructions, take, starts, length)
      groups == {{p \in starts : keys[p] = k} : k \in Range(keys)}
      sizes == Reverse(Ascending({Cardinality(g) : g \in groups}))
      owner_of == [p \in DOMAIN take |-> instructions[take[p]].owner]
      Larger(a, b) == IF a >= b THEN a ELSE b
      Visit(g, best) ==
        IF best.stopped \/ CannotWin(Cardinality(g), best)
        THEN [best EXCEPT !.stopped = TRUE]
        ELSE LET positions == Ascending(g)
             IN [stopped |-> FALSE,
                 count |-> Larger(best.count, non_overlapping(positions, length)),
                 owners |-> Larger(best.owners, owner_support(positions, length, owner_of).owners)]
      VisitAll(best, size) == FoldSet(Visit, best, {g \in groups : Cardinality(g) = size})
      best == FoldLeft(VisitAll, [stopped |-> FALSE, count |-> 0, owners |-> 0], sizes)
  IN [count |-> best.count, owners |-> best.owners]

-----------------------------------------------------------------------------
\* Each segment keeps its instructions.
null_take_within_segment(instructions, segments) ==
  LET Join(takes, s) == {t \o order : t \in takes, order \in SetToSeqs(s[1]..s[2])}
  IN FoldLeft(Join, {<<>>}, segments)

\* Each owner keeps its instructions.
null_take_within_owner(instructions, segments) ==
  {t \in SetToSeqs(DOMAIN instructions) :
     \A p \in DOMAIN instructions : instructions[t[p]].owner = instructions[p].owner}

\* Mnemonics as a chain of pairs that the corpus has (any after one that ends
\* a segment wherever it occurs), each then an instruction with that mnemonic.
null_take_markov(instructions, segments) ==
  LET n == Len(instructions)
      Mnemonic(i) == instructions[i].mnemonic
      heads == {Mnemonic(segments[s][1]) : s \in DOMAIN segments}
      inner == UNION {segments[s][1]..(segments[s][2] - 1) : s \in DOMAIN segments}
      counts == {<<Mnemonic(i), Mnemonic(i + 1)>> : i \in inner}
      Follows(m, k) == <<m, k>> \in counts \/ \A c \in counts : c[1] # m
  IN {t \in [1..n -> 1..n] :
        /\ \A s \in DOMAIN segments : Mnemonic(t[segments[s][1]]) \in heads
        /\ \A p \in inner : Follows(Mnemonic(t[p]), Mnemonic(t[p + 1]))}

ALPHA_NULLS == <<"N1_markovInstruction", "N2_segmentPermutation", "N3_ownerPermutation">>

draw(name, instructions, segments) ==
  CASE name = ALPHA_NULLS[1] -> null_take_markov(instructions, segments)
    [] name = ALPHA_NULLS[2] -> null_take_within_segment(instructions, segments)
    [] name = ALPHA_NULLS[3] -> null_take_within_owner(instructions, segments)

\* The statistics of a take, for each of the lengths.
Statistics(instructions, segments, take, lengths) ==
  [length \in lengths |->
     alpha_max_statistics(instructions, take, Starts(segments, length), length)]

\* Mutant of empirical_p: a draw as large as the observation is not counted.
empirical_pStrict(null_values, observed) ==
  Cardinality({k \in DOMAIN null_values : null_values[k] > observed}) + 1

\* The numerator of the add-one estimate over Len(null_values) + 1.
empirical_p(null_values, observed) ==
  Cardinality({k \in DOMAIN null_values : null_values[k] >= observed}) + 1
=============================================================================
