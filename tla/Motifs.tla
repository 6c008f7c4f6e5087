------------------------------- MODULE Motifs -------------------------------
(***************************************************************************)
(* The algorithms of tools/ngram_motifs.py on token streams and on         *)
(* windows of instructions.  Positions count from 1.                       *)
(***************************************************************************)
EXTENDS InstructionStream

CONSTANT MAXIMUM_LENGTH

Lengths == 2..MAXIMUM_LENGTH
Indices(s) == [i \in DOMAIN s |-> i]
Width(pair) == pair[2] - pair[1] + 1

\* Ranks after sorting by (rank[i], rank[i + step]); -1 is beyond the end.
Reranked(rank, step) ==
  LET n == Len(rank)
      key == [i \in 1..n |-> <<rank[i], IF i + step <= n THEN rank[i + step] ELSE -1>>]
      Below(k, l) == k[1] < l[1] \/ (k[1] = l[1] /\ k[2] < l[2])
      keys == Range(key)
  IN [i \in 1..n |-> Cardinality({k \in keys : Below(k, key[i])})]

\* Prefix doubling until all ranks differ.
suffix_array(stream) ==
  LET n == Len(stream)
      Round(rank, k) == IF k > 1 /\ Cardinality(Range(rank)) = n THEN rank
                        ELSE Reranked(rank, 2 ^ (k - 1))
      final == FoldLeft(Round, stream, Indices(stream))
  IN [k \in 1..n |-> CHOOSE i \in 1..n : final[i] = k - 1]

\* Kasai: the common prefix of a suffix and the one sorted before it is at
\* least that of the suffix before minus one.
lcp_array(stream, order) ==
  LET n == Len(stream)
      position == [s \in 1..n |-> CHOOSE k \in 1..n : order[k] = s]
      Differs(s, p, l) == s + l > n \/ p + l > n \/ stream[s + l] # stream[p + l]
      Suffix(acc, s) ==
        IF position[s] = 1 THEN [acc EXCEPT !.length = 0]
        ELSE LET p == order[position[s] - 1]
                 l == Min({m \in acc.length..n : Differs(s, p, m)})
             IN [lcp |-> [acc.lcp EXCEPT ![position[s]] = l],
                 length |-> IF l > 0 THEN l - 1 ELSE 0]
  IN FoldLeft(Suffix, [lcp |-> [k \in 1..n |-> 0], length |-> 0], Indices(stream)).lcp

\* The interval low..high of the suffix array, if it is not left-extendable.
Emitted(stream, order, length, low, high, minimum_length) ==
  LET positions == {order[k] : k \in low..high}
      left == {IF p > 1 THEN <<stream[p - 1]>> ELSE <<>> : p \in positions}
  IN IF length >= minimum_length /\ high > low /\ Cardinality(left) >= 2
     THEN {<<length, positions>>} ELSE {}

\* The scan of the LCP array with a stack of open intervals [value, low].
maximal_repeats(stream, minimum_length) ==
  LET n == Len(stream)
      order == suffix_array(stream)
      lcp == lcp_array(stream, order)
      Scan(acc, i) ==
        LET value == IF i < n THEN lcp[i + 1] ELSE 0
            closed == SelectSeq(acc.stack, LAMBDA e : e.value > value)
            open == SelectSeq(acc.stack, LAMBDA e : e.value <= value)
            start == IF closed = <<>> THEN i + 1 ELSE closed[1].low
        IN [stack |-> IF open = <<>> \/ Last(open).value < value
                      THEN Append(open, [value |-> value, low |-> start]) ELSE open,
            results |-> acc.results \cup
              UNION {Emitted(stream, order, closed[k].value, closed[k].low - 1, i,
                             minimum_length) : k \in DOMAIN closed}]
  IN FoldLeft(Scan, [stack |-> <<>>, results |-> {}], Indices(stream)).results

-----------------------------------------------------------------------------
\* Greedy from the left; positions are sorted.
non_overlapping(positions, length) ==
  LET Place(acc, p) == IF p >= acc.limit THEN [count |-> acc.count + 1, limit |-> p + length]
                       ELSE acc
  IN FoldLeft(Place, [count |-> 0, limit |-> 0], positions).count

\* The KMP failure function, a prefix after the other.
smallest_period(tokens) ==
  LET Extended(failure, i) ==
        LET fall[k \in 0..i] == IF k = 0 \/ tokens[i] = tokens[k + 1] THEN k
                                ELSE fall[failure[k]]
            k == IF i = 1 THEN 0 ELSE fall[failure[i - 1]]
        IN Append(failure, IF i > 1 /\ tokens[i] = tokens[k + 1] THEN k + 1 ELSE k)
  IN Len(tokens) - Last(FoldLeft(Extended, <<>>, Indices(tokens)))

\* Owners of a whole occurrence, and how many occurrences have several.
owner_support(positions, length, owner_of) ==
  LET Owners(p) == {owner_of[k] : k \in p..(p + length - 1)}
      whole == {k \in DOMAIN positions : Cardinality(Owners(positions[k])) = 1}
  IN [owners |-> Cardinality({owner_of[positions[k]] : k \in whole}),
      straddling |-> Len(positions) - Cardinality(whole)]

-----------------------------------------------------------------------------
\* Registers by order of first appearance in the window, those that are
\* pinned as themselves.
alpha_rename(window) ==
  LET all == FlattenSeq([k \in DOMAIN window |-> window[k].registers])
      rename(r) == IF r \in PINNED_REGISTERS THEN -1 - r
                   ELSE LET first == SelectInSeq(all, LAMBDA x : x = r)
                        IN Cardinality({all[k] : k \in 1..(first - 1)} \ PINNED_REGISTERS)
  IN [k \in DOMAIN window |->
        <<window[k].mnemonic,
          [s \in DOMAIN window[k].registers |-> rename(window[k].registers[s])]>>]

\* Tokens as numbers, the segments joined by separators that occur once each.
stream_with_separators(tokens, segments) ==
  LET code == [i \in DOMAIN tokens |-> SelectInSeq(tokens, LAMBDA t : t = tokens[i])]
  IN FlattenSeq([s \in DOMAIN segments |->
       (IF s > 1 THEN <<-s>> ELSE <<>>) \o SubSeq(code, segments[s][1], segments[s][2])])

\* Starts of the windows of a length, which cross no segment.
Starts(segments, length) ==
  UNION {segments[s][1]..(segments[s][2] - length + 1) : s \in DOMAIN segments}

\* Windows by key, if the key occurs twice: key -> sorted starts.
Repeated(key, starts) ==
  [k \in {k \in {key[p] : p \in starts} :
            Cardinality({p \in starts : key[p] = k}) >= 2} |->
     Ascending({p \in starts : key[p] = k})]

length_spectrum(tokens, segments) ==
  [length \in Lengths |->
     LET starts == Starts(segments, length)
         gram == [p \in starts |-> SubSeq(tokens, p, p + length - 1)]
     IN [windows |-> Cardinality(starts), distinct |-> Cardinality(Range(gram)),
         repeated |-> Cardinality(DOMAIN Repeated(gram, starts))]]

alpha_motifs(instructions, segments) ==
  [length \in Lengths |->
     LET starts == Starts(segments, length)
     IN Repeated([p \in starts |-> alpha_rename(SubSeq(instructions, p, p + length - 1))],
                 starts)]

\* Mutant of ExtendedStarts: only extensions to the right.
ExtendedRight(by_length, length) ==
  IF length \in Lengths THEN Range(by_length[length]) ELSE {}

\* Where the windows of motifs of a length start, and one instruction later.
ExtendedStarts(by_length, length) ==
  IF length \notin Lengths THEN {}
  ELSE LET longer == Range(by_length[length])
       IN longer \cup {[k \in DOMAIN s |-> s[k] + 1] : s \in longer}

\* Motifs that no extension by one instruction has the occurrences of.
closed_alpha_motifs(by_length) ==
  UNION {{[length |-> length, motif |-> m, starts |-> by_length[length][m]] :
            m \in {x \in DOMAIN by_length[length] :
                     by_length[length][x] \notin ExtendedStarts(by_length, length + 1)}} :
         length \in Lengths}

-----------------------------------------------------------------------------
\* Which immediates of a motif are constant, move with the first one that
\* varies, or are free.
immediate_structure(windows) ==
  LET rows == [w \in DOMAIN windows |->
                 FlattenSeq([k \in DOMAIN windows[w] |-> windows[w][k].immediates])]
      constant == {j \in DOMAIN rows[1] : \A w \in DOMAIN rows : rows[w][j] = rows[1][j]}
      varying == DOMAIN rows[1] \ constant
      Offset(w, j) == rows[w][j] - rows[w][Min(varying)]
      tied == {j \in varying : \A w \in DOMAIN rows : Offset(w, j) = Offset(1, j)}
  IN [constant |-> constant, tied |-> tied, free |-> varying \ tied,
      arguments |-> (IF tied # {} THEN 1 ELSE 0) + Cardinality(varying \ tied)]

describe_motif(m, instructions) ==
  LET owner_of == [i \in DOMAIN instructions |-> instructions[i].owner]
      support == owner_support(m.starts, m.length, owner_of)
      windows == [k \in DOMAIN m.starts |->
                    SubSeq(instructions, m.starts[k], m.starts[k] + m.length - 1)]
  IN [length |-> m.length, motif |-> m.motif, starts |-> m.starts,
      nonOverlapping |-> non_overlapping(m.starts, m.length),
      ownerSupport |-> support.owners, straddling |-> support.straddling,
      tandem |-> smallest_period(m.motif) < m.length,
      ordinary |-> \A w \in DOMAIN windows : \A k \in 1..m.length :
                     windows[w][k].transfer = "ordinary",
      immediates |-> immediate_structure(windows),
      registerWriteSteps |-> Cardinality({k \in 1..m.length : windows[1][k].writes # {}})]

\* Whether the motif could be stated as one lemma at all.
self_contained(row) ==
  row.straddling = 0 /\ row.ordinary /\ row.ownerSupport >= 2 /\ ~row.tandem

\* Register writes of the uses that a lemma saves.
payoff(row) == row.registerWriteSteps * (row.nonOverlapping - 1)
=============================================================================
