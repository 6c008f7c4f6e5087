--------------------------- MODULE PatternMining ---------------------------
(***************************************************************************)
(* One run of tools/ngram_motifs.py over a CFG artifact: motifs, the ones  *)
(* that could be a lemma, their significance against the draws of three    *)
(* null models, and the dependence forms of windows with random trials.    *)
(***************************************************************************)
EXTENDS PermutationTest, Schedules

\* Runs are pairs: a CFG artifact and the number of resamples asked for.
CONSTANTS Runs, MAXIMUM_TEST_LENGTH, DAG_LENGTHS, Trials

VARIABLES
  stage,          \* the statement of main() that comes next
  cfg, resamples,
  instructions, segments,
  spectrum,       \* length_spectrum at mnemonic level
  described,      \* the closed motifs
  observed,       \* length -> statistics of the corpus
  null,           \* name of a null model -> statistics of its draws
  familywise,     \* motif -> largest numerator of its p-values
  sample,         \* windows whose schedules are tried
  trials          \* [tried, failures, controlFailures]

vars == <<stage, cfg, resamples, instructions, segments, spectrum, described, observed, null,
          familywise, sample, trials>>

Nothing ==
  /\ instructions = <<>> /\ segments = <<>> /\ spectrum = <<>>
  /\ described = {} /\ observed = <<>> /\ familywise = <<>> /\ sample = {}
  /\ null = [name \in ToSet(ALPHA_NULLS) |-> <<>>]
  /\ trials = [tried |-> 0, failures |-> 0, controlFailures |-> 0]

Init ==
  /\ stage = "load"
  /\ \E run \in Runs : cfg = run[1] /\ resamples = run[2]
  /\ Nothing

Load ==
  /\ stage = "load" /\ stage' = "describe"
  /\ instructions' = load_zesu_cfg(cfg)
  /\ segments' = segment(instructions')
  /\ UNCHANGED <<cfg, resamples, spectrum, described, observed, null, familywise, sample, trials>>

Mnemonics == [i \in DOMAIN instructions |-> instructions[i].mnemonic]

Describe ==
  /\ stage = "describe" /\ stage' = "test"
  /\ spectrum' = length_spectrum(Mnemonics, segments)
  /\ described' = {describe_motif(m, instructions) :
                     m \in closed_alpha_motifs(alpha_motifs(instructions, segments))}
  /\ UNCHANGED <<cfg, resamples, instructions, segments, observed, null, familywise, sample, trials>>

\* The lengths that produced a candidate.
lengths == {row.length : row \in {r \in described : self_contained(r)}} \cap 2..MAXIMUM_TEST_LENGTH

Observe ==
  /\ stage = "test" /\ stage' = "draw"
  /\ observed' = Statistics(instructions, segments, Indices(instructions), lengths)
  /\ UNCHANGED <<cfg, resamples, instructions, segments, spectrum, described, null, familywise, sample, trials>>

\* One draw: of the first null model that is short of draws.
Draw ==
  LET short == {k \in DOMAIN ALPHA_NULLS : Len(null[ALPHA_NULLS[k]]) < resamples}
  IN /\ stage = "draw" /\ short # {} /\ lengths # {}
     /\ LET name == ALPHA_NULLS[Min(short)]
        IN \E statistics \in {Statistics(instructions, segments, take, lengths) :
                                take \in draw(name, instructions, segments)} :
             null' = [null EXCEPT ![name] = Append(@, statistics)]
     /\ UNCHANGED <<stage, cfg, resamples, instructions, segments, spectrum, described, observed,
                    familywise, sample, trials>>

\* The worst p-value over models and statistics.
FamilywiseP(row) ==
  LET Of(name, field) == [k \in DOMAIN null[name] |-> null[name][k][row.length][field]]
  IN Max(UNION {{empirical_p(Of(name, "count"), row.nonOverlapping),
                 empirical_p(Of(name, "owners"), row.ownerSupport)} : name \in DOMAIN null})

Judge ==
  /\ stage = "draw" /\ stage' = "dag"
  /\ lengths # {} => \A name \in DOMAIN null : Len(null[name]) = resamples
  /\ familywise' = [row \in {r \in described : r.length \in lengths} |-> FamilywiseP(row)]
  /\ UNCHANGED <<cfg, resamples, instructions, segments, spectrum, described, observed, null, sample, trials>>

\* All windows of straight-line instructions.
Sample ==
  /\ stage = "dag" /\ stage' = "trials"
  /\ sample' = UNION {
       {window \in {SubSeq(instructions, p, p + length - 1) : p \in Starts(segments, length)} :
          \A k \in DOMAIN window : window[k].transfer = "ordinary"} : length \in DAG_LENGTHS}
  /\ UNCHANGED <<cfg, resamples, instructions, segments, spectrum, described, observed, null, familywise, trials>>

\* One trial of validate_dag_invariance.
Trial ==
  /\ stage = "trials" /\ trials.tried < Trials
  /\ \E window \in sample : \E permuted \in reschedule(window) :
       LET forms == {dag_canonical_form(w) : w \in {window, permuted}}
           One(b) == IF b THEN 1 ELSE 0
       IN trials' = [tried |-> trials.tried + 1,
                     failures |-> trials.failures + One(Cardinality(forms) > 1),
                     controlFailures |-> trials.controlFailures +
                                         One(alpha_rename(permuted) # alpha_rename(window))]
  /\ UNCHANGED <<stage, cfg, resamples, instructions, segments, spectrum, described, observed, null,
                 familywise, sample>>

Finish ==
  /\ stage = "trials" /\ stage' = "done"
  /\ UNCHANGED <<cfg, resamples, instructions, segments, spectrum, described, observed, null, familywise,
                 sample, trials>>

Next == Load \/ Describe \/ Observe \/ Draw \/ Judge \/ Sample \/ Trial \/ Finish

Spec == Init /\ [][Next]_vars

-----------------------------------------------------------------------------
\* What the results are of, said without the algorithms that find them.

Windows(length) ==
  {p \in 1..(Len(instructions) - length + 1) :
     \E s \in DOMAIN segments : segments[s][1] <= p /\ p + length - 1 <= segments[s][2]}

\* Some renaming of the registers, that keeps the pinned ones, makes them equal.
Alike(p, q, length) ==
  LET pairs == UNION {{<<instructions[p + k].registers[s], instructions[q + k].registers[s]>> :
                         s \in DOMAIN instructions[p + k].registers} : k \in 0..(length - 1)}
  IN /\ \A k \in 0..(length - 1) :
          /\ instructions[p + k].mnemonic = instructions[q + k].mnemonic
          /\ Len(instructions[p + k].registers) = Len(instructions[q + k].registers)
     /\ \A x \in pairs : \A y \in pairs : x[1] = y[1] <=> x[2] = y[2]
     /\ \A x \in pairs : PINNED_REGISTERS \cap {x[1], x[2]} = {} \/ x[1] = x[2]

Classes(length) ==
  {c \in {{q \in Windows(length) : Alike(p, q, length)} : p \in Windows(length)} :
     Cardinality(c) >= 2}

\* The motifs reported are the classes of windows that are equal up to the
\* names of their registers and occur twice, without those that every longer
\* window around them, to either side or both, repeats at the same places
\* (alpha_rename, alpha_motifs, closed_alpha_motifs).
MotifsAreClosed ==
  stage = "test" =>
    {<<row.length, ToSet(row.starts)>> : row \in described} =
      UNION {{<<l, c>> : c \in {x \in Classes(l) :
                ~ \E longer \in (l + 1)..MAXIMUM_LENGTH : \E d \in 0..(longer - l) :
                    {p - d : p \in x} \in Classes(longer)}} : l \in Lengths}

\* A motif that could be a lemma is not a shorter one repeated, its uses are
\* as many as can be applied at once, and each is inside one function instance
\* (non_overlapping, smallest_period, owner_support, self_contained).
UsesAreApplicable ==
  stage = "test" => \A row \in described :
    LET Disjoint(set) == \A p \in set : \A q \in set : p < q => p + row.length <= q
        fits == {Cardinality(set) : set \in {x \in SUBSET ToSet(row.starts) : Disjoint(x)}}
        Shifted(d) == \A k \in 1..(row.length - d) : row.motif[k] = row.motif[k + d]
        Owners(p) == {instructions[k].owner : k \in p..(p + row.length - 1)}
    IN /\ row.nonOverlapping = Max(fits)
       /\ self_contained(row) =>
            /\ \A d \in 1..(row.length - 1) : ~Shifted(d)
            /\ \A p \in ToSet(row.starts) : Cardinality(Owners(p)) = 1
            /\ Cardinality(UNION {Owners(p) : p \in ToSet(row.starts)}) = row.ownerSupport

\* The suffix array, its common prefixes and the stack of open intervals find
\* exactly the repeated sequences that extend neither to the left nor to the
\* right (suffix_array, lcp_array, maximal_repeats, stream_with_separators).
RepeatsMaximal ==
  stage = "test" =>
    LET stream == stream_with_separators(Mnemonics, segments)
        n == Len(stream)
        At(i) == IF i \in 1..n THEN <<stream[i]>> ELSE <<>>
        Places(p, l) == {q \in 1..(n - l + 1) : \A k \in 0..(l - 1) : stream[q + k] = stream[p + k]}
        Vary(set, d) == Cardinality({At(q + d) : q \in set}) >= 2
    IN maximal_repeats(stream, 2) =
         {r \in UNION {{<<l, Places(p, l)>> : p \in 1..(n - l + 1)} : l \in 2..n} :
            Cardinality(r[2]) >= 2 /\ Vary(r[2], -1) /\ Vary(r[2], r[1])}

\* What the tool reports of a corpus is what is there.
MotifsExact == MotifsAreClosed /\ UsesAreApplicable /\ RepeatsMaximal

\* The statistics that the significance test computes on arrays, stopping
\* early, are the largest over all motifs that the enumeration finds, for the
\* corpus and for every permutation of it that a null model draws
\* (alpha_frame, alpha_keys, alpha_max_statistics).
StatisticsExact ==
  stage = "test" => \A take \in null_take_within_segment(instructions, segments) :
    LET permuted == [p \in DOMAIN take |-> instructions[take[p]]]
        motifs == alpha_motifs(permuted, segments)
        owner_of == [p \in DOMAIN take |-> permuted[p].owner]
        Largest(S) == Max(S \cup {0})
    IN \A l \in 2..MAXIMUM_TEST_LENGTH :
         LET found == Range(motifs[l])
         IN alpha_max_statistics(instructions, take, Starts(segments, l), l) =
              [count |-> Largest({non_overlapping(s, l) : s \in found}),
               owners |-> Largest({owner_support(s, l, owner_of).owners : s \in found})]

\* If the corpus is itself one of the draws, each being as likely as the next,
\* a p-value of k / n has a chance of at most k / n (empirical_p: "never
\* reports p = 0").
ErrorIsBounded ==
  stage = "draw" => \A l \in lengths : \A field \in {"count", "owners"} :
    LET takes == null_take_within_segment(instructions, segments)
        Value(take) == alpha_max_statistics(instructions, take, Starts(segments, l), l)[field]
        values == FoldSet(LAMBDA take, s : Append(s, Value(take)), <<>>, takes)
        p == [i \in DOMAIN values |-> empirical_p(RemoveAt(values, i), values[i])]
    IN \A k \in DOMAIN values : Cardinality({i \in DOMAIN values : p[i] <= k}) <= k

\* The test computes the statistics it says and errs as rarely as it says.
SignificanceExact == StatisticsExact /\ ErrorIsBounded

-----------------------------------------------------------------------------
\* What a window computes: the term in each register, and the stores in order
\* with the loads between them.
Meaning(window) ==
  LET Step(m, i) ==
        LET arguments == [s \in DOMAIN source_slots(i) |-> m.term[i.registers[source_slots(i)[s]]]]
            value == <<i.mnemonic, i.immediates, arguments,
                       IF i.memory = "read" THEN m.stores ELSE <<>>>>
        IN [term |-> [r \in DOMAIN m.term |-> IF r \in i.writes \ {zero} THEN value ELSE m.term[r]],
            stores |-> IF i.memory = "write" THEN Append(m.stores, value) ELSE m.stores]
      registers == UNION {ToSet(window[k].registers) : k \in DOMAIN window}
  IN FoldLeft(Step, [term |-> [r \in registers |-> <<"in", r>>], stores |-> <<>>], window)

\* Every order of a window that the search for invariance tries computes the
\* same registers and the same stores as the window
\* (dependence_edges, effective_reads, reschedule).
ReschedulesAgree ==
  stage = "trials" /\ trials.tried = 0 => \A window \in sample : \A permuted \in reschedule(window) :
    Meaning(permuted) = Meaning(window)

\* All orders of a window have one canonical form: no trial of the tool ever
\* counts a failure.  An approximate form could differ only in a window with
\* equally coloured nodes that no automorphism exchanges, which is larger than
\* any here (dag_graph, _refine, dag_canonical_form, validate_dag_invariance).
FormsAreInvariant == trials.failures = 0

\* Reorderings keep what a window computes and its canonical form.
SchedulesExact == ReschedulesAgree /\ FormsAreInvariant
=============================================================================
