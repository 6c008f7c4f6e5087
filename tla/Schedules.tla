------------------------------ MODULE Schedules ------------------------------
(***************************************************************************)
(* The dependences of a window, its reorderings that respect them, and a   *)
(* form that all of them share (tools/ngram_motifs.py).                    *)
(***************************************************************************)
EXTENDS Motifs

CONSTANT leaf_budget

\* Labels and edge kinds are numbers, in the order of these lists.
LABELS == <<"add", "addi", "beq", "j", "jal", "jalr", "ld", "ret", "sd", "unimp", "in", "in:ra", "in:zero">>
KINDS == <<"in*", "in0", "in1", "in2", "mem", "raw", "terminator", "war", "waw">>
Number(list, x) == SelectInSeq(list, LAMBDA y : y = x)

\* Operand slots that are read: all but the first if that is written.
source_slots(i) ==
  SelectSeq(Indices(i.registers), LAMBDA s : s > 1 \/ i.registers[1] \notin i.writes)

effective_reads(i) == i.reads \cup {i.registers[s] : s \in ToSet(source_slots(i))}

\* The edges <<from, to, kind>>: the last write before a read or a write, the
\* reads since the last write before a write, the last store before an access,
\* the loads since the last store before a store, everything before a transfer.
dependence_edges(window) ==
  LET Between(e, f) == {window[k] : k \in (e + 1)..(f - 1)}
      Latest(e, f, R, S) == \E r \in R \cap S : \A i \in Between(e, f) : r \notin i.writes
      Holds(e, f, kind) ==
        LET a == window[e]
            b == window[f]
        IN CASE kind = "terminator" -> b.transfer # "ordinary"
             [] kind = "raw" -> Latest(e, f, a.writes, effective_reads(b))
             [] kind = "waw" -> Latest(e, f, a.writes, b.writes)
             [] kind = "war" -> Latest(e, f, effective_reads(a) \ a.writes, b.writes)
             [] kind = "mem" -> /\ \/ a.memory = "write" /\ b.memory # "none"
                                   \/ a.memory = "read" /\ b.memory = "write"
                                /\ \A i \in Between(e, f) : i.memory # "write"
             [] OTHER -> FALSE
  IN {d \in (DOMAIN window) \X (DOMAIN window) \X ToSet(KINDS) :
        d[1] < d[2] /\ Holds(d[1], d[2], d[3])}

\* Labels by node, and edges, with a virtual node for each register that is
\* read before it is written.
dag_graph(window) ==
  LET n == Len(window)
      Defined(i) == UNION {window[k].writes : k \in 1..(i - 1)}
      Read(i) == [s \in DOMAIN source_slots(window[i]) |->
                    window[i].registers[source_slots(window[i])[s]]]
      Reads(i) == Read(i) \o Ascending(effective_reads(window[i]) \ ToSet(Read(i)))
      live_in == FlattenSeq([i \in 1..n |-> SelectSeq(Reads(i), LAMBDA r : r \notin Defined(i))])
      sources == SelectSeq(Indices(live_in), LAMBDA k : Number(live_in, live_in[k]) = k)
      Node(r) == n + SelectInSeq(sources, LAMBDA k : live_in[k] = r)
      Label(r) == CASE r = ra -> "in:ra" [] r = zero -> "in:zero" [] OTHER -> "in"
      Uses(i) == {<<Node(window[i].registers[s]), i, KINDS[s + 1]>> :
                    s \in {s \in ToSet(source_slots(window[i])) :
                             window[i].registers[s] \notin Defined(i)}}
      Implicit(i) == {<<Node(r), i, "in*">> :
                        r \in effective_reads(window[i]) \ (ToSet(Read(i)) \cup Defined(i))}
  IN [labels |-> [v \in 1..(n + Len(sources)) |->
                    Number(LABELS, IF v <= n THEN window[v].mnemonic
                                   ELSE Label(live_in[sources[v - n]]))],
      edges |-> {<<e[1], e[2], Number(KINDS, e[3])>> :
                   e \in dependence_edges(window) \cup UNION {Uses(i) \cup Implicit(i) : i \in 1..n}}]

-----------------------------------------------------------------------------
\* Sequences of numbers in lexicographic order.
Less(s, t) ==
  LET differ == {k \in DOMAIN s \cap DOMAIN t : s[k] # t[k]}
  IN IF differ = {} THEN Len(s) < Len(t) ELSE s[Min(differ)] < t[Min(differ)]

\* The values that f takes on a set, ascending, each as often as it is taken.
Values(f(_), S) ==
  LET values == Ascending({f(x) : x \in S})
  IN FlattenSeq([k \in DOMAIN values |->
       [j \in 1..Cardinality({x \in S : f(x) = values[k]}) |-> values[k]]])

Pair(kind, colour) == 100 * kind + colour

\* One round of refinement: colour, predecessors and successors of each node.
Refined(graph, colour) ==
  LET up(v) == Values(LAMBDA e : Pair(e[3], colour[e[1]]), {e \in graph.edges : e[2] = v})
      down(v) == Values(LAMBDA e : Pair(e[3], colour[e[2]]), {e \in graph.edges : e[1] = v})
      value == [v \in DOMAIN colour |-> <<colour[v]>> \o up(v) \o <<-1>> \o down(v)]
  IN [v \in DOMAIN colour |-> Cardinality({x \in Range(value) : Less(x, value[v])})]

refine(graph, colour) ==
  LET Coloured(old, new) == [stable |-> new = old, colour |-> new]
      Round(acc, k) == IF acc.stable THEN acc ELSE Coloured(acc.colour, Refined(graph, acc.colour))
  IN FoldLeft(Round, [stable |-> FALSE, colour |-> colour], Indices(colour)).colour

\* The nodes in the order of their colours, ties in the order of the nodes,
\* each with its label and its numbered predecessors.
Emit(graph, colour) ==
  LET colours == Ascending(Range(colour))
      order == FlattenSeq([k \in DOMAIN colours |->
                 Ascending({v \in DOMAIN colour : colour[v] = colours[k]})])
      rank == [v \in DOMAIN colour |-> Number(order, v)]
  IN FlattenSeq([k \in DOMAIN order |->
       <<graph.labels[order[k]]>> \o
       Values(LAMBDA e : Pair(rank[e[1]], e[3]), {e \in graph.edges : e[2] = order[k]}) \o <<-1>>])

RECURSIVE Search(_, _, _)
\* The smallest form below this colouring, and the leaves visited so far:
\* the nodes of the smallest tied class are told apart one after the other.
Search(graph, colour, leaves) ==
  LET classes == {{v \in DOMAIN colour : colour[v] = c} : c \in Range(colour)}
      tied == {c \in classes : Cardinality(c) > 1}
      Key(c) == <<Cardinality(c), colour[Min(c)]>>
      target == CHOOSE c \in tied : \A d \in tied : c = d \/ Less(Key(c), Key(d))
      \* A mark behind the colour sorts right after it.
      Individualised(node) == [v \in DOMAIN colour |-> 2 * colour[v] + IF v = node THEN 1 ELSE 0]
      Smaller(acc, found) ==
        [leaves |-> found.leaves,
         form |-> IF acc.form = <<>> \/ Less(found.form, acc.form) THEN found.form ELSE acc.form]
      Try(acc, node) ==
        IF acc.leaves >= leaf_budget THEN acc
        ELSE Smaller(acc, Search(graph, refine(graph, Individualised(node)), acc.leaves))
      Leaf(best) == IF best.form # <<>> THEN best
                    ELSE [leaves |-> leaves + 1, form |-> Emit(graph, colour)]
  IN Leaf(FoldLeft(Try, [leaves |-> leaves, form |-> <<>>],
                   IF tied = {} THEN <<>> ELSE Ascending(target)))

\* Exact only if the search was not cut off.
dag_canonical_form(window) ==
  LET Result(found) == [exact |-> found.leaves < leaf_budget, form |-> found.form]
      Of(graph) == Result(Search(graph, refine(graph, graph.labels), 0))
  IN Of(dag_graph(window))

-----------------------------------------------------------------------------
\* Mutant of Schedule: a write may move before the reads of the old value.
ScheduleIgnoringWar(window) ==
  {o \in Injection(DOMAIN window, DOMAIN window) :
     \A d \in dependence_edges(window) : d[3] = "war" \/ Number(o, d[1]) < Number(o, d[2])}

\* The orders of the indices in which every edge points forward.
Schedule(window) ==
  {o \in Injection(DOMAIN window, DOMAIN window) :
     \A d \in dependence_edges(window) : Number(o, d[1]) < Number(o, d[2])}

\* Any of them but the present one.
reschedule(window) ==
  {[k \in DOMAIN window |-> window[o[k]]] : o \in Schedule(window) \ {Indices(window)}}
=============================================================================
