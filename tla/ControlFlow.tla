------------------------------- MODULE ControlFlow -------------------------------
(***************************************************************************)
(* analyze() of tools/analyze_rv64.py: the instructions of a disassembled  *)
(* ELF are partitioned into basic blocks, the blocks are connected by the  *)
(* direct branches, calls and jumps, followed from an entry, and searched  *)
(* for loops; the same search over the functions tells whether direct      *)
(* calls are recursive, and if not, how deep they go.                      *)
(*                                                                         *)
(* An address is a number, the next instruction is at p + 1; a block is    *)
(* named by the address it starts at.                                      *)
(***************************************************************************)
EXTENDS Integers, Sequences, FiniteSets, SequencesExt

CONSTANTS
  Functions,    \* [name -> set of addresses], an interval each
  Entry,        \* --entry
  Programs      \* disassemblies: [address -> [kind, to]]

Addresses == UNION {Functions[f] : f \in DOMAIN Functions}

ASSUME EntryAssumption == Entry \in DOMAIN Functions
ASSUME DisjointFunctions ==
  \A f, g \in DOMAIN Functions : f # g => Functions[f] \cap Functions[g] = {}
ASSUME IntervalFunctions ==
  /\ IsFiniteSet(DOMAIN Functions) /\ Addresses \subseteq Nat
  /\ \A f \in DOMAIN Functions : \E a, b \in Functions[f] : Functions[f] = a .. b

VARIABLES
  code,         \* address -> [kind, to], see below
  phase,        \* "partition", "graph", "reach", "loops", "depth", "done"
  leaders,      \* where the blocks start
  cfg, calls,   \* [block -> set of blocks]
  unresolved,   \* blocks with an indirect jump
  seen, todo,   \* reach()
  graph,        \* what sccs() is looking at
  index, low, stack, path, answer,  \* sccs(); path is the chain of visit()s
  loops,        \* the components of blocks with a cycle
  depth         \* the longest chain of calls, 0 when they are recursive

graphVars == <<leaders, cfg, calls, unresolved>>
reachVars == <<seen, todo>>
searchVars == <<index, low, stack, path, answer>>
flowVars == <<code, phase, graphVars, reachVars, graph, searchVars, loops, depth>>

-------------------------------------------------------------------------------
(* The disassembly.  "call" is jal, or the jalr of a pair with an auipc     *)
(* that links; "jump" is j, "tail" the jalr of a pair that does not link;  *)
(* "end" is a return, "trap" ebreak or unimp; "indirect" is a jalr that    *)
(* links and has no target, "jr" one that does not link.  to is the        *)
(* address that objdump prints behind an instruction, or 0.                *)

FunctionOf(p) == CHOOSE f \in DOMAIN Functions : p \in Functions[f]
Start(f) == CHOOSE p \in Functions[f] : \A q \in Functions[f] : p <= q
Greatest(S) == CHOOSE p \in S : \A q \in S : q <= p

\* What leaves a function goes to the start of another one.
ASSUME JumpsToEntries ==
  \A program \in Programs : \A p \in Addresses :
    program[p].kind \in {"branch", "call", "jump", "tail"} =>
      program[p].to \in Functions[FunctionOf(p)] \cup {Start(f) : f \in DOMAIN Functions}

\* Mutant of EndsBlock: what follows a conditional branch is not a leader.
EndsBlockUnlessBranch(p) == code[p].kind \in {"call", "jump", "tail", "end", "trap"}

\* Is the instruction after p the first of a block?
EndsBlock(p) == code[p].kind \in {"branch", "call", "jump", "tail", "end", "trap"}

Leaders ==
  {Start(f) : f \in DOMAIN Functions}
  \cup {code[p].to : p \in {q \in Addresses : code[q].to \in Functions[FunctionOf(q)]}}
  \cup {p + 1 : p \in {q \in Addresses : EndsBlock(q) /\ q + 1 \in Functions[FunctionOf(q)]}}

Containing(p) == Greatest({b \in leaders : b <= p})
Block(b) == {p \in Addresses : Containing(p) = b}
LastOf(b) == Greatest(Block(b))

Destination(p) == {code[p].to} \cap leaders
Fallthrough(p) == {Containing(q) : q \in {p + 1} \cap Addresses}

SuccessorsOf(b) ==
  LET p == LastOf(b) IN
  CASE code[p].kind \in {"branch", "call"} -> Destination(p) \cup Fallthrough(p)
    [] code[p].kind \in {"jump", "tail"} -> Destination(p)
    [] code[p].kind \in {"end", "trap"} -> {}
    [] OTHER -> Fallthrough(p)

CallsOf(b) == IF code[LastOf(b)].kind = "call" THEN Destination(LastOf(b)) ELSE {}

NoAnalysis ==
  /\ leaders = {} /\ cfg = <<>> /\ calls = <<>> /\ unresolved = {}
  /\ seen = {} /\ todo = {}
  /\ graph = <<>>
  /\ index = <<>> /\ low = <<>> /\ stack = <<>> /\ path = <<>> /\ answer = {}
  /\ loops = {}
  /\ depth = 0

FlowInit == code \in Programs /\ phase = "partition" /\ NoAnalysis

Partition ==
  /\ phase = "partition"
  /\ phase' = "graph"
  /\ leaders' = Leaders
  /\ UNCHANGED <<code, cfg, calls, unresolved, reachVars, graph, searchVars, loops, depth>>

MakeGraph ==
  /\ phase = "graph"
  /\ phase' = "reach"
  /\ cfg' = [b \in leaders |-> SuccessorsOf(b)]
  /\ calls' = [b \in leaders |-> CallsOf(b)]
  /\ unresolved' = {b \in leaders : code[LastOf(b)].kind \in {"indirect", "jr"}}
  /\ todo' = {Containing(Start(Entry))}
  /\ UNCHANGED <<code, leaders, seen, graph, searchVars, loops, depth>>

-------------------------------------------------------------------------------
(* reach()                                                                 *)

Reach(b) ==
  /\ phase = "reach"
  /\ b \in todo
  /\ seen' = seen \cup {b}
  /\ todo' = (todo \cup cfg[b]) \ seen'
  /\ UNCHANGED <<code, phase, graphVars, graph, searchVars, loops, depth>>

Reached == phase = "reach" /\ todo = {}

\* sccs() is called with the blocks reached and the edges inside a function.
BeginLoops ==
  /\ Reached
  /\ phase' = "loops"
  /\ graph' = [b \in seen |-> {c \in cfg[b] : FunctionOf(c) = FunctionOf(b)}]
  /\ UNCHANGED <<code, graphVars, reachVars, searchVars, loops, depth>>

-------------------------------------------------------------------------------
(* sccs(), on whatever graph it is called with: visit() is a step for the  *)
(* call, one for each neighbour, and one for the return.                   *)

Searching == phase \in {"loops", "depth"}
Node == Last(path).node
Lower(a, b) == IF a < b THEN a ELSE b
With(f, x, v) == [y \in DOMAIN f \cup {x} |-> IF y = x THEN v ELSE f[y]]

Enter(n) ==
  /\ index' = With(index, n, Cardinality(DOMAIN index))
  /\ low' = With(low, n, Cardinality(DOMAIN index))
  /\ stack' = Append(stack, n)

\* The neighbour m has been dealt with.
Frames(m) == [path EXCEPT ![Len(path)].rest = @ \ {m}]
Frame(n) == [node |-> n, rest |-> graph[n] \cap DOMAIN graph]

VisitRoot(n) ==
  /\ Searching
  /\ path = <<>>
  /\ n \in DOMAIN graph \ DOMAIN index
  /\ Enter(n)
  /\ path' = <<Frame(n)>>
  /\ UNCHANGED <<code, phase, graphVars, reachVars, graph, answer, loops, depth>>

VisitNext(m) ==
  /\ Searching
  /\ path # <<>> /\ m \in Last(path).rest
  /\ m \notin DOMAIN index
  /\ Enter(m)
  /\ path' = Append(Frames(m), Frame(m))
  /\ UNCHANGED <<code, phase, graphVars, reachVars, graph, answer, loops, depth>>

\* Mutant of Active: all that was visited counts.
ActiveAll == DOMAIN index

Active == Range(stack)

SeenBefore(m) ==
  /\ Searching
  /\ path # <<>> /\ m \in Last(path).rest
  /\ m \in DOMAIN index
  /\ low' = IF m \in Active THEN [low EXCEPT ![Node] = Lower(@, index[m])] ELSE low
  /\ path' = Frames(m)
  /\ UNCHANGED <<code, phase, graphVars, reachVars, graph, index, stack, answer, loops, depth>>

\* visit() returns; the root of a component takes it off the stack.
VisitReturns ==
  LET at == CHOOSE i \in DOMAIN stack : stack[i] = Node
      component == {stack[i] : i \in at .. Len(stack)}
      root == low[Node] = index[Node]
  IN
  /\ Searching
  /\ path # <<>> /\ Last(path).rest = {}
  /\ answer' = answer \cup IF root THEN {component} ELSE {}
  /\ stack' = IF root THEN SubSeq(stack, 1, at - 1) ELSE stack
  /\ path' = Front(path)
  /\ low' = IF Len(path) = 1 THEN low
            ELSE [low EXCEPT ![path[Len(path) - 1].node] = Lower(@, low[Node])]
  /\ UNCHANGED <<code, phase, graphVars, reachVars, graph, index, loops, depth>>

Searched == Searching /\ path = <<>> /\ DOMAIN graph = DOMAIN index

Cyclic == {c \in answer : Cardinality(c) > 1 \/ \E n \in c : n \in graph[n]}

-------------------------------------------------------------------------------
CallGraph ==
  [f \in {FunctionOf(b) : b \in seen} |->
     {FunctionOf(c) : c \in UNION {calls[b] \cap seen : b \in {d \in seen : FunctionOf(d) = f}}}
       \ {f}]

\* The search for loops ends, the one for recursion begins.
BeginDepth ==
  /\ phase = "loops"
  /\ Searched
  /\ phase' = "depth"
  /\ loops' = Cyclic
  /\ graph' = CallGraph
  /\ index' = <<>> /\ low' = <<>> /\ stack' = <<>> /\ answer' = {}
  /\ UNCHANGED <<code, graphVars, reachVars, path, depth>>

Longest ==
  LET below[f \in DOMAIN graph] == 1 + Greatest({0} \cup {below[g] : g \in graph[f]})
  IN Greatest({0} \cup {below[f] : f \in DOMAIN graph})

EndDepth ==
  /\ phase = "depth"
  /\ Searched
  /\ phase' = "done"
  /\ depth' = IF Cyclic = {} THEN Longest ELSE 0
  /\ UNCHANGED <<code, graphVars, reachVars, graph, searchVars, loops>>

FlowNext ==
  \/ Partition
  \/ MakeGraph
  \/ \E b \in Addresses : Reach(b)
  \/ BeginLoops
  \/ \E n \in DOMAIN graph : VisitRoot(n) \/ VisitNext(n) \/ SeenBefore(n)
  \/ VisitReturns
  \/ BeginDepth
  \/ EndDepth

FlowSpec == FlowInit /\ [][FlowNext]_flowVars

-------------------------------------------------------------------------------
(* Properties.                                                             *)

\* Where the machine may go by direct control flow, a call returning.
Follow(p) ==
  LET next == {p + 1} \cap Addresses IN
  CASE code[p].kind \in {"branch", "call"} -> {code[p].to} \cup next
    [] code[p].kind \in {"jump", "tail"} -> {code[p].to}
    [] code[p].kind \in {"end", "trap", "jr"} -> {}
    [] OTHER -> next

\* Where analyze() says that it may go: a jump through a register is taken for
\* an instruction that goes on behind it.
Taken(p) == IF code[p].kind = "jr" THEN {p + 1} \cap Addresses ELSE Follow(p)

\* What f reaches from S.
ReachedFrom(S, f, nodes) ==
  LET within[n \in 0 .. Cardinality(nodes)] ==
        IF n = 0 THEN S ELSE within[n - 1] \cup UNION {f[x] : x \in within[n - 1] \cap nodes}
  IN within[Cardinality(nodes)]

DirectlyReached ==
  ReachedFrom({Start(Entry)}, [p \in Addresses |-> Follow(p)], Addresses)
TakenReached ==
  ReachedFrom({Start(Entry)}, [p \in Addresses |-> Taken(p)], Addresses)

ReachedInsns == UNION {Block(b) : b \in seen}

\* If functions jump to each other's entries only, the blocks reached hold
\* exactly the instructions that direct control flow reaches from the entry, a
\* jump through a register going on behind it, and none that it jumps over: the
\* partition puts nothing into a block that is not executed with its first one.
ReachedExactly == Reached => ReachedInsns = TakenReached

\* "Indirect control flow is left explicit in the output": every indirect jump
\* that is reached is in a block of unresolved_indirect_call_blocks.
IndirectIsExplicit ==
  Reached =>
    \A p \in ReachedInsns : code[p].kind \in {"indirect", "jr"} => Containing(p) \in unresolved

\* The loops are the classes of blocks of one function that reach each other
\* inside it, in whatever order blocks and edges are searched.
LoopsExact ==
  phase = "done" =>
    LET local == [b \in seen |-> {c \in cfg[b] : FunctionOf(c) = FunctionOf(b)}]
        after(b) == ReachedFrom(local[b], local, seen)
    IN loops = {{c \in after(b) : b \in after(c)} : b \in {d \in seen : d \in after(d)}}

\* Which functions call which other functions by the instructions reached.
Callers ==
  {<<FunctionOf(p), FunctionOf(code[p].to)>> : p \in {q \in ReachedInsns : code[q].kind = "call"}}
    \ {<<f, f>> : f \in DOMAIN Functions}

\* Chains of functions that call one another.
Chains ==
  {s \in UNION {[1 .. n -> {FunctionOf(b) : b \in seen}] : n \in 1 .. Cardinality(DOMAIN Functions)} :
     \A i \in 1 .. Len(s) - 1 : <<s[i], s[i + 1]>> \in Callers}

\* Calls are recursive exactly if some function is called by way of itself and
\* another; otherwise the depth is the length of the longest chain of calls.
\* A jal to a label of its own function does not count.
DepthExact ==
  phase = "done" =>
    LET recursive == \E s \in Chains : <<s[Len(s)], s[1]>> \in Callers
    IN depth = IF recursive THEN 0 ELSE Greatest({Len(s) : s \in Chains})

\* Loops and call depth, which the same search gives: blocks of one function for
\* the one, functions for the other.
LoopsAndDepthExact == LoopsExact /\ DepthExact
===============================================================================
