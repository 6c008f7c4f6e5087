------------------------------ MODULE LevelManifest ------------------------------
(***************************************************************************)
(* generate() of tools/generate_level_manifest.py on a small program: the  *)
(* return targets (a fixpoint over tail calls), the depth of each function *)
(* instance below main (a breadth-first search over an unordered graph),   *)
(* and for each instance of the wanted level its extent and its exits.     *)
(* Then the program runs, and reduce_trace() follows it (TraceReduction):  *)
(* it refuses a run that leaves an active instance by anything else than   *)
(* an exit.                                                                *)
(*                                                                         *)
(* A program counter is a number and the next instruction is at pc + 1.    *)
(***************************************************************************)
EXTENDS Integers, Sequences, FiniteSets, SequencesExt

CONSTANTS
  Functions,    \* [name -> set of program counters], "_start" and "main" among them
  Codes,        \* what the instructions may be: [pc -> [kind, to]]
  Inlinings,    \* the inlined instances there may be: [id -> [parent, pcs]]
  Levels,       \* --level
  MaxStack      \* bound: nested calls

Pcs == UNION {Functions[f] : f \in DOMAIN Functions}

ASSUME LevelsAssumption == Levels \subseteq Nat \ {0} /\ MaxStack \in Nat
ASSUME MainAssumption == {"_start", "main"} \subseteq DOMAIN Functions
ASSUME FiniteAssumption ==
  IsFiniteSet(Pcs) /\ \A instances \in Inlinings : IsFiniteSet(DOMAIN instances)

\* Functions are intervals of addresses that lie apart.
ASSUME LayoutAssumption ==
  /\ IsFiniteSet(DOMAIN Functions)
  /\ \A f \in DOMAIN Functions :
       /\ Functions[f] \subseteq Nat /\ Functions[f] # {}
       /\ \A p, q \in Functions[f] : p .. q \subseteq Functions[f]
  /\ \A f, g \in DOMAIN Functions : f = g \/ Functions[f] \cap Functions[g] = {}

FunctionAt(p) == CHOOSE f \in DOMAIN Functions : p \in Functions[f]

\* Branches and jumps stay in their function, and so does what is called, after
\* its return; zkvm_exit() does not return and calls nothing.
ASSUME CodeAssumption ==
  \A instructions \in Codes : \A p \in Pcs :
    LET kind == instructions[p].kind
        to == instructions[p].to
    IN
    /\ kind \in {"branch", "jump"} => to \in Functions[FunctionAt(p)]
    /\ kind \in {"call", "tail"} => to \in DOMAIN Functions
    /\ kind = "call" => to = "zkvm_exit" \/ p + 1 \in Functions[FunctionAt(p)]
    /\ FunctionAt(p) = "zkvm_exit" => kind \in {"plain", "ecall", "branch", "jump"}

\* Inlined instances form trees below the functions: each has some of the
\* program counters of its parent and shares none with its siblings.
ASSUME InliningsAssumption ==
  \A instances \in Inlinings :
    /\ DOMAIN instances \cap (DOMAIN Functions \cup {"zkvm_exit"}) = {}
    /\ \A i \in DOMAIN instances :
         LET parent == instances[i].parent IN
         /\ parent \in DOMAIN Functions \cup DOMAIN instances
         /\ instances[i].pcs # {}
         /\ instances[i].pcs \subseteq
              IF parent \in DOMAIN instances THEN instances[parent].pcs ELSE Functions[parent]
         /\ \A j \in DOMAIN instances :
              j # i /\ instances[j].parent = parent => instances[i].pcs \cap instances[j].pcs = {}
    /\ \E rank \in [DOMAIN instances -> 0 .. Cardinality(DOMAIN instances)] :
         \A i \in DOMAIN instances :
           instances[i].parent \in DOMAIN instances => rank[instances[i].parent] < rank[i]

VARIABLES
  code,         \* cfg["functions"]: kind is "plain", "ecall", "branch", "jump",
                \* "call", "tail" or "ret"; to is a program counter or a function
  inlined,      \* the inlined rows of cfg["functionInstances"]
  level,
  phase,        \* "returns", "depths", "run"
  return_targets, depths, pending,
  manifest,     \* [id -> [entry, extent, exits]]
  pc, stack,    \* the running program; stack holds the return addresses
  active        \* the instances reduce_trace() has an occurrence of

programVars == <<code, inlined, level>>
manifestVars == <<programVars, phase, return_targets, depths, pending, manifest, pc, stack,
                  active>>

-------------------------------------------------------------------------------
(* The program.                                                            *)

Start(f) == CHOOSE p \in Functions[f] : \A q \in Functions[f] : p <= q

Ids == DOMAIN Functions \cup DOMAIN inlined
IsInlined(id) == id \in DOMAIN inlined
PcsOf(id) == IF IsInlined(id) THEN inlined[id].pcs ELSE Functions[id]
EntryOf(id) == CHOOSE p \in PcsOf(id) : \A q \in PcsOf(id) : p <= q

\* The successors of an instruction, blocks and functions put together: what a
\* call is to its block is the instruction after it, in the same function.
Successors(p) ==
  LET next == {p + 1} \cap Functions[FunctionAt(p)] IN
  CASE code[p].kind = "branch" -> {code[p].to} \cup next
    [] code[p].kind = "jump" -> {code[p].to}
    [] code[p].kind = "ret" -> {}
    [] OTHER -> next

\* The rows `calls': a function that calls itself has none.
Calls == {p \in Pcs : code[p].kind \in {"call", "tail"} /\ code[p].to # FunctionAt(p)}
Links(p) == code[p].kind = "call"
TailCalls == {p \in Calls : ~Links(p)}

\* What is reached from S by edges in any number of steps.
Closure(S, edges) ==
  LET Within[n \in 0 .. Cardinality(DOMAIN edges)] ==
        IF n = 0 THEN S
        ELSE Within[n - 1] \cup UNION {edges[y] : y \in Within[n - 1] \cap DOMAIN edges}
  IN Within[Cardinality(DOMAIN edges)]

Children(id) == {i \in DOMAIN inlined : inlined[i].parent = id}
Descendants(id) == Closure(Children(id), [i \in Ids |-> Children(i)])
InlineDescendantPcs(id) == UNION {PcsOf(i) : i \in Descendants(id)}
LocalPcs(id) == PcsOf(id) \ InlineDescendantPcs(id)

\* The narrowest inlined instance around a call; of two equal ones the inner.
CallOwner(p) ==
  LET around == {i \in DOMAIN inlined : p \in inlined[i].pcs}
      narrowest == {i \in around : \A j \in around :
                      Cardinality(inlined[i].pcs) <= Cardinality(inlined[j].pcs)}
  IN IF around = {} THEN FunctionAt(p)
     ELSE CHOOSE i \in narrowest : \A j \in narrowest : j \notin Descendants(i)

Edges(id) == Children(id) \cup {code[p].to : p \in {q \in Calls : CallOwner(q) = id}}

\* What an instance is made of: the instances it holds and calls.
Reachable(id) == Closure({id}, [i \in Ids |-> Edges(i)])

ConcreteAncestor(id) ==
  LET Above[i \in Ids] == IF IsInlined(i) THEN Above[inlined[i].parent] ELSE i
  IN Above[id]

ClaimedInlinePcs == UNION {inlined[i].pcs : i \in DOMAIN inlined}

\* Program counters inside an inlined instance that nobody claims.
Absorbed(id) ==
  IF IsInlined(id)
  THEN {p \in Pcs \ ClaimedInlinePcs : EntryOf(id) <= p /\ \E q \in PcsOf(id) : p <= q}
  ELSE {}

\* Calls of a function by itself, which direct_calls() does not record.
SelfCalls(f) == {p \in Functions[f] : code[p].kind \in {"call", "tail"} /\ code[p].to = f}

\* The caller's code between the pieces of an inlined instance calls nothing,
\* and no inlined instance calls the function it is in.
BodiesCallOthers ==
  \A id \in DOMAIN inlined :
    /\ \A p \in Absorbed(id) : code[p].kind \notin {"call", "tail"}
    /\ PcsOf(id) \cap SelfCalls(ConcreteAncestor(id)) = {}

\* Only the returns of a function itself end a call that is not recorded: there
\* are none inside inlined instances, nor in functions that it calls as its last act.
SelfCallsReturn ==
  \A p \in TailCalls \cup UNION {PcsOf(id) \cup Absorbed(id) : id \in DOMAIN inlined} :
    p \in TailCalls \/ code[p].kind = "ret" => \A q \in SelfCalls(FunctionAt(p)) : ~Links(q)

\* No call leads back to the function that makes it.
CallsDescend == \A p \in Calls : Links(p) => FunctionAt(p) \notin Reachable(code[p].to)

\* What the generator takes for granted of the program it is given.
Reviewed == BodiesCallOthers /\ SelfCallsReturn /\ CallsDescend

-------------------------------------------------------------------------------
(* The generator.                                                          *)

ManifestInit ==
  /\ code \in Codes
  /\ inlined \in Inlinings
  /\ level \in Levels
  /\ phase = "returns"
  /\ return_targets = [f \in DOMAIN Functions |->
       {p + 1 : p \in {q \in Calls : Links(q) /\ code[q].to = f}}]
  /\ depths = [id \in {"main"} |-> 0]
  /\ pending = <<"main">>
  /\ manifest = <<>>
  /\ pc = Start("_start") /\ stack = <<>>
  /\ active = {}

\* What the callee of a tail call returns to and does not know of yet.
Inherited(p) == return_targets[FunctionAt(p)] \ return_targets[code[p].to]

Inherit(p) ==
  /\ phase = "returns"
  /\ p \in TailCalls
  /\ Inherited(p) # {}
  /\ return_targets' = [return_targets EXCEPT ![code[p].to] = @ \cup Inherited(p)]
  /\ UNCHANGED <<programVars, phase, depths, pending, manifest, pc, stack, active>>

ReturnsDone ==
  /\ phase = "returns"
  /\ \A p \in TailCalls : Inherited(p) = {}
  /\ phase' = "depths"
  /\ UNCHANGED <<programVars, return_targets, depths, pending, manifest, pc, stack, active>>

\* Mutant of DepthBelow: a tail call or inlined body is no step down.
DepthBelowInlined(parent, child) == depths[parent] + IF IsInlined(child) THEN 0 ELSE 1

DepthBelow(parent, child) == depths[parent] + 1

\* The children that are not known or known to be further away.
Closer(parent) ==
  {c \in Edges(parent) : c \notin DOMAIN depths \/ depths[c] > DepthBelow(parent, c)}

\* The first of the queue; its children come in any order.
Visit ==
  LET parent == pending[1]
      closer == Closer(parent)
  IN
  /\ phase = "depths"
  /\ pending # <<>>
  /\ depths' = [id \in DOMAIN depths \cup closer |->
                  IF id \in closer THEN DepthBelow(parent, id) ELSE depths[id]]
  /\ \E order \in SetToSeqs(closer) : pending' = Tail(pending) \o order
  /\ UNCHANGED <<programVars, phase, return_targets, manifest, pc, stack, active>>

ExecutionPcs(id) == UNION {LocalPcs(i) : i \in Reachable(id)}

Subtree(id) == ExecutionPcs(id) \cup Absorbed(id)

\* Mutant of ReturnsOf: a `ret' inside an inlined instance is not thought of.
ReturnsOfConcrete(id, extent) == IF IsInlined(id) THEN {} ELSE return_targets[id]

\* System calls that nothing follows in their function end the program.
Ends(extent) == {p \in extent : code[p].kind = "ecall" /\ Successors(p) = {}}

\* Where an instance may return to.
ReturnsOf(id, extent) ==
  IF ~IsInlined(id) THEN return_targets[id]
  ELSE IF \E p \in extent : code[p].kind = "ret"
       THEN return_targets[ConcreteAncestor(id)] ELSE {}

Exits(id, extent) ==
  IF id = "zkvm_exit" THEN {p \in extent : p \in Successors(p)}
  ELSE ((UNION {Successors(p) : p \in extent}) \ extent)
       \cup ({p + 1 : p \in {q \in Calls \cap extent : Links(q)}} \ extent)
       \cup ReturnsOf(id, extent) \cup Ends(extent)

Row(id) ==
  LET extent == Subtree(id)
  IN [entry |-> EntryOf(id), extent |-> extent, exits |-> Exits(id, extent)]

Select ==
  /\ phase = "depths"
  /\ pending = <<>>
  /\ phase' = "run"
  /\ manifest' = [id \in {i \in DOMAIN depths : depths[i] = level} |-> Row(id)]
  /\ UNCHANGED <<programVars, return_targets, depths, pending, pc, stack, active>>

-------------------------------------------------------------------------------
(* The machine (external) and the occurrences of reduce_trace().           *)

\* The occurrences that are active at p when they were those of `at' before.
ActiveAt(at, p) == {id \in DOMAIN manifest : p = manifest[id].entry \/ id \in at}

\* Control moves to p; an instance it leaves is no longer active.
Move(p) ==
  LET now == ActiveAt(active, pc) IN
  /\ phase = "run"
  /\ pc' = p
  /\ active' = {id \in now : p \in manifest[id].extent}
  /\ UNCHANGED <<programVars, phase, return_targets, depths, pending, manifest>>

Step ==
  /\ code[pc].kind \in {"plain", "ecall", "branch", "jump"}
  /\ \E p \in Successors(pc) : p # pc /\ Move(p)
  /\ UNCHANGED stack

Call ==
  /\ code[pc].kind = "call"
  /\ Len(stack) < MaxStack
  /\ stack' = Append(stack, pc + 1)
  /\ Move(Start(code[pc].to))

TailCall ==
  /\ code[pc].kind = "tail"
  /\ Move(Start(code[pc].to))
  /\ UNCHANGED stack

Return ==
  /\ code[pc].kind = "ret"
  /\ stack # <<>>
  /\ Move(Last(stack))
  /\ stack' = Front(stack)

ManifestNext ==
  \/ \E p \in Pcs : Inherit(p)
  \/ ReturnsDone
  \/ Visit
  \/ Select
  \/ Step
  \/ Call
  \/ TailCall
  \/ Return

ManifestSpec == ManifestInit /\ [][ManifestNext]_manifestVars

-------------------------------------------------------------------------------
(* Properties.                                                             *)

\* The depth of a function instance is the least number of calls and inlinings
\* between main and it, in whatever order the sets of children are walked.
DepthsShortest ==
  phase = "depths" /\ pending = <<>> =>
    /\ depths["main"] = 0
    /\ \A id \in DOMAIN depths : Edges(id) \subseteq DOMAIN depths
    /\ \A id \in DOMAIN depths \ {"main"} :
         LET callers == {c \in DOMAIN depths : id \in Edges(c)} IN
         /\ \A c \in callers : depths[id] <= depths[c] + 1
         /\ \E c \in callers : depths[id] = depths[c] + 1

\* Whatever path a reviewed program takes, it leaves an instance of the manifest
\* by one of its exits: by a jump, a return, a return of something it has called
\* as its last act.  reduce_trace() refuses none of its runs as an "unexpected exit".
ExitsCoverRuns ==
  [][\A id \in ActiveAt(active, pc) :
       pc' \notin {pc} \cup manifest[id].extent \cup manifest[id].exits => ~Reviewed]_manifestVars
===============================================================================
