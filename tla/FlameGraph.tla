------------------------------ MODULE FlameGraph ------------------------------
(***************************************************************************)
(* The second reader of the same machine code, tools/generate_zesu_cfg.py: *)
(* blocks and direct calls from the symbols, function instances from the   *)
(* DWARF entries, and build_flame, the tree of all call sites below main   *)
(* with the inlined calls that they are in.  The tree is walked as the     *)
(* recursion of node() and inline_node() does, a step for each of its      *)
(* turns.  It ends blocks behind a branch, jal, j, ret, jr and every       *)
(* jalr: a trap does not end one, and a block goes on behind the jalr of   *)
(* an unlinked pair but not behind jr.                                     *)
(*                                                                         *)
(* Each of the two tools runs on its own, on its own inputs.               *)
(***************************************************************************)
EXTENDS ControlFlow

CONSTANTS
  Names,          \* the names of symbols in their order
  FlameInputs     \* records [code, symbols, dies]

Stream == INSTANCE InstructionStream

\* No instruction is at 0, which stands for none; symbols have a start and a size;
\* an entry comes after the one that it is below, and has finitely many instructions.
ASSUME FlameAssumption ==
  /\ 0 \notin Addresses
  /\ \A input \in FlameInputs :
    /\ IsFiniteSet(input.symbols)
    /\ \A s \in input.symbols : s.start \in Nat /\ s.size \in Nat \ {0}
    /\ input.dies \in Seq([tag : {"concrete", "inlined", "block"}, pcs : SUBSET Nat, parent : Nat])
    /\ \A d \in DOMAIN input.dies : input.dies[d].parent < d /\ IsFiniteSet(input.dies[d].pcs)

VARIABLES
  built,          \* "idle", "extract", "own", "tree", "done", "missing"
  symbols,        \* set of [name, start, size]
  dies,           \* sequence of [tag: "concrete", "inlined", "block"; pcs; parent: 0 for none]
  instances,      \* sequence of [id, kind, pcs, parent: an id or 0]
  call_rows,      \* set of [caller, callee, source]
  symbol_at,      \* pc -> name of the symbol that it is assigned to
  inline_at_pc,   \* pc -> id of the inlined instance that it is assigned to, or 0
  reachable,      \* names that are called from the root
  frames,         \* the chain of node()s and inline_node()s
  expanded_calls, expanded_inline,
  meta            \* set of [key, machineOwner, callsitePc, cycleTruncated, self]

inputVars == <<symbols, dies>>
ownVars == <<instances, call_rows, symbol_at, inline_at_pc, reachable>>
treeVars == <<frames, expanded_calls, expanded_inline, meta>>
flameVars == <<built, inputVars, ownVars, treeVars>>

Earlier(k, l) == k[1] < l[1] \/ (k[1] = l[1] /\ k[2] < l[2])
Earliest(S, Key(_)) == CHOOSE x \in S : \A y \in S : x = y \/ Earlier(Key(x), Key(y))
InOrder(S, Key(_)) ==
  [n \in 1 .. Cardinality(S) |->
     CHOOSE x \in S : Cardinality({y \in S : Earlier(Key(y), Key(x))}) = n - 1]

Position(name) == SelectInSeq(Names, LAMBDA x : x = name)
Extent(s) == s.start .. (s.start + s.size - 1)
Holding(p) == {s \in symbols : p \in Extent(s)}
Named(name) == CHOOSE s \in symbols : s.name = name

-------------------------------------------------------------------------------
(* Blocks, for the symbol s.                                               *)

BlockStarts(s) ==
  LET pcs == Extent(s) \cap Addresses IN
  {s.start}
  \cup {code[p].to : p \in {q \in pcs : code[q].kind \in {"branch", "jump"} /\ code[q].to \in Extent(s)}}
  \cup {p + 1 : p \in {q \in pcs :
           code[q].kind \in {"branch", "jump", "end", "jr", "call", "tail", "indirect"} /\ q + 1 \in pcs}}

\* Mutant of FallsThrough: only ret ends the flow.
FallsThroughJr(p) == code[p].kind \notin {"jump", "end"}

FallsThrough(p) == code[p].kind \notin {"jump", "end", "jr"}

\* Where make_blocks says that p goes next: the next instruction of its block,
\* or, from the last one, the successors of the block.
NextOf(s, p) ==
  LET after == {p + 1} \cap Extent(s) \cap Addresses
      target == IF code[p].kind \in {"branch", "jump"} THEN {code[p].to} ELSE {}
  IN IF after # {} /\ after \cap BlockStarts(s) = {} THEN after
     ELSE (target \cap BlockStarts(s)) \cup (IF FallsThrough(p) THEN after ELSE {})

-------------------------------------------------------------------------------
(* DWARF entries and direct calls.                                         *)

\* The nearest entry from d upwards that is a function instance with code.
Nearest ==
  LET nearest[d \in 0 .. Len(dies)] ==
        IF d = 0 \/ (dies[d].tag # "block" /\ dies[d].pcs # {}) THEN d ELSE nearest[dies[d].parent]
  IN nearest

Lowest(S) == CHOOSE p \in S : \A q \in S : p <= q

\* By first address, an emitted function before what is inlined at its start.
function_instances ==
  LET Instance(d) == [id |-> d, kind |-> dies[d].tag, pcs |-> dies[d].pcs,
                      parent |-> Nearest[dies[d].parent]]
      Key(i) == <<2 * Lowest(i.pcs) + (IF i.kind = "concrete" THEN 0 ELSE 1), i.id>>
  IN InOrder({Instance(d) : d \in {e \in DOMAIN dies : Nearest[e] = e}}, Key)

\* The caller is the first symbol that holds the address, the callee the last
\* one that starts at the target; a call within a symbol is none, a pair that
\* does not link is one.
direct_calls ==
  LET caller(p) == Earliest(Holding(p), LAMBDA s : <<s.start, Position(s.name)>>).name
      entered(p) == {s \in symbols : s.start = code[p].to}
      callee(p) == Earliest(entered(p), LAMBDA s : <<0, -Position(s.name)>>).name
  IN {[caller |-> caller(p), callee |-> callee(p), source |-> p] :
        p \in {q \in Addresses : /\ code[q].kind \in {"call", "tail"} /\ Holding(q) # {} /\ entered(q) # {}
                                 /\ caller(q) # callee(q)}}

Extract ==
  /\ built = "extract" /\ built' = "own"
  /\ instances' = function_instances
  /\ call_rows' = direct_calls
  /\ UNCHANGED <<inputVars, symbol_at, inline_at_pc, reachable, treeVars>>

-------------------------------------------------------------------------------
(* Ownership.                                                              *)

Ids(kind) == {i \in DOMAIN instances : instances[i].kind = kind}
ById(id) == instances[CHOOSE i \in DOMAIN instances : instances[i].id = id]

\* Overlapping symbols: the narrowest one has the address.
Narrowest(p) == Earliest(Holding(p), LAMBDA s : <<s.size, Position(s.name)>>).name
assigned_pcs == [p \in {q \in Addresses : Holding(q) # {}} |-> Narrowest(p)]

\* The symbol of an emitted function, and of what is inlined into it.
SymbolsOf(id) ==
  LET concrete[d \in 0 .. Len(dies)] ==
        IF d = 0 \/ dies[d].tag = "concrete" THEN d ELSE concrete[Nearest[dies[d].parent]]
      entries == IF concrete[id] = 0 THEN {} ELSE {Lowest(dies[concrete[id]].pcs)}
  IN {Narrowest(p) : p \in {q \in entries : Holding(q) # {}}}

\* Mutant of Deepest: of entries with the same range the outer one.
DeepestOuter(containing) == Earliest(containing, LAMBDA i : <<Cardinality(i.pcs), i.id>>)

\* The smallest machine range, then the later entry.
Deepest(containing) == Earliest(containing, LAMBDA i : <<Cardinality(i.pcs), -i.id>>)

InlineAt(p) ==
  LET containing == {instances[i] : i \in {j \in Ids("inlined") :
                       p \in instances[j].pcs /\ SymbolsOf(instances[j].id) = {Narrowest(p)}}}
  IN IF containing = {} THEN 0 ELSE Deepest(containing).id

root(known) == IF "main" \in known THEN "main" ELSE Earliest(known, LAMBDA n : <<0, Position(n)>>)

Own ==
  /\ built = "own" /\ built' = "tree"
  /\ symbol_at' = assigned_pcs
  /\ inline_at_pc' = [p \in DOMAIN assigned_pcs |-> InlineAt(p)]
  /\ LET names == {s.name : s \in symbols}
         call_successors == [n \in names |-> {c.callee : c \in {d \in call_rows : d.caller = n}}]
     IN reachable' = ReachedFrom({root(ToSet(assigned_pcs))}, call_successors, names)
  /\ UNCHANGED <<inputVars, instances, call_rows, treeVars>>

-------------------------------------------------------------------------------
(* The tree.  A function is anchored at <<"fn", name>>, an inlined         *)
(* instance at <<"fi", id>>.                                               *)

concrete_for_name(name) ==
  LET mine == {i \in Ids("concrete") : SymbolsOf(instances[i].id) = {name}}
  IN IF mine = {} THEN 0 ELSE instances[CHOOSE i \in mine : \A k \in mine : k <= i].id

inline_children(id) ==
  LET Key(k) == <<Lowest(ById(k).pcs), k>>
  IN InOrder({instances[i].id : i \in {j \in Ids("inlined") : instances[j].parent = id}} , Key)

anchored_calls(anchor) ==
  LET Anchor(c) == IF c.source \in DOMAIN inline_at_pc /\ inline_at_pc[c.source] # 0
                   THEN <<"fi", inline_at_pc[c.source]>> ELSE <<"fn", c.caller>>
  IN InOrder({c \in call_rows : {c.caller, c.callee} \subseteq reachable /\ Anchor(c) = anchor},
             LAMBDA c : <<0, c.source>>)

\* A function that is open already shows nothing below it.
FunctionFrame(name, site, active) ==
  LET id == concrete_for_name(name)
      cycle == name \in active
  IN [anchor |-> <<"fn", name>>, site |-> site, cycle |-> cycle, active |-> active \cup {name},
      machineOwner |-> IF id = 0 THEN <<"fn", Named(name).start>> ELSE <<"fi", id>>,
      self |-> {p \in DOMAIN symbol_at : symbol_at[p] = name /\ inline_at_pc[p] = 0},
      inlines |-> IF id = 0 \/ cycle THEN <<>> ELSE inline_children(id),
      calls |-> IF cycle THEN <<>> ELSE anchored_calls(<<"fn", name>>)]

\* Only the first occurrence shows what is below it.
InlineFrame(id, active) ==
  LET body_expanded == id \notin expanded_inline
  IN [anchor |-> <<"fi", id>>, site |-> 0, cycle |-> FALSE, active |-> active,
      machineOwner |-> <<"fi", id>>,
      self |-> {p \in DOMAIN inline_at_pc : inline_at_pc[p] = id},
      inlines |-> IF body_expanded THEN inline_children(id) ELSE <<>>,
      calls |-> IF body_expanded THEN anchored_calls(<<"fi", id>>) ELSE <<>>]

Top == Last(frames)
AfterInline == [frames EXCEPT ![Len(frames)].inlines = Tail(@)]
AfterCall == [frames EXCEPT ![Len(frames)].calls = Tail(@)]

OpenRoot ==
  /\ built = "tree" /\ frames = <<>> /\ meta = {}
  /\ frames' = <<FunctionFrame(root(ToSet(symbol_at)), 0, {})>>
  /\ UNCHANGED <<built, inputVars, ownVars, expanded_calls, expanded_inline, meta>>

OpenInline ==
  /\ frames # <<>> /\ Top.inlines # <<>>
  /\ LET id == Head(Top.inlines)
     IN /\ frames' = Append(AfterInline, InlineFrame(id, Top.active))
        /\ expanded_inline' = expanded_inline \cup {id}
  /\ UNCHANGED <<built, inputVars, ownVars, expanded_calls, meta>>

\* Mutant of NotExpanded: a function is shown at one of its call sites.
NotExpandedBody(call) == \A c \in call_rows : c.source \in expanded_calls => c.callee # call.callee

NotExpanded(call) == call.source \notin expanded_calls

OpenCall ==
  /\ frames # <<>> /\ Top.inlines = <<>> /\ Top.calls # <<>>
  /\ LET call == Head(Top.calls)
     IN IF NotExpanded(call)
        THEN /\ expanded_calls' = expanded_calls \cup {call.source}
             /\ frames' = Append(AfterCall, FunctionFrame(call.callee, call.source, Top.active))
        ELSE frames' = AfterCall /\ UNCHANGED expanded_calls
  /\ UNCHANGED <<built, inputVars, ownVars, expanded_inline, meta>>

\* The node gets its meta data, under the path of labels to it.
CloseNode ==
  /\ frames # <<>> /\ Top.inlines = <<>> /\ Top.calls = <<>>
  /\ meta' = meta \cup {[key |-> [k \in DOMAIN frames |-> <<frames[k].anchor, frames[k].site>>],
                         machineOwner |-> Top.machineOwner, callsitePc |-> Top.site,
                         cycleTruncated |-> Top.cycle, self |-> Top.self]}
  /\ frames' = Front(frames)
  /\ UNCHANGED <<built, inputVars, ownVars, expanded_calls, expanded_inline>>

\* "displayed call hierarchy does not contain every main-reachable DWARF
\* function instance".
expected_instances ==
  {<<"fi", instances[i].id>> : i \in {j \in DOMAIN instances :
                                        SymbolsOf(instances[j].id) \cap reachable # {}}}
  \cup {<<"fn", Named(n).start>> : n \in {r \in reachable : concrete_for_name(r) = 0}}

Verify ==
  /\ built = "tree" /\ frames = <<>> /\ meta # {}
  /\ built' = IF expected_instances \subseteq {m.machineOwner : m \in meta} THEN "done" ELSE "missing"
  /\ UNCHANGED <<inputVars, ownVars, treeVars>>

FlameNext == Extract \/ Own \/ OpenRoot \/ OpenInline \/ OpenCall \/ CloseNode \/ Verify

-------------------------------------------------------------------------------
(* Both tools.                                                             *)

NoFlame ==
  /\ instances = <<>> /\ call_rows = {} /\ symbol_at = <<>> /\ inline_at_pc = <<>>
  /\ reachable = {}
  /\ frames = <<>> /\ expanded_calls = {} /\ expanded_inline = {} /\ meta = {}

AnalyzeInit == FlowInit /\ built = "idle" /\ symbols = {} /\ dies = <<>> /\ NoFlame

FlameInit ==
  /\ \E input \in FlameInputs : code = input.code /\ symbols = input.symbols /\ dies = input.dies
  /\ built = "extract" /\ NoFlame
  /\ phase = "idle" /\ NoAnalysis

Analyze == FlowNext /\ UNCHANGED flameVars
Flame == FlameNext /\ UNCHANGED flowVars

BinarySpec ==
  /\ AnalyzeInit \/ FlameInit
  /\ [][Analyze \/ Flame]_<<flowVars, flameVars>>

-------------------------------------------------------------------------------
(* Properties.                                                             *)

\* No two symbols overlap or have one name, and the code leaves a symbol by calling
\* another one at its start (with a link or as its last act), or by a return, a trap
\* or a register: it does not run on behind its end.
CallsOnly ==
  /\ \A s, t \in symbols : s # t => s.name # t.name /\ Extent(s) \cap Extent(t) = {}
  /\ \A s \in symbols : Extent(s) \subseteq Addresses
  /\ \A p \in Addresses : \A s \in Holding(p) : \A q \in Follow(p) \ Extent(s) :
       code[p].kind \in {"call", "tail"} /\ q = code[p].to /\ \E t \in symbols : q = t.start

\* The root of the tree is where the program is entered, and no two emitted
\* functions begin in one symbol.
OneRootEach ==
  /\ \E s \in symbols : s.name = root(ToSet(symbol_at)) /\ s.start = Start(Entry)
  /\ \A i, k \in Ids("concrete") :
       i # k => SymbolsOf(instances[i].id) \cap SymbolsOf(instances[k].id) = {}

Sites == {p \in DirectlyReached : /\ code[p].kind \in {"call", "tail"}
                                  /\ code[p].to \notin UNION {Extent(s) : s \in Holding(p)}}

\* Of code that only calls: the tree shows every instruction that is reached
\* from the entry, none in two owners, and every call that is reached at one
\* node, below a node that the call instruction belongs to: "A callsite is one
\* static proof obligation, even when its caller is itself reached at several
\* callsites".  Recursion and bodies that are shared leave nothing out, and the
\* check for missing instances never fails (build_flame, direct_calls).
FlameIsComplete ==
  built \in {"done", "missing"} /\ CallsOnly /\ OneRootEach =>
    /\ built = "done"
    /\ DirectlyReached \subseteq UNION {m.self : m \in meta}
    /\ \A m, o \in meta : m.machineOwner # o.machineOwner => m.self \cap o.self = {}
    /\ \A p \in Sites : Cardinality({m \in meta : m.callsitePc = p}) = 1
    /\ \A m \in meta : m.callsitePc # 0 =>
         \E o \in meta : o.key = Front(m.key) /\ m.callsitePc \in o.self

\* What a compiler writes of a program whose functions are not cut into pieces:
\* what is inlined is below an emitted function, what is below an entry is in its
\* code, what is not is apart; an emitted function is the code of one symbol.
RangesNest ==
  /\ \A i \in DOMAIN instances : instances[i].kind = "concrete" <=> instances[i].parent = 0
  /\ \A i, k \in DOMAIN instances :
       /\ instances[i].parent = instances[k].id => instances[i].pcs \subseteq instances[k].pcs
       /\ i # k /\ instances[i].parent = instances[k].parent =>
            instances[i].pcs \cap instances[k].pcs = {}

EmittedAreSymbols ==
  \A i \in Ids("concrete") :
    LET entry == Lowest(instances[i].pcs) IN
    /\ entry \in DOMAIN symbol_at
    /\ \A p \in DOMAIN symbol_at : p \in instances[i].pcs <=> symbol_at[p] = symbol_at[entry]

\* The study of patterns reads these function instances and takes the deepest
\* one that holds an address; build_flame takes the smallest one: they agree
\* (owner_at of ngram_motifs.py).
OwnersAgree ==
  LET parents == [i \in DOMAIN instances |->
        [pcs |-> instances[i].pcs,
         parent |-> IF instances[i].parent = 0 THEN 0
                    ELSE CHOOSE k \in DOMAIN instances : instances[k].id = instances[i].parent]]
      owner(p) == LET i == Stream!owner_at(parents, p) IN IF i = 0 THEN 0 ELSE instances[i].id
  IN \A p \in DOMAIN symbol_at :
       owner(p) = IF inline_at_pc[p] # 0 THEN inline_at_pc[p] ELSE concrete_for_name(symbol_at[p])

\* Both tools see the same steps inside a function but for a call, which only the
\* other one follows to its target, a pair that does not link and a trap, behind
\* which make_blocks goes on, and a jump through a register, behind which analyze()
\* does (COND, UNCOND and RET of make_blocks; direct_jump, terminal of analyze).
BlocksAgree ==
  \A s \in symbols : \A p \in Extent(s) \cap Addresses :
    NextOf(s, p) = CASE code[p].kind \in {"call", "tail", "trap"} -> {p + 1} \cap Addresses \cap Extent(s)
                     [] code[p].kind = "jr" -> {}
                     [] OTHER -> Taken(p) \cap Extent(s)

\* What is read twice from the same binary is read in the same way.
ToolsAgree == built = "done" => (RangesNest /\ EmittedAreSymbols => OwnersAgree) /\ BlocksAgree
===============================================================================
