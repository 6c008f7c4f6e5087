------------------------- MODULE ControlFlowProofs -------------------------
(***************************************************************************)
(* For every program whose jumps leave a function for the start of one     *)
(* only, and in whatever order blocks, functions and edges are searched:   *)
(* the blocks reached hold what direct control flow reaches, the loops are *)
(* the classes of blocks of a function that reach each other, and the call *)
(* depth is the length of the longest chain of calls, or 0 for recursion.  *)
(* And for all symbols and DWARF entries: the flame graph and the study of *)
(* patterns give an address to the same function instance, and the flame   *)
(* graph shows all that is reached, each call of it once.                  *)
(***************************************************************************)
EXTENDS FlameGraph, FiniteSetTheorems, SequenceLemmas

-----------------------------------------------------------------------------
\* What is reached is the least set that has S and is closed.
LEMMA ReachedIsLeast ==
  ASSUME NEW S, NEW f, NEW nodes, IsFiniteSet(nodes)
  PROVE  LET reached == ReachedFrom(S, f, nodes) IN
         /\ S \subseteq reached
         /\ ClosedUnder(reached, f, nodes)
         /\ \A T : S \subseteq T /\ ClosedUnder(T, f, nodes) => reached \subseteq T
<1>1. ReachedFrom(S, f, nodes) = Layers(S, f, nodes)[Cardinality(nodes)]
  BY DEF ReachedFrom, Layers
<1> QED BY <1>1, LayersAreLeast

-----------------------------------------------------------------------------
\* The blocks of a partition.

LEMMA GreatestIs ==
  ASSUME NEW T \in SUBSET Nat, T # {}, NEW m \in Nat, \A x \in T : x <= m
  PROVE  Greatest(T) \in T /\ \A x \in T : x <= Greatest(T)
<1> DEFINE D == {m - x : x \in T}
<1>1. D \in SUBSET Nat /\ D # {}
  <2>1. ASSUME NEW x \in T PROVE m - x \in Nat
    <3>1. x \in Nat /\ x <= m
      OBVIOUS
    <3> QED BY <3>1
  <2>2. D \in SUBSET Nat
    BY <2>1
  <2> QED BY <2>2
<1>2. PICK d \in D : \A e \in D : d <= e
  BY <1>1, Least
<1>3. PICK y \in T : d = m - y
  OBVIOUS
<1>4. \A x \in T : x <= y
  <2> SUFFICES ASSUME NEW x \in T PROVE x <= y
    OBVIOUS
  <2>1. d <= m - x /\ m - x \in D
    BY <1>2
  <2> QED BY <1>3, <2>1
<1>5. \E p \in T : \A q \in T : q <= p
  BY <1>4
<1> QED BY <1>5 DEF Greatest

LEMMA StartIs ==
  ASSUME NEW f \in DOMAIN Functions
  PROVE  /\ Functions[f] \in SUBSET Nat /\ Start(f) \in Functions[f]
         /\ \A q \in Functions[f] : Start(f) <= q
         /\ \A q \in Functions[f] : \A p \in Start(f) .. q : p \in Functions[f]
<1>1. PICK a, b \in Functions[f] : Functions[f] = a .. b
  BY IntervalFunctions
<1>2. Functions[f] \in SUBSET Nat
  BY IntervalFunctions DEF Addresses
<1>3. a \in Nat /\ b \in Nat /\ a \in Functions[f] /\ \A q \in Functions[f] : a <= q
  BY <1>1, <1>2
<1>4. Start(f) \in Functions[f] /\ \A q \in Functions[f] : Start(f) <= q
  <2>1. \E p \in Functions[f] : \A q \in Functions[f] : p <= q
    BY <1>3
  <2> QED BY <2>1 DEF Start
<1>5. ASSUME NEW q \in Functions[f], NEW p \in Start(f) .. q PROVE p \in Functions[f]
  <2>1. Start(f) \in Nat /\ q \in Nat /\ a <= Start(f) /\ q <= b
    BY <1>1, <1>2, <1>3, <1>4
  <2>2. p \in a .. b
    BY <1>3, <2>1
  <2> QED BY <1>1, <2>2
<1> QED BY <1>2, <1>4, <1>5

LEMMA FunctionIs ==
  ASSUME NEW p \in Addresses
  PROVE  /\ p \in Nat /\ FunctionOf(p) \in DOMAIN Functions /\ p \in Functions[FunctionOf(p)]
         /\ \A f \in DOMAIN Functions : p \in Functions[f] => f = FunctionOf(p)
<1>1. \E f \in DOMAIN Functions : p \in Functions[f]
  BY DEF Addresses
<1>2. FunctionOf(p) \in DOMAIN Functions /\ p \in Functions[FunctionOf(p)]
  BY <1>1 DEF FunctionOf
<1>3. \A f \in DOMAIN Functions : p \in Functions[f] => f = FunctionOf(p)
  BY <1>2, DisjointFunctions
<1> QED BY <1>2, <1>3, IntervalFunctions

LEMMA AddressesFinite == IsFiniteSet(Addresses)
<1>1. \A f \in DOMAIN Functions : IsFiniteSet(Functions[f])
  <2> SUFFICES ASSUME NEW f \in DOMAIN Functions PROVE IsFiniteSet(Functions[f])
    OBVIOUS
  <2>1. PICK a, b \in Functions[f] : Functions[f] = a .. b
    BY IntervalFunctions
  <2>2. a \in Int /\ b \in Int
    BY StartIs
  <2> QED BY <2>1, <2>2, FS_Interval
<1>2. IsFiniteSet({Functions[f] : f \in DOMAIN Functions})
  <2> DEFINE g == [f \in DOMAIN Functions |-> Functions[f]]
  <2>1. g \in Surjection(DOMAIN Functions, {Functions[f] : f \in DOMAIN Functions})
    BY DEF Surjection
  <2> HIDE DEF g
  <2> QED BY <2>1, IntervalFunctions, FS_Surjection
<1>3. IsFiniteSet(UNION {Functions[f] : f \in DOMAIN Functions})
  <2>1. \A T \in {Functions[f] : f \in DOMAIN Functions} : IsFiniteSet(T)
    BY <1>1
  <2> QED BY <1>2, <2>1, FS_UNION
<1> QED BY <1>3 DEF Addresses

Partitioned == code \in Programs /\ leaders = Leaders

LEMMA LeadersAre ==
  ASSUME Partitioned
  PROVE  /\ leaders \in SUBSET Addresses
         /\ \A f \in DOMAIN Functions : Start(f) \in leaders
         /\ \A p \in Addresses : code[p].to \in Functions[FunctionOf(p)] => code[p].to \in leaders
         /\ \A p \in Addresses :
              EndsBlock(p) /\ p + 1 \in Functions[FunctionOf(p)] => p + 1 \in leaders
<1>1. \A f \in DOMAIN Functions : Start(f) \in Addresses
  BY StartIs DEF Addresses
<1>2. \A p \in Addresses : Functions[FunctionOf(p)] \subseteq Addresses
  BY FunctionIs DEF Addresses
<1>3. Leaders \in SUBSET Addresses
  BY <1>1, <1>2 DEF Leaders
<1> QED BY <1>3 DEF Partitioned, Leaders

\* The leader that an instruction is filed under.
LEMMA ContainingIs ==
  ASSUME Partitioned, NEW p \in Addresses
  PROVE  /\ Containing(p) \in leaders /\ Containing(p) <= p
         /\ \A b \in leaders : b <= p => b <= Containing(p)
         /\ FunctionOf(Containing(p)) = FunctionOf(p)
         /\ p \in leaders => Containing(p) = p
<1> DEFINE T == {b \in leaders : b <= p}
           f == FunctionOf(p)
<1>1. /\ p \in Nat /\ f \in DOMAIN Functions /\ p \in Functions[f]
      /\ leaders \in SUBSET Addresses /\ leaders \in SUBSET Nat
  BY FunctionIs, LeadersAre, IntervalFunctions
<1>2. Start(f) \in T
  BY <1>1, LeadersAre, StartIs
<1>3. Greatest(T) \in T /\ \A x \in T : x <= Greatest(T)
  <2>1. T \in SUBSET Nat /\ T # {} /\ \A x \in T : x <= p
    BY <1>1, <1>2
  <2> HIDE DEF T
  <2> QED BY <1>1, <2>1, GreatestIs
<1>4. Containing(p) = Greatest(T)
  BY DEF Containing
<1>5. Containing(p) \in leaders /\ Containing(p) <= p /\ \A b \in leaders : b <= p => b <= Containing(p)
  BY <1>3, <1>4
<1>6. FunctionOf(Containing(p)) = f
  <2>1. Containing(p) \in Start(f) .. p
    <3>1. Start(f) \in leaders /\ Start(f) <= p /\ Start(f) \in Nat
      BY <1>1, <1>2, StartIs
    <3>2. Containing(p) \in Nat
      BY <1>1, <1>5
    <3> QED BY <1>1, <1>5, <3>1, <3>2
  <2>2. Containing(p) \in Functions[f]
    BY <1>1, <2>1, StartIs
  <2> QED BY <1>1, <1>5, <2>2, FunctionIs
<1>7. p \in leaders => Containing(p) = p
  <2>1. Containing(p) \in Nat
    BY <1>1, <1>5
  <2> QED BY <1>1, <1>5, <2>1
<1> QED BY <1>5, <1>6, <1>7

\* What follows an instruction and is no leader belongs to the same block, and
\* control can only go there.
LEMMA NextIs ==
  ASSUME Partitioned, NEW p \in Addresses, p + 1 \in Addresses, p + 1 \notin leaders
  PROVE  Containing(p + 1) = Containing(p) /\ Taken(p) = {p + 1}
<1> DEFINE f == FunctionOf(p)
           g == FunctionOf(p + 1)
<1>1. /\ p \in Nat /\ f \in DOMAIN Functions /\ p \in Functions[f]
      /\ g \in DOMAIN Functions /\ p + 1 \in Functions[g]
      /\ leaders \in SUBSET Nat
  BY FunctionIs, LeadersAre, IntervalFunctions
<1>2. Start(g) <= p + 1 /\ Start(g) # p + 1 /\ Start(g) \in Nat
  BY <1>1, LeadersAre, StartIs
<1>3. p \in Functions[g]
  <2>1. p \in Start(g) .. (p + 1)
    BY <1>1, <1>2
  <2> QED BY <1>1, <2>1, StartIs
<1>4. f = g
  BY <1>1, <1>3, FunctionIs
<1>5. ~EndsBlock(p)
  BY <1>1, <1>4, LeadersAre
<1>6. Taken(p) = {p + 1}
  BY <1>5 DEF EndsBlock, Taken, Follow
<1>7. {b \in leaders : b <= p + 1} = {b \in leaders : b <= p}
  <2>1. ASSUME NEW b \in leaders PROVE b <= p + 1 <=> b <= p
    <3>1. b \in Nat /\ b # p + 1
      BY <1>1, <2>1
    <3> QED BY <1>1, <3>1
  <2> QED BY <2>1
<1> QED BY <1>6, <1>7 DEF Containing

LEMMA BlockIs ==
  ASSUME Partitioned, NEW b \in leaders
  PROVE  /\ b \in Block(b) /\ LastOf(b) \in Block(b) /\ Block(b) \subseteq Addresses
         /\ \A p \in Block(b) : b <= p /\ p <= LastOf(b)
         /\ \A p \in Block(b) : p # LastOf(b) =>
              p + 1 \in Block(b) /\ p + 1 \notin leaders
         /\ LastOf(b) + 1 \in Addresses => LastOf(b) + 1 \in leaders
<1>1. b \in Addresses /\ b \in Nat
  BY LeadersAre, IntervalFunctions
<1> DEFINE f == FunctionOf(b)
<1>2. f \in DOMAIN Functions /\ b \in Functions[f]
  BY <1>1, FunctionIs
<1>3. b \in Block(b) /\ Block(b) \subseteq Addresses /\ Block(b) \in SUBSET Nat
  BY <1>1, ContainingIs, IntervalFunctions DEF Block
<1>4. \A p \in Block(b) : b <= p /\ p \in Functions[f]
  <2> SUFFICES ASSUME NEW p \in Block(b) PROVE b <= p /\ p \in Functions[f]
    OBVIOUS
  <2>1. p \in Addresses /\ Containing(p) = b
    BY DEF Block
  <2> QED BY <2>1, ContainingIs, FunctionIs
<1>5. LastOf(b) \in Block(b) /\ \A p \in Block(b) : p <= LastOf(b)
  <2>1. PICK x, m \in Functions[f] : Functions[f] = x .. m
    BY <1>2, IntervalFunctions
  <2>2. m \in Nat /\ \A p \in Block(b) : p <= m
    BY <1>2, <1>4, <2>1, StartIs
  <2> QED BY <1>3, <2>2, GreatestIs DEF LastOf
<1>6. ASSUME NEW p \in Block(b), p # LastOf(b)
      PROVE  p + 1 \in Block(b) /\ p + 1 \notin leaders
  <2> DEFINE e == LastOf(b)
  <2>1. /\ p \in Nat /\ e \in Nat /\ p + 1 <= e /\ b <= p /\ e \in Functions[f]
        /\ p \in Addresses /\ e \in Addresses /\ Containing(p) = b /\ Containing(e) = b
    <3>1. p \in Nat /\ e \in Nat /\ p <= e /\ p # e
      BY <1>3, <1>5, <1>6
    <3> QED BY <1>4, <1>5, <3>1 DEF Block
  <2>2. p + 1 \in Functions[f]
    <3>1. Start(f) <= b /\ Start(f) \in Nat
      BY <1>2, StartIs
    <3>2. p + 1 \in Start(f) .. e
      BY <1>1, <2>1, <3>1
    <3> QED BY <1>2, <2>1, <3>2, StartIs
  <2>3. p + 1 \in Addresses
    BY <1>2, <2>2 DEF Addresses
  <2>4. p + 1 \notin leaders
    <3> SUFFICES ASSUME p + 1 \in leaders PROVE FALSE
      OBVIOUS
    <3>1. p + 1 <= Containing(e)
      BY <2>1, ContainingIs
    <3> QED BY <1>1, <2>1, <3>1
  <2>5. Containing(p + 1) = b
    BY <2>1, <2>3, <2>4, NextIs
  <2> QED BY <2>3, <2>4, <2>5 DEF Block
<1>7. ASSUME LastOf(b) + 1 \in Addresses PROVE LastOf(b) + 1 \in leaders
  <2> SUFFICES ASSUME LastOf(b) + 1 \notin leaders PROVE FALSE
    OBVIOUS
  <2>1. LastOf(b) \in Addresses /\ Containing(LastOf(b)) = b
    BY <1>5 DEF Block
  <2>2. Containing(LastOf(b) + 1) = b
    BY <1>7, <2>1, NextIs
  <2>3. LastOf(b) + 1 <= LastOf(b) /\ LastOf(b) \in Nat
    BY <1>3, <1>5, <1>7, <2>2 DEF Block
  <2> QED BY <2>3
<1> QED BY <1>3, <1>4, <1>5, <1>6, <1>7

\* The edges of a block are where control goes after its last instruction.
LEMMA SuccessorsAre ==
  ASSUME Partitioned, NEW b \in leaders
  PROVE  SuccessorsOf(b) = Taken(LastOf(b)) /\ SuccessorsOf(b) \subseteq leaders
<1> DEFINE p == LastOf(b)
<1>1. p \in Addresses /\ (p + 1 \in Addresses => p + 1 \in leaders)
  BY BlockIs
<1>2. Fallthrough(p) = {p + 1} \cap Addresses /\ Fallthrough(p) \subseteq leaders
  BY <1>1, ContainingIs DEF Fallthrough
<1>3. ASSUME code[p].kind \in {"branch", "call", "jump", "tail"}
      PROVE  Destination(p) = {code[p].to} /\ Destination(p) \subseteq leaders
  <2>1. code[p].to \in leaders
    BY <1>1, <1>3, JumpsToEntries, LeadersAre DEF Partitioned
  <2> QED BY <2>1 DEF Destination
<1> HIDE DEF p
<1>4. CASE code[p].kind \in {"branch", "call"}
  BY <1>2, <1>3, <1>4 DEF SuccessorsOf, Taken, Follow, p
<1>5. CASE code[p].kind \in {"jump", "tail"}
  BY <1>3, <1>5 DEF SuccessorsOf, Taken, Follow, p
<1>6. CASE code[p].kind \in {"end", "trap"}
  BY <1>6 DEF SuccessorsOf, Taken, Follow, p
<1>7. CASE code[p].kind \notin {"branch", "call", "jump", "tail", "end", "trap"}
  BY <1>2, <1>7 DEF SuccessorsOf, Taken, Follow, p
<1> QED BY <1>4, <1>5, <1>6, <1>7 DEF p

-----------------------------------------------------------------------------
\* What is reached where analyze() lets the machine go.

Everywhere == [p \in Addresses |-> Taken(p)]

LEMMA TakenReachedIs ==
  ASSUME Partitioned
  PROVE  /\ Start(Entry) \in TakenReached /\ TakenReached \subseteq Addresses
         /\ \A p \in TakenReached : Taken(p) \subseteq TakenReached
         /\ \A T \in SUBSET Addresses :
              Start(Entry) \in T /\ (\A p \in T : Taken(p) \subseteq T) => TakenReached \subseteq T
<1> DEFINE R == ReachedFrom({Start(Entry)}, Everywhere, Addresses)
<1>1. TakenReached = R
  BY DEF TakenReached, Everywhere
<1>2. /\ {Start(Entry)} \subseteq R /\ ClosedUnder(R, Everywhere, Addresses)
      /\ \A T : {Start(Entry)} \subseteq T /\ ClosedUnder(T, Everywhere, Addresses) => R \subseteq T
  BY AddressesFinite, ReachedIsLeast
<1> HIDE DEF R
<1>3. \A p \in Addresses : Everywhere[p] = Taken(p)
  BY DEF Everywhere
<1>4. \A T \in SUBSET Addresses : (\A p \in T : Taken(p) \subseteq T) => ClosedUnder(T, Everywhere, Addresses)
  BY <1>3 DEF ClosedUnder
<1>5. Start(Entry) \in Addresses
  BY EntryAssumption, StartIs DEF Addresses
<1>6. \A p \in Addresses : Taken(p) \subseteq Addresses
  <2> SUFFICES ASSUME NEW p \in Addresses PROVE Taken(p) \subseteq Addresses
    OBVIOUS
  <2>1. code[p].kind \in {"branch", "call", "jump", "tail"} => code[p].to \in Addresses
    BY JumpsToEntries, FunctionIs, StartIs DEF Partitioned, Addresses
  <2> QED BY <2>1 DEF Taken, Follow
<1>7. R \subseteq Addresses
  BY <1>2, <1>4, <1>5, <1>6
<1>8. \A p \in R : Taken(p) \subseteq R
  BY <1>2, <1>3, <1>7 DEF ClosedUnder
<1> QED BY <1>1, <1>2, <1>4, <1>7, <1>8

\* A block is executed from its leader to its end.
LEMMA BlockIsReached ==
  ASSUME Partitioned, NEW b \in leaders, b \in TakenReached
  PROVE  Block(b) \subseteq TakenReached
<1> DEFINE T == Block(b) \ TakenReached
<1> SUFFICES ASSUME T # {} PROVE FALSE
  OBVIOUS
<1>1. T \in SUBSET Nat
  BY BlockIs, IntervalFunctions
<1>2. PICK q \in T : \A x \in T : q <= x
  BY <1>1, Least
<1>3. q \in Addresses /\ Containing(q) = b /\ q \in Nat /\ b \in Nat /\ b <= q /\ q # b
      /\ q <= LastOf(b) /\ LastOf(b) \in Nat
  <2>1. Block(b) \in SUBSET Nat
    BY BlockIs, IntervalFunctions
  <2> QED BY <2>1, BlockIs DEF Block
<1>4. q - 1 \in Addresses
  <2>1. b \in Addresses /\ FunctionOf(b) = FunctionOf(q)
    BY <1>3, LeadersAre, ContainingIs
  <2> DEFINE f == FunctionOf(q)
  <2>2. f \in DOMAIN Functions /\ b \in Functions[f] /\ q \in Functions[f]
    BY <1>3, <2>1, FunctionIs
  <2>3. Start(f) \in Nat /\ Start(f) <= b
    BY <2>2, StartIs
  <2>4. q - 1 \in Start(f) .. q
    BY <1>3, <2>3
  <2>5. q - 1 \in Functions[f]
    BY <2>2, <2>4, StartIs
  <2> QED BY <2>2, <2>5 DEF Addresses
<1>5. (q - 1) + 1 = q /\ q - 1 \in Nat /\ q - 1 < q
  BY <1>3
<1>6. q \notin leaders
  BY <1>3, ContainingIs
<1>7. Containing(q) = Containing(q - 1) /\ Taken(q - 1) = {q}
  <2>1. \A r \in Addresses : r + 1 \in Addresses /\ r + 1 \notin leaders
                               => Containing(r + 1) = Containing(r) /\ Taken(r) = {r + 1}
    BY NextIs
  <2> QED BY <1>3, <1>4, <1>5, <1>6, <2>1
<1>8. q - 1 \in Block(b) /\ q - 1 \notin T
  BY <1>1, <1>2, <1>3, <1>4, <1>5, <1>7 DEF Block
<1>9. q \in TakenReached
  BY <1>7, <1>8, TakenReachedIs
<1> QED BY <1>9

FlowInv ==
  /\ code \in Programs
  /\ phase \in {"partition", "graph", "reach", "loops", "depth", "done"}
  /\ phase = "partition" => seen = {}
  /\ phase = "graph" => leaders = Leaders /\ seen = {}
  /\ phase = "reach" =>
       /\ leaders = Leaders
       /\ cfg = [b \in leaders |-> SuccessorsOf(b)]
       /\ seen \cup todo \subseteq leaders \cap TakenReached
       /\ Start(Entry) \in seen \cup todo
       /\ \A b \in seen : cfg[b] \subseteq seen \cup todo

LEMMA FlowInitially == FlowInit => FlowInv
BY DEF FlowInit, NoAnalysis, FlowInv

LEMMA GraphStep == FlowInv /\ MakeGraph => FlowInv'
<1> SUFFICES ASSUME FlowInv, MakeGraph PROVE FlowInv'
  OBVIOUS
<1>1. /\ code' = code /\ leaders' = leaders /\ seen' = seen /\ phase' = "reach"
      /\ cfg' = [b \in leaders |-> SuccessorsOf(b)] /\ todo' = {Containing(Start(Entry))}
      /\ phase = "graph"
  BY DEF MakeGraph
<1>2. Partitioned /\ seen = {}
  BY <1>1 DEF FlowInv, Partitioned
<1>3. Start(Entry) \in leaders /\ Containing(Start(Entry)) = Start(Entry)
  BY <1>2, EntryAssumption, LeadersAre, ContainingIs
<1>4. Start(Entry) \in TakenReached
  BY <1>2, TakenReachedIs
<1>5. TakenReached' = TakenReached /\ Leaders' = Leaders
  BY <1>1 DEF TakenReached, Taken, Follow, Leaders, EndsBlock
<1>6. \A b \in leaders : SuccessorsOf(b)' = SuccessorsOf(b)
  BY <1>1 DEF SuccessorsOf, LastOf, Block, Containing, Destination, Fallthrough
<1> QED BY <1>1, <1>2, <1>3, <1>4, <1>5, <1>6 DEF FlowInv, Partitioned

LEMMA ReachStep == ASSUME FlowInv, NEW b \in Addresses, Reach(b) PROVE FlowInv'
<1>1. /\ UNCHANGED <<code, phase, leaders, cfg>> /\ phase = "reach" /\ b \in todo
      /\ seen' = seen \cup {b} /\ todo' = (todo \cup cfg[b]) \ seen'
  BY DEF Reach, graphVars
<1>2. /\ Partitioned /\ cfg = [c \in leaders |-> SuccessorsOf(c)]
      /\ seen \cup todo \subseteq leaders \cap TakenReached
      /\ Start(Entry) \in seen \cup todo
      /\ \A c \in seen : cfg[c] \subseteq seen \cup todo
  BY <1>1 DEF FlowInv, Partitioned
<1>3. cfg[b] \subseteq leaders \cap TakenReached
  <2>1. b \in leaders /\ b \in TakenReached
    BY <1>1, <1>2
  <2>2. LastOf(b) \in TakenReached
    BY <1>2, <2>1, BlockIs, BlockIsReached
  <2>3. cfg[b] = Taken(LastOf(b)) /\ cfg[b] \subseteq leaders
    BY <1>2, <2>1, SuccessorsAre
  <2> QED BY <1>2, <2>2, <2>3, TakenReachedIs
<1>4. TakenReached' = TakenReached /\ Leaders' = Leaders
  BY <1>1 DEF TakenReached, Taken, Follow, Leaders, EndsBlock
<1>5. \A c \in leaders : SuccessorsOf(c)' = SuccessorsOf(c)
  BY <1>1 DEF SuccessorsOf, LastOf, Block, Containing, Destination, Fallthrough
<1>6. seen' \cup todo' = seen \cup todo \cup cfg[b]
  BY <1>1
<1> QED BY <1>1, <1>2, <1>3, <1>4, <1>5, <1>6 DEF FlowInv, Partitioned

LEMMA FlowKept == FlowInv /\ [FlowNext]_flowVars => FlowInv'
<1> SUFFICES ASSUME FlowInv, [FlowNext]_flowVars PROVE FlowInv'
  OBVIOUS
<1>1. CASE Partition
  <2>1. UNCHANGED <<code, seen>> /\ phase' = "graph" /\ leaders' = Leaders /\ phase = "partition"
    BY <1>1 DEF Partition, reachVars
  <2>2. Leaders' = Leaders
    BY <2>1 DEF Leaders, EndsBlock
  <2> QED BY <2>1, <2>2 DEF FlowInv
<1>2. CASE MakeGraph
  BY <1>2, GraphStep
<1>3. CASE \E b \in Addresses : Reach(b)
  BY <1>3, ReachStep
<1>4. ASSUME code' = code, phase' \in {"loops", "depth", "done"} PROVE FlowInv'
  BY <1>4 DEF FlowInv
<1>5. CASE BeginLoops \/ BeginDepth \/ EndDepth
  BY <1>4, <1>5 DEF BeginLoops, BeginDepth, EndDepth
<1>6. CASE (\E n \in DOMAIN graph : VisitRoot(n) \/ VisitNext(n) \/ SeenBefore(n)) \/ VisitReturns
  BY <1>4, <1>6 DEF VisitRoot, VisitNext, SeenBefore, VisitReturns, Searching
<1>7. CASE UNCHANGED flowVars
  <2>1. UNCHANGED <<code, phase, leaders, cfg, seen, todo>>
    BY <1>7 DEF flowVars, graphVars, reachVars
  <2>2. TakenReached' = TakenReached /\ Leaders' = Leaders
    BY <2>1 DEF TakenReached, Taken, Follow, Leaders, EndsBlock
  <2>3. \A c \in leaders : SuccessorsOf(c)' = SuccessorsOf(c)
    BY <2>1 DEF SuccessorsOf, LastOf, Block, Containing, Destination, Fallthrough
  <2> QED BY <2>1, <2>2, <2>3 DEF FlowInv
<1> QED BY <1>1, <1>2, <1>3, <1>5, <1>6, <1>7 DEF FlowNext

LEMMA FlowSuffices == FlowInv => ReachedExactly
<1> SUFFICES ASSUME FlowInv, Reached PROVE ReachedInsns = TakenReached
  BY DEF ReachedExactly
<1>1. /\ Partitioned /\ cfg = [c \in leaders |-> SuccessorsOf(c)]
      /\ seen \subseteq leaders \cap TakenReached /\ Start(Entry) \in seen
      /\ \A c \in seen : cfg[c] \subseteq seen
  BY DEF FlowInv, Partitioned, Reached
<1>2. ReachedInsns \subseteq TakenReached
  BY <1>1, BlockIsReached DEF ReachedInsns
<1>3. ReachedInsns \subseteq Addresses
  BY <1>2, <1>1, TakenReachedIs
<1>4. Start(Entry) \in ReachedInsns
  BY <1>1, BlockIs DEF ReachedInsns
<1>5. ASSUME NEW p \in ReachedInsns PROVE Taken(p) \subseteq ReachedInsns
  <2>1. PICK b \in seen : p \in Block(b)
    BY DEF ReachedInsns
  <2>2. b \in leaders /\ p \in Addresses /\ Containing(p) = b
    BY <1>1, <2>1 DEF Block
  <2>3. CASE p = LastOf(b)
    <3>1. Taken(p) \subseteq seen
      BY <1>1, <2>1, <2>2, <2>3, SuccessorsAre
    <3>2. \A c \in seen : c \in Block(c)
      BY <1>1, BlockIs
    <3> QED BY <3>1, <3>2 DEF ReachedInsns
  <2>4. CASE p # LastOf(b)
    <3>1. p + 1 \in Block(b) /\ p + 1 \notin leaders
      BY <1>1, <2>1, <2>2, <2>4, BlockIs
    <3>2. p + 1 \in Addresses
      BY <3>1 DEF Block
    <3>3. Taken(p) = {p + 1}
      BY <1>1, <2>2, <3>1, <3>2, NextIs
    <3> QED BY <2>1, <3>1, <3>3 DEF ReachedInsns
  <2> QED BY <2>3, <2>4
<1>6. TakenReached \subseteq ReachedInsns
  BY <1>1, <1>3, <1>4, <1>5, TakenReachedIs
<1> QED BY <1>2, <1>6

\* The blocks reached hold exactly the instructions that direct control flow
\* reaches from the entry, a jump through a register going on behind it, for every program of functions whose jumps leave a
\* function for the start of one only, in whatever order blocks are taken.
THEOREM ReachedTheorem == FlowSpec => []ReachedExactly
BY FlowInitially, FlowKept, FlowSuffices, PTL DEF FlowSpec

-----------------------------------------------------------------------------
\* The search for strongly connected components.

Stable(T) == \A u \in T : graph[u] \subseteq T

\* y is in every stable set that x is in: there is a way from x to y.
To(x, y) == \A T \in SUBSET DOMAIN graph : x \in T /\ Stable(T) => y \in T
Component(x) == {y \in DOMAIN graph : To(x, y) /\ To(y, x)}

GraphIsClosed == \A x \in DOMAIN graph : graph[x] \subseteq DOMAIN graph

At(i) == path[i].node
OnPath == {At(i) : i \in DOMAIN path}

\* The edge to z is one that visit(x) has dealt with.
Dealt(x, z) == z \in graph[x] /\ \A i \in DOMAIN path : At(i) = x => z \notin path[i].rest

\* The stack and the chain of calls are in the order of discovery.
NumbersInv ==
  /\ DOMAIN index \subseteq DOMAIN graph /\ IsFiniteSet(DOMAIN index)
  /\ index = [x \in DOMAIN index |-> index[x]] /\ low = [x \in DOMAIN index |-> low[x]]
  /\ \A x \in DOMAIN index : index[x] \in Nat /\ index[x] < Cardinality(DOMAIN index)
  /\ \A x \in DOMAIN index : low[x] \in Nat

StackInv ==
  /\ stack \in Seq(DOMAIN index)
  /\ \A i, j \in DOMAIN stack : i < j => index[stack[i]] < index[stack[j]]

PathInv ==
  /\ path \in Seq([node : Active, rest : SUBSET DOMAIN graph])
  /\ \A i, j \in DOMAIN path : i < j => index[At(i)] < index[At(j)]
  /\ \A i \in DOMAIN path : path[i].rest \subseteq graph[At(i)]

\* What has been visited is on the stack or in a component of the answer, from
\* which no edge leads out; a call deals with an edge by visiting its end.
PlacesInv ==
  /\ DOMAIN index = Active \cup UNION answer
  /\ Active \cap UNION answer = {}
  /\ Stable(UNION answer)
  /\ \A c \in answer : \E x \in c : c = Component(x)
  /\ \A x \in DOMAIN index : \A z \in graph[x] : Dealt(x, z) => z \in DOMAIN index

\* There is a way up the stack from every member, and one down to an open call.
WaysInv ==
  /\ \A x, y \in Active : index[x] <= index[y] => To(x, y)
  /\ \A x \in Active : \E g \in OnPath : index[g] <= index[x] /\ To(x, g)
  /\ \A i \in 1 .. Len(path) - 1 : At(i + 1) \in graph[At(i)]

\* visit(At(i)) is the innermost open call under which x was found.
Owns(i, x) ==
  /\ index[At(i)] <= index[x]
  /\ i < Len(path) => index[x] < index[At(i + 1)]

\* The low-link of an open call is the number of some member of the stack that
\* it has a way to, and no edge dealt with under it leads to a lower one.
LowInv ==
  /\ \A g \in OnPath : \E u \in Active : low[g] = index[u] /\ To(g, u) /\ low[g] <= index[g]
  /\ \A i \in DOMAIN path : \A x, z \in Active :
       Owns(i, x) /\ Dealt(x, z) => low[At(i)] <= index[z]

SearchInv ==
  GraphIsClosed /\ NumbersInv /\ StackInv /\ PathInv /\ PlacesInv /\ WaysInv /\ LowInv

LEMMA ToSelf == \A x : To(x, x)
BY DEF To

LEMMA ToTrans == \A x, y, z : To(x, y) /\ To(y, z) => To(x, z)
BY DEF To

LEMMA ToNext == \A x : \A y \in graph[x] : To(x, y)
BY DEF To, Stable

LEMMA ToStable ==
  ASSUME NEW T \in SUBSET DOMAIN graph, Stable(T), NEW x \in T, NEW y, To(x, y)
  PROVE  y \in T
BY DEF To

LEMMA SameWays ==
  ASSUME graph' = graph
  PROVE  /\ \A x, y : To(x, y)' <=> To(x, y)
         /\ \A x : Component(x)' = Component(x)
         /\ \A T : Stable(T)' <=> Stable(T)
<1>1. \A T : Stable(T)' <=> Stable(T)
  BY DEF Stable
<1>2. \A x, y : To(x, y)' <=> To(x, y)
  BY <1>1 DEF To
<1>3. ASSUME NEW x PROVE Component(x)' = Component(x)
  <2>1. Component(x)' = {y \in DOMAIN graph : To(x, y)' /\ To(y, x)'}
    BY DEF Component
  <2>2. Component(x) = {y \in DOMAIN graph : To(x, y) /\ To(y, x)}
    BY DEF Component
  <2> QED BY <1>2, <2>1, <2>2, Zenon
<1> QED BY <1>1, <1>2, <1>3

\* The innermost open call, and the others.
LEMMA PathIs ==
  ASSUME NumbersInv, StackInv, PathInv
  PROVE  /\ Len(path) \in Nat /\ DOMAIN path = 1 .. Len(path)
         /\ OnPath \subseteq Active /\ Active \subseteq DOMAIN index /\ DOMAIN index \subseteq DOMAIN graph
         /\ \A x \in DOMAIN index : index[x] \in Nat
         /\ \A i \in DOMAIN path : At(i) \in OnPath
         /\ path # <<>> =>
              /\ Len(path) \in DOMAIN path /\ Node = At(Len(path)) /\ Node \in OnPath
              /\ Last(path) = path[Len(path)]
              /\ \A g \in OnPath : index[g] <= index[Node]
              /\ \A i \in DOMAIN path : i # Len(path) => index[At(i)] < index[Node]
<1>1. Len(path) \in Nat /\ DOMAIN path = 1 .. Len(path)
  BY DEF PathInv
<1>2. \A i \in DOMAIN path : At(i) \in OnPath /\ At(i) \in Active
  <2> DEFINE R == [node : Active, rest : SUBSET DOMAIN graph]
  <2>1. path \in Seq(R)
    BY DEF PathInv
  <2>2. \A r \in R : r.node \in Active
    OBVIOUS
  <2> HIDE DEF R
  <2>3. \A i \in DOMAIN path : path[i] \in R
    BY <1>1, <2>1, ElementOfSeq
  <2> QED BY <2>2, <2>3 DEF OnPath, At
<1>3. Active \subseteq DOMAIN index
  BY DEF StackInv, Active, Range
<1>4. ASSUME path # <<>>
      PROVE  /\ Len(path) \in DOMAIN path /\ Node = At(Len(path)) /\ Node \in OnPath
             /\ Last(path) = path[Len(path)]
             /\ \A g \in OnPath : index[g] <= index[Node]
             /\ \A i \in DOMAIN path : i # Len(path) => index[At(i)] < index[Node]
  <2>1. Len(path) \in DOMAIN path
    BY <1>1, <1>4 DEF PathInv
  <2>2. Last(path) = path[Len(path)] /\ Node = At(Len(path))
    BY DEF Node, Last, At
  <2>3. \A i \in DOMAIN path : i # Len(path) => index[At(i)] < index[Node]
    <3>1. \A i \in DOMAIN path : i # Len(path) => i < Len(path)
      BY <1>1
    <3> QED BY <2>1, <2>2, <3>1 DEF PathInv
  <2>4. \A i \in DOMAIN path : index[At(i)] \in Nat
    BY <1>2, <1>3 DEF NumbersInv
  <2>5. \A i \in DOMAIN path : index[At(i)] <= index[Node]
    <3> SUFFICES ASSUME NEW i \in DOMAIN path PROVE index[At(i)] <= index[Node]
      OBVIOUS
    <3>1. index[At(i)] \in Nat /\ index[Node] \in Nat
      BY <2>1, <2>2, <2>4
    <3> QED BY <2>2, <2>3, <3>1
  <2> QED BY <1>2, <2>1, <2>2, <2>3, <2>5 DEF OnPath
<1> QED BY <1>1, <1>2, <1>3, <1>4 DEF NumbersInv, OnPath

\* What the call for m leaves of the others' neighbours.
LEMMA FramesAre ==
  ASSUME PathInv, path # <<>>, NEW m
  PROVE  /\ Frames(m) \in Seq([node : Active, rest : SUBSET DOMAIN graph])
         /\ Len(Frames(m)) = Len(path) /\ DOMAIN Frames(m) = DOMAIN path
         /\ \A i \in DOMAIN path :
              /\ Frames(m)[i].node = At(i)
              /\ Frames(m)[i].rest = IF i = Len(path) THEN path[i].rest \ {m} ELSE path[i].rest
<1> DEFINE R == [node : Active, rest : SUBSET DOMAIN graph]
           k == Len(path)
           e == [path[k] EXCEPT !.rest = @ \ {m}]
<1>1. path \in Seq(R) /\ k \in 1 .. Len(path) /\ DOMAIN path = 1 .. k
  BY DEF PathInv
<1>2. \A i \in DOMAIN path : path[i] \in R
  <2> HIDE DEF R
  <2> QED BY <1>1, ElementOfSeq
<1>3. e \in R /\ e.node = path[k].node /\ e.rest = path[k].rest \ {m}
  BY <1>1, <1>2
<1>4. Frames(m) = [path EXCEPT ![k] = e]
  BY DEF Frames
<1> HIDE DEF R, e
<1>5. /\ Frames(m) \in Seq(R) /\ Len(Frames(m)) = Len(path)
      /\ \A i \in 1 .. k : Frames(m)[i] = IF i = k THEN e ELSE path[i]
  BY <1>1, <1>3, <1>4, ExceptSeq
<1>6. DOMAIN Frames(m) = 1 .. k
  BY <1>5
<1>7. ASSUME NEW i \in DOMAIN path
      PROVE  /\ Frames(m)[i].node = At(i)
             /\ Frames(m)[i].rest = IF i = Len(path) THEN path[i].rest \ {m} ELSE path[i].rest
  <2>1. Frames(m)[i] = IF i = k THEN e ELSE path[i]
    BY <1>1, <1>5
  <2> QED BY <1>3, <2>1 DEF At
<1> QED BY <1>1, <1>5, <1>6, <1>7 DEF R

\* A node that is visited comes last.
LEMMA EnterIs ==
  ASSUME NumbersInv, StackInv, graph' = graph, NEW m \in DOMAIN graph \ DOMAIN index, Enter(m)
  PROVE  /\ NumbersInv' /\ StackInv'
         /\ DOMAIN index' = DOMAIN index \cup {m} /\ Active' = Active \cup {m}
         /\ index'[m] \in Nat /\ low'[m] = index'[m]
         /\ \A x \in DOMAIN index : /\ index'[x] = index[x] /\ low'[x] = low[x]
                                    /\ index[x] < index'[m]
<1> DEFINE k == Cardinality(DOMAIN index)
<1>1. /\ IsFiniteSet(DOMAIN index) /\ k \in Nat
      /\ index = [x \in DOMAIN index |-> index[x]] /\ low = [x \in DOMAIN index |-> low[x]]
      /\ \A x \in DOMAIN index : index[x] \in Nat /\ index[x] < k /\ low[x] \in Nat
  BY FS_CardinalityType DEF NumbersInv
<1>2. DOMAIN low = DOMAIN index
  BY <1>1
<1>3. /\ index' = With(index, m, k) /\ low' = With(low, m, k) /\ stack' = Append(stack, m)
  BY DEF Enter
<1>4. /\ index' = [y \in DOMAIN index \cup {m} |-> IF y = m THEN k ELSE index[y]]
      /\ low' = [y \in DOMAIN index \cup {m} |-> IF y = m THEN k ELSE low[y]]
  BY <1>2, <1>3 DEF With
<1>5. Cardinality(DOMAIN index \cup {m}) = k + 1 /\ IsFiniteSet(DOMAIN index \cup {m})
  BY <1>1, FS_AddElement
<1> HIDE DEF k
<1>6. /\ DOMAIN index' = DOMAIN index \cup {m} /\ DOMAIN low' = DOMAIN index \cup {m}
      /\ index'[m] = k /\ low'[m] = k
      /\ \A x \in DOMAIN index : index'[x] = index[x] /\ low'[x] = low[x]
  BY <1>4
<1>7. /\ index' = [x \in DOMAIN index' |-> index'[x]]
      /\ low' = [x \in DOMAIN index' |-> low'[x]]
  BY <1>4, <1>6
<1>8. \A x \in DOMAIN index' : index'[x] \in Nat /\ index'[x] < k + 1 /\ low'[x] \in Nat
  <2> SUFFICES ASSUME NEW x \in DOMAIN index'
               PROVE  index'[x] \in Nat /\ index'[x] < k + 1 /\ low'[x] \in Nat
    OBVIOUS
  <2>1. CASE x = m
    BY <1>1, <1>6, <2>1
  <2>2. CASE x # m
    <3>1. x \in DOMAIN index /\ index'[x] = index[x] /\ low'[x] = low[x]
      BY <1>6, <2>2
    <3> QED BY <1>1, <3>1
  <2> QED BY <2>1, <2>2
<1>9. NumbersInv'
  <2>1. Cardinality(DOMAIN index') = k + 1 /\ IsFiniteSet(DOMAIN index')
    BY <1>5, <1>6
  <2>2. DOMAIN index' \subseteq DOMAIN graph'
    BY <1>6 DEF NumbersInv
  <2> QED BY <1>7, <1>8, <2>1, <2>2 DEF NumbersInv
<1>10. /\ stack' \in Seq(DOMAIN index') /\ Len(stack') = Len(stack) + 1
       /\ stack'[Len(stack) + 1] = m /\ Len(stack) \in Nat
       /\ \A i \in 1 .. Len(stack) : stack'[i] = stack[i] /\ stack[i] \in DOMAIN index
  <2>1. stack \in Seq(DOMAIN index') /\ m \in DOMAIN index'
    <3>1. stack \in Seq(DOMAIN index) /\ DOMAIN index \subseteq DOMAIN index'
      BY <1>6 DEF StackInv
    <3> QED BY <1>6, <3>1, SeqMonotonic
  <2>2. \A i \in 1 .. Len(stack) : stack[i] \in DOMAIN index
    BY ElementOfSeq DEF StackInv
  <2>3. Len(stack) \in Nat
    BY <2>1
  <2> QED BY <1>3, <2>1, <2>2, <2>3, AppendProperties
<1>11. DOMAIN stack = 1 .. Len(stack) /\ DOMAIN stack' = 1 .. (Len(stack) + 1)
  BY <1>10 DEF StackInv
<1>12. \A i, j \in DOMAIN stack' : i < j => index'[stack'[i]] < index'[stack'[j]]
  <2> SUFFICES ASSUME NEW i \in DOMAIN stack', NEW j \in DOMAIN stack', i < j
               PROVE  index'[stack'[i]] < index'[stack'[j]]
    OBVIOUS
  <2>1. i \in 1 .. Len(stack)
    BY <1>10, <1>11
  <2>2. /\ stack'[i] = stack[i] /\ stack[i] \in DOMAIN index /\ index'[stack[i]] = index[stack[i]]
        /\ index[stack[i]] < k
    BY <1>1, <1>6, <1>10, <2>1
  <2>3. CASE j = Len(stack) + 1
    BY <1>6, <1>10, <2>2, <2>3
  <2>4. CASE j # Len(stack) + 1
    <3>1. j \in 1 .. Len(stack)
      BY <1>10, <1>11, <2>4
    <3>2. stack'[j] = stack[j] /\ stack[j] \in DOMAIN index /\ index'[stack[j]] = index[stack[j]]
      BY <1>6, <1>10, <3>1
    <3>3. index[stack[i]] < index[stack[j]]
      BY <1>11, <2>1, <3>1 DEF StackInv
    <3> QED BY <2>2, <3>2, <3>3
  <2> QED BY <2>3, <2>4
<1>13. StackInv'
  BY <1>10, <1>12 DEF StackInv
<1>14. Active' = Active \cup {m}
  <2>1. Active = {stack[i] : i \in 1 .. Len(stack)}
    BY <1>11 DEF Active, Range
  <2>2. Active' = {stack'[i] : i \in 1 .. (Len(stack) + 1)}
    BY <1>11 DEF Active, Range
  <2>3. 1 .. (Len(stack) + 1) = 1 .. Len(stack) \cup {Len(stack) + 1}
    BY <1>10
  <2> QED BY <1>10, <2>1, <2>2, <2>3
<1> QED BY <1>1, <1>6, <1>9, <1>13, <1>14

\* The same for the calls: a frame for m, and one neighbour less to deal with in
\* the one that was innermost.
LEMMA EnterFrames ==
  ASSUME SearchInv, graph' = graph, NEW m \in DOMAIN graph \ DOMAIN index, Enter(m),
         NEW opened \in Seq([node : Active, rest : SUBSET DOMAIN graph]),
         Len(opened) = Len(path),
         \A i \in DOMAIN path :
           /\ opened[i].node = At(i)
           /\ opened[i].rest \in {path[i].rest, path[i].rest \ {m}}
           /\ i # Len(path) => opened[i].rest = path[i].rest,
         path' = Append(opened, Frame(m))
  PROVE  /\ PathInv' /\ Len(path') = Len(path) + 1
         /\ path'[Len(path) + 1].node = m /\ \A i \in DOMAIN path : At(i)' = At(i)
         /\ OnPath' = OnPath \cup {m}
         /\ \A z : ~Dealt(m, z)'
         /\ \A x \in DOMAIN index : \A z : Dealt(x, z)' =>
              Dealt(x, z) \/ (z = m /\ x = Node /\ path # <<>>)
<1> DEFINE n == Len(path)
           R == [node : Active', rest : SUBSET DOMAIN graph]
<1>0. NumbersInv /\ StackInv /\ PathInv /\ GraphIsClosed
  BY DEF SearchInv
<1>1. /\ n \in Nat /\ DOMAIN path = 1 .. n /\ OnPath \subseteq Active /\ Active \subseteq DOMAIN index
      /\ \A i \in DOMAIN path : At(i) \in OnPath
      /\ path # <<>> => Node = At(n)
      /\ \A x \in DOMAIN index : index[x] \in Nat
  BY <1>0, PathIs
<1>2. /\ DOMAIN index' = DOMAIN index \cup {m} /\ Active' = Active \cup {m}
      /\ \A x \in DOMAIN index : index'[x] = index[x] /\ index[x] < index'[m]
  BY <1>0, EnterIs
<1>3. Frame(m) \in R /\ Frame(m).node = m /\ Frame(m).rest = graph[m]
  BY <1>0, <1>2 DEF Frame, GraphIsClosed
<1>4. opened \in Seq(R)
  <2>1. [node : Active, rest : SUBSET DOMAIN graph] \subseteq R
    BY <1>2
  <2> HIDE DEF R
  <2> QED BY <2>1, SeqMonotonic
<1>5. /\ path' \in Seq(R) /\ Len(path') = n + 1 /\ path'[n + 1] = Frame(m)
      /\ \A i \in 1 .. n : path'[i] = opened[i]
  <2> HIDE DEF R
  <2> QED BY <1>3, <1>4, AppendProperties
<1> HIDE DEF R
<1>6. DOMAIN path' = 1 .. (n + 1)
  BY <1>1, <1>5
<1>7. /\ path'[n + 1].node = m /\ n + 1 \in 1 .. (n + 1)
      /\ \A i \in 1 .. n : At(i)' = At(i) /\ At(i) \in DOMAIN index
      /\ \A i \in 1 .. (n + 1) : At(i)' = path'[i].node
  BY <1>1, <1>3, <1>5 DEF At
<1>8. \A i \in 1 .. n : /\ path'[i].rest \in {path[i].rest, path[i].rest \ {m}}
                        /\ i # n => path'[i].rest = path[i].rest
  BY <1>1, <1>5
<1> HIDE DEF n
<1>9. PathInv'
  <2>1. ASSUME NEW i \in DOMAIN path', NEW j \in DOMAIN path', i < j
        PROVE  index'[At(i)'] < index'[At(j)']
    <3>1. i \in 1 .. n
      BY <1>1, <1>6, <2>1
    <3>2. At(i)' = At(i) /\ At(i) \in DOMAIN index /\ index'[At(i)] = index[At(i)]
          /\ index[At(i)] < index'[m]
      BY <1>2, <1>7, <3>1
    <3>3. CASE j = n + 1
      BY <1>7, <3>2, <3>3
    <3>4. CASE j # n + 1
      <4>1. j \in 1 .. n
        BY <1>1, <1>6, <3>4
      <4>2. At(j)' = At(j) /\ At(j) \in DOMAIN index /\ index'[At(j)] = index[At(j)]
        BY <1>2, <1>7, <4>1
      <4>3. index[At(i)] < index[At(j)]
        BY <1>0, <1>1, <2>1, <3>1, <4>1 DEF PathInv
      <4> QED BY <3>2, <4>2, <4>3
    <3> QED BY <3>3, <3>4
  <2>2. ASSUME NEW i \in DOMAIN path' PROVE path'[i].rest \subseteq graph'[At(i)']
    <3>1. CASE i = n + 1
      BY <1>3, <1>5, <1>7, <3>1
    <3>2. CASE i # n + 1
      <4>1. i \in 1 .. n
        BY <1>1, <1>6, <3>2
      <4>2. path[i].rest \subseteq graph[At(i)]
        BY <1>0, <1>1, <4>1 DEF PathInv
      <4> QED BY <1>7, <1>8, <4>1, <4>2
    <3> QED BY <3>1, <3>2
  <2>3. (path \in Seq([node : Active, rest : SUBSET DOMAIN graph]))'
    BY <1>5 DEF R
  <2>4. (\A i, j \in DOMAIN path : i < j => index[At(i)] < index[At(j)])'
    BY <2>1
  <2>5. (\A i \in DOMAIN path : path[i].rest \subseteq graph[At(i)])'
    BY <2>2
  <2> QED BY <2>3, <2>4, <2>5 DEF PathInv
<1>10. OnPath' = OnPath \cup {m}
  <2>1. OnPath' = {path'[i].node : i \in 1 .. (n + 1)}
    BY <1>6 DEF OnPath, At
  <2>2. OnPath = {At(i) : i \in 1 .. n}
    BY <1>1 DEF OnPath
  <2>3. ASSUME NEW g \in OnPath' PROVE g \in OnPath \cup {m}
    <3>1. PICK i \in 1 .. (n + 1) : g = path'[i].node
      BY <2>1
    <3>2. CASE i = n + 1
      BY <1>7, <3>1, <3>2
    <3>3. CASE i # n + 1
      <4>1. i \in 1 .. n
        BY <1>1, <3>3
      <4>2. g = At(i)
        BY <1>7, <3>1, <4>1
      <4> QED BY <2>2, <4>1, <4>2
    <3> QED BY <3>2, <3>3
  <2>4. ASSUME NEW g \in OnPath PROVE g \in OnPath'
    <3>1. PICK i \in 1 .. n : g = At(i)
      BY <2>2
    <3>2. i \in 1 .. (n + 1)
      BY <1>1
    <3>3. g = path'[i].node
      BY <1>7, <3>1, <3>2
    <3> QED BY <2>1, <3>2, <3>3
  <2>5. m \in OnPath'
    BY <1>7, <2>1
  <2> QED BY <2>3, <2>4, <2>5
<1>11. ASSUME NEW z, Dealt(m, z)' PROVE FALSE
  <2>1. z \in graph[m] /\ \A i \in 1 .. (n + 1) : At(i)' = m => z \notin path'[i].rest
    BY <1>6, <1>11 DEF Dealt
  <2>2. n + 1 \in 1 .. (n + 1)
    BY <1>1
  <2> QED BY <1>3, <1>5, <1>7, <2>1, <2>2
<1>12. ASSUME NEW x \in DOMAIN index, NEW z, Dealt(x, z)', ~Dealt(x, z)
       PROVE  z = m /\ x = Node /\ path # <<>>
  <2>1. z \in graph[x] /\ \A i \in 1 .. (n + 1) : At(i)' = x => z \notin path'[i].rest
    BY <1>6, <1>12 DEF Dealt
  <2>2. PICK i \in 1 .. n : At(i) = x /\ z \in path[i].rest
    BY <1>1, <1>12, <2>1 DEF Dealt
  <2>3. i \in 1 .. (n + 1)
    BY <1>1
  <2>4. z \notin path'[i].rest
    BY <1>7, <2>1, <2>2, <2>3
  <2>5. z = m /\ i = n
    BY <1>8, <2>2, <2>4
  <2>6. path # <<>>
    BY <1>1, <2>2
  <2> QED BY <1>1, <2>2, <2>5, <2>6
<1>13. Len(path') = n + 1 /\ \A i \in DOMAIN path : At(i)' = At(i)
  BY <1>1, <1>5, <1>7
<1> QED BY <1>7, <1>9, <1>10, <1>11, <1>12, <1>13 DEF n

LEMMA EnterKept ==
  ASSUME SearchInv, graph' = graph, answer' = answer,
         NEW m \in DOMAIN graph \ DOMAIN index, Enter(m),
         path # <<>> => m \in graph[Node],
         PathInv', Len(path') = Len(path) + 1,
         path'[Len(path) + 1].node = m, \A i \in DOMAIN path : At(i)' = At(i),
         OnPath' = OnPath \cup {m},
         \A z : ~Dealt(m, z)',
         \A x \in DOMAIN index : \A z : Dealt(x, z)' =>
           Dealt(x, z) \/ (z = m /\ x = Node /\ path # <<>>)
  PROVE  SearchInv'
<1> DEFINE n == Len(path)
<1>0. GraphIsClosed /\ NumbersInv /\ StackInv /\ PathInv /\ PlacesInv /\ WaysInv /\ LowInv
  BY DEF SearchInv
<1>1. /\ n \in Nat /\ DOMAIN path = 1 .. n
      /\ OnPath \subseteq Active /\ Active \subseteq DOMAIN index
      /\ \A x \in DOMAIN index : index[x] \in Nat
      /\ \A i \in DOMAIN path : At(i) \in OnPath
      /\ path # <<>> => /\ n \in DOMAIN path /\ Node = At(n) /\ Node \in OnPath
                       /\ \A g \in OnPath : index[g] <= index[Node]
  BY <1>0, PathIs
<1>2. /\ NumbersInv' /\ StackInv'
      /\ DOMAIN index' = DOMAIN index \cup {m} /\ Active' = Active \cup {m}
      /\ index'[m] \in Nat /\ low'[m] = index'[m]
      /\ \A x \in DOMAIN index : /\ index'[x] = index[x] /\ low'[x] = low[x]
                                 /\ index[x] < index'[m]
  BY <1>0, EnterIs
<1>3. /\ \A x, y : To(x, y)' <=> To(x, y)
      /\ \A x : Component(x)' = Component(x)
      /\ \A T : Stable(T)' <=> Stable(T)
  BY SameWays
<1>4. GraphIsClosed'
  BY <1>0 DEF GraphIsClosed
<1>5. PlacesInv'
  <2>1. ASSUME NEW x \in DOMAIN index', NEW z \in graph[x], Dealt(x, z)' PROVE z \in DOMAIN index'
    <3>1. x \in DOMAIN index
      BY <1>2, <2>1
    <3>2. Dealt(x, z) \/ z = m
      BY <2>1, <3>1
    <3> QED BY <1>0, <1>2, <3>1, <3>2 DEF PlacesInv
  <2>2. DOMAIN index' = Active' \cup UNION answer' /\ Active' \cap UNION answer' = {}
    BY <1>0, <1>2 DEF PlacesInv
  <2>3. Stable(UNION answer)' /\ \A c \in answer' : \E x \in c : c = Component(x)'
    <3>1. Stable(UNION answer) /\ \A c \in answer : \E x \in c : c = Component(x)
      BY <1>0 DEF PlacesInv
    <3>2. Stable(UNION answer)' <=> Stable(UNION answer)
      BY DEF Stable
    <3> QED BY <1>3, <3>1, <3>2
  <2> QED BY <2>1, <2>2, <2>3 DEF PlacesInv
<1>6. \A x \in Active : To(x, m)
  <2> SUFFICES ASSUME NEW x \in Active PROVE To(x, m)
    OBVIOUS
  <2>1. PICK g \in OnPath : index[g] <= index[x] /\ To(x, g)
    BY <1>0 DEF WaysInv
  <2>2. path # <<>>
    BY <1>1, <2>1 DEF OnPath
  <2>3. To(g, Node)
    BY <1>0, <1>1, <2>2 DEF WaysInv
  <2>4. To(Node, m)
    BY <2>2, ToNext
  <2> QED BY <2>1, <2>3, <2>4, ToTrans
<1>7. WaysInv'
  <2>1. ASSUME NEW x \in Active', NEW y \in Active', index'[x] <= index'[y] PROVE To(x, y)
    <3>1. CASE y = m
      BY <1>2, <1>6, <3>1, ToSelf
    <3>2. CASE y # m /\ x # m
      <4>1. x \in Active /\ y \in Active /\ index[x] <= index[y]
        BY <1>1, <1>2, <2>1, <3>2
      <4> QED BY <1>0, <4>1 DEF WaysInv
    <3>3. CASE y # m /\ x = m
      <4>1. y \in DOMAIN index
        BY <1>1, <1>2, <3>3
      <4>2. index'[y] \in Nat /\ index'[y] < index'[m]
        BY <1>1, <1>2, <4>1
      <4> QED BY <1>2, <2>1, <3>3, <4>2
    <3> QED BY <3>1, <3>2, <3>3
  <2>2. ASSUME NEW x \in Active'
        PROVE  \E g \in OnPath' : index'[g] <= index'[x] /\ To(x, g)
    <3>1. CASE x = m
      <4>1. index'[m] <= index'[m]
        BY <1>2
      <4> QED BY <3>1, <4>1, ToSelf
    <3>2. CASE x # m
      <4>1. x \in Active
        BY <1>2, <3>2
      <4>2. PICK g \in OnPath : index[g] <= index[x] /\ To(x, g)
        BY <1>0, <4>1 DEF WaysInv
      <4>3. index'[g] = index[g] /\ index'[x] = index[x]
        BY <1>1, <1>2, <4>1
      <4> QED BY <4>2, <4>3
    <3> QED BY <3>1, <3>2
  <2>3. \A i \in 1 .. n : path'[i + 1].node \in graph[path'[i].node]
    <3> SUFFICES ASSUME NEW i \in 1 .. n PROVE path'[i + 1].node \in graph[path'[i].node]
      OBVIOUS
    <3>1. path'[i].node = At(i)
      BY <1>1 DEF At
    <3>2. CASE i = n
      <4>1. path # <<>>
        BY <1>1
      <4> QED BY <1>1, <3>1, <3>2, <4>1
    <3>3. CASE i # n
      <4>0. n \in Nat
        BY <1>1
      <4>1. i \in 1 .. n - 1 /\ i + 1 \in 1 .. n
        <5> HIDE DEF n
        <5> QED BY <3>3, <4>0
      <4>2. path'[i + 1].node = At(i + 1)
        BY <1>1, <4>1 DEF At
      <4> QED BY <1>0, <3>1, <4>1, <4>2 DEF WaysInv
    <3> QED BY <3>2, <3>3
  <2>4. (\A x, y \in Active : index[x] <= index[y] => To(x, y))'
    BY <1>3, <2>1
  <2>5. (\A x \in Active : \E g \in OnPath : index[g] <= index[x] /\ To(x, g))'
    BY <1>3, <2>2
  <2>6. (\A i \in 1 .. Len(path) - 1 : At(i + 1) \in graph[At(i)])'
    <3>1. Len(path') - 1 = n
      BY <1>1
    <3> QED BY <2>3, <3>1 DEF At
  <2> QED BY <2>4, <2>5, <2>6 DEF WaysInv
<1>8. \A g \in OnPath' : \E u \in Active' : low'[g] = index'[u] /\ To(g, u) /\ low'[g] <= index'[g]
  <2> SUFFICES ASSUME NEW g \in OnPath'
               PROVE  \E u \in Active' : low'[g] = index'[u] /\ To(g, u) /\ low'[g] <= index'[g]
    OBVIOUS
  <2>1. CASE g = m
    <3>1. low'[m] <= index'[m] /\ m \in Active'
      BY <1>2
    <3> QED BY <1>2, <2>1, <3>1, ToSelf
  <2>2. CASE g # m
    <3>1. g \in OnPath /\ g \in DOMAIN index
      BY <1>1, <2>2
    <3>2. PICK u \in Active : low[g] = index[u] /\ To(g, u) /\ low[g] <= index[g]
      BY <1>0, <3>1 DEF LowInv
    <3>3. index'[u] = index[u] /\ index'[g] = index[g] /\ low'[g] = low[g] /\ u \in Active'
      BY <1>1, <1>2, <3>1
    <3> QED BY <3>2, <3>3
  <2> QED BY <2>1, <2>2
<1>9. ASSUME NEW i \in DOMAIN path', NEW x \in Active', NEW z \in Active', Owns(i, x)', Dealt(x, z)'
      PROVE  low'[path'[i].node] <= index'[z]
  <2>1. DOMAIN path' = 1 .. (n + 1)
    BY <1>1 DEF PathInv
  <2>2. x # m /\ x \in Active /\ x \in DOMAIN index
    BY <1>1, <1>2, <1>9
  <2>3. index'[path'[i].node] <= index'[x] /\ (i < n + 1 => index'[x] < index'[path'[i + 1].node])
    BY <1>9 DEF Owns, At
  <2>4. i \in 1 .. n
    <3>1. index'[x] \in Nat /\ index'[x] < index'[m]
      BY <1>1, <1>2, <2>2
    <3>2. i # n + 1
      BY <1>2, <2>3, <3>1
    <3> QED BY <1>1, <2>1, <3>2
  <2>5. path'[i].node = At(i) /\ At(i) \in OnPath /\ At(i) \in DOMAIN index
    BY <1>1, <2>4 DEF At
  <2>6. /\ index'[At(i)] = index[At(i)] /\ low'[At(i)] = low[At(i)] /\ index'[x] = index[x]
        /\ low[At(i)] \in Nat /\ index[At(i)] \in Nat
    BY <1>0, <1>2, <2>2, <2>5 DEF NumbersInv
  <2>7. Owns(i, x)
    <3>1. ASSUME i < n PROVE index[x] < index[At(i + 1)]
      <4>1. i + 1 \in 1 .. n /\ i < n + 1
        BY <1>1, <2>4, <3>1
      <4>2. path'[i + 1].node = At(i + 1) /\ At(i + 1) \in DOMAIN index
        BY <1>1, <4>1 DEF At
      <4> QED BY <1>2, <2>3, <2>6, <4>1, <4>2
    <3> QED BY <2>3, <2>5, <2>6, <3>1 DEF Owns
  <2>8. CASE z = m
    <3>1. low[At(i)] <= index[At(i)]
      BY <1>0, <2>5 DEF LowInv
    <3>2. index[At(i)] < index'[m] /\ index'[m] \in Nat
      BY <1>2, <2>5
    <3> QED BY <2>5, <2>6, <2>8, <3>1, <3>2
  <2>9. CASE z # m
    <3>1. z \in Active /\ z \in DOMAIN index /\ Dealt(x, z)
      BY <1>1, <1>2, <1>9, <2>2, <2>9
    <3>2. low[At(i)] <= index[z]
      BY <1>0, <1>1, <2>2, <2>4, <2>7, <3>1 DEF LowInv
    <3> QED BY <1>2, <2>5, <2>6, <3>1, <3>2
  <2> QED BY <2>8, <2>9
<1>10. LowInv'
  <2>1. (\A g \in OnPath : \E u \in Active : low[g] = index[u] /\ To(g, u) /\ low[g] <= index[g])'
    BY <1>3, <1>8
  <2>2. (\A i \in DOMAIN path : \A x, z \in Active :
          Owns(i, x) /\ Dealt(x, z) => low[At(i)] <= index[z])'
    BY <1>9 DEF At
  <2> QED BY <2>1, <2>2 DEF LowInv
<1> QED BY <1>2, <1>4, <1>5, <1>7, <1>10 DEF SearchInv
LEMMA VisitRootKept == ASSUME SearchInv, NEW m, VisitRoot(m) PROVE SearchInv'
<1>1. /\ path = <<>> /\ m \in DOMAIN graph \ DOMAIN index /\ Enter(m) /\ path' = <<Frame(m)>>
      /\ graph' = graph /\ answer' = answer
  BY DEF VisitRoot
<1>2. path' = Append(path, Frame(m)) /\ path \in Seq([node : Active, rest : SUBSET DOMAIN graph])
  BY <1>1
<1>3. DOMAIN path = {}
  BY <1>1
<1>4. /\ PathInv' /\ Len(path') = Len(path) + 1
      /\ path'[Len(path) + 1].node = m /\ \A i \in DOMAIN path : At(i)' = At(i)
      /\ OnPath' = OnPath \cup {m}
      /\ \A z : ~Dealt(m, z)'
      /\ \A x \in DOMAIN index : \A z : Dealt(x, z)' =>
           Dealt(x, z) \/ (z = m /\ x = Node /\ path # <<>>)
  BY <1>1, <1>2, <1>3, EnterFrames
<1> QED BY <1>1, <1>4, EnterKept

LEMMA VisitNextKept == ASSUME SearchInv, NEW m, VisitNext(m) PROVE SearchInv'
<1> DEFINE opened == Frames(m)
<1>1. /\ path # <<>> /\ m \in Last(path).rest /\ m \notin DOMAIN index /\ Enter(m)
      /\ path' = Append(opened, Frame(m)) /\ graph' = graph /\ answer' = answer
  BY DEF VisitNext
<1>2. NumbersInv /\ StackInv /\ PathInv /\ GraphIsClosed
  BY DEF SearchInv
<1>3. /\ Len(path) \in DOMAIN path /\ Last(path) = path[Len(path)] /\ Node = At(Len(path))
      /\ Node \in DOMAIN graph
  BY <1>1, <1>2, PathIs
<1>4. m \in graph[Node] /\ m \in DOMAIN graph \ DOMAIN index
  <2>1. m \in graph[Node]
    BY <1>1, <1>2, <1>3 DEF PathInv
  <2> QED BY <1>1, <1>2, <1>3, <2>1 DEF GraphIsClosed
<1>5. /\ opened \in Seq([node : Active, rest : SUBSET DOMAIN graph])
      /\ Len(opened) = Len(path)
      /\ \A i \in DOMAIN path :
           /\ opened[i].node = At(i)
           /\ opened[i].rest = IF i = Len(path) THEN path[i].rest \ {m} ELSE path[i].rest
  BY <1>1, <1>2, FramesAre
<1> HIDE DEF opened
<1>6. \A i \in DOMAIN path :
        /\ opened[i].node = At(i)
        /\ opened[i].rest \in {path[i].rest, path[i].rest \ {m}}
        /\ i # Len(path) => opened[i].rest = path[i].rest
  BY <1>5
<1>7. /\ PathInv' /\ Len(path') = Len(path) + 1
      /\ path'[Len(path) + 1].node = m /\ \A i \in DOMAIN path : At(i)' = At(i)
      /\ OnPath' = OnPath \cup {m}
      /\ \A z : ~Dealt(m, z)'
      /\ \A x \in DOMAIN index : \A z : Dealt(x, z)' =>
           Dealt(x, z) \/ (z = m /\ x = Node /\ path # <<>>)
  BY <1>1, <1>4, <1>5, <1>6, EnterFrames
<1> QED BY <1>1, <1>4, <1>7, EnterKept

\* A neighbour that was visited before lowers the link if it is on the stack.
LEMMA SeenBeforeKept == ASSUME SearchInv, NEW m, SeenBefore(m) PROVE SearchInv'
<1> DEFINE n == Len(path)
<1>0. GraphIsClosed /\ NumbersInv /\ StackInv /\ PathInv /\ PlacesInv /\ WaysInv /\ LowInv
  BY DEF SearchInv
<1>1. /\ path # <<>> /\ m \in Last(path).rest /\ m \in DOMAIN index
      /\ low' = IF m \in Active THEN [low EXCEPT ![Node] = Lower(@, index[m])] ELSE low
      /\ path' = Frames(m)
      /\ graph' = graph /\ index' = index /\ stack' = stack /\ answer' = answer
  BY DEF SeenBefore
<1>2. /\ n \in Nat /\ DOMAIN path = 1 .. n
      /\ OnPath \subseteq Active /\ Active \subseteq DOMAIN index
      /\ \A x \in DOMAIN index : index[x] \in Nat
      /\ \A i \in DOMAIN path : At(i) \in OnPath
      /\ n \in DOMAIN path /\ Node = At(n) /\ Node \in OnPath /\ Last(path) = path[n]
      /\ \A g \in OnPath : index[g] <= index[Node]
  BY <1>0, <1>1, PathIs
<1>3. /\ path' \in Seq([node : Active, rest : SUBSET DOMAIN graph])
      /\ Len(path') = n /\ DOMAIN path' = DOMAIN path
      /\ \A i \in DOMAIN path :
           /\ path'[i].node = At(i)
           /\ path'[i].rest = IF i = n THEN path[i].rest \ {m} ELSE path[i].rest
  BY <1>0, <1>1, FramesAre
<1>4. /\ \A x, y : To(x, y)' <=> To(x, y)
      /\ \A x : Component(x)' = Component(x)
      /\ \A T : Stable(T)' <=> Stable(T)
  BY <1>1, SameWays
<1>5. Active' = Active /\ GraphIsClosed' /\ StackInv'
  BY <1>0, <1>1 DEF Active, GraphIsClosed, StackInv
<1>6. \A i \in DOMAIN path : At(i)' = At(i)
  BY <1>3 DEF At
<1>7. OnPath' = OnPath
  BY <1>3, <1>6 DEF OnPath
<1>8. PathInv'
  <2>1. \A i \in DOMAIN path : path'[i].rest \subseteq graph[At(i)]
    BY <1>0, <1>3 DEF PathInv
  <2>2. (path \in Seq([node : Active, rest : SUBSET DOMAIN graph]))'
    BY <1>1, <1>3, <1>5
  <2>3. (\A i, j \in DOMAIN path : i < j => index[At(i)] < index[At(j)])'
    BY <1>0, <1>1, <1>3, <1>6 DEF PathInv
  <2>4. (\A i \in DOMAIN path : path[i].rest \subseteq graph[At(i)])'
    BY <1>1, <1>3, <1>6, <2>1
  <2> QED BY <2>2, <2>3, <2>4 DEF PathInv
<1>9. m \in graph[Node]
  BY <1>0, <1>1, <1>2 DEF PathInv
<1>10. ASSUME NEW x, NEW z, Dealt(x, z)', ~Dealt(x, z) PROVE z = m /\ x = Node
  <2>1. z \in graph[x] /\ \A i \in DOMAIN path : At(i) = x => z \notin path'[i].rest
    BY <1>1, <1>3, <1>6, <1>10 DEF Dealt
  <2>2. PICK i \in DOMAIN path : At(i) = x /\ z \in path[i].rest
    BY <1>10, <2>1 DEF Dealt
  <2>3. z = m /\ i = n
    BY <1>3, <2>1, <2>2
  <2> QED BY <1>2, <2>2, <2>3
<1>11. /\ DOMAIN low = DOMAIN index /\ DOMAIN low' = DOMAIN index
       /\ low' = [x \in DOMAIN index |-> low'[x]]
       /\ \A x \in DOMAIN index : x # Node => low'[x] = low[x]
       /\ Node \in DOMAIN index /\ low[Node] \in Nat /\ index[m] \in Nat
       /\ low'[Node] = IF m \in Active /\ ~(low[Node] < index[m]) THEN index[m] ELSE low[Node]
  BY <1>0, <1>1, <1>2 DEF NumbersInv, Lower
<1>12. \A x \in DOMAIN index : low[x] \in Nat /\ low'[x] \in Nat /\ low'[x] <= low[x]
  BY <1>0, <1>11 DEF NumbersInv
<1>13. NumbersInv'
  BY <1>0, <1>1, <1>11, <1>12 DEF NumbersInv
<1>14. PlacesInv'
  <2>1. ASSUME NEW x \in DOMAIN index, NEW z \in graph[x], Dealt(x, z)' PROVE z \in DOMAIN index
    BY <1>0, <1>1, <1>10, <2>1 DEF PlacesInv
  <2>2. Stable(UNION answer)' <=> Stable(UNION answer)
    BY <1>1 DEF Stable
  <2>3. (\A x \in DOMAIN index : \A z \in graph[x] : Dealt(x, z) => z \in DOMAIN index)'
    BY <1>1, <2>1
  <2>4. (\A c \in answer : \E x \in c : c = Component(x))'
    BY <1>0, <1>1, <1>4 DEF PlacesInv
  <2> QED BY <1>0, <1>1, <1>5, <2>2, <2>3, <2>4 DEF PlacesInv
<1>15. WaysInv'
  <2>1. (\A x, y \in Active : index[x] <= index[y] => To(x, y))'
    BY <1>0, <1>1, <1>4, <1>5 DEF WaysInv
  <2>2. (\A x \in Active : \E g \in OnPath : index[g] <= index[x] /\ To(x, g))'
    BY <1>0, <1>1, <1>4, <1>5, <1>7 DEF WaysInv
  <2>3. \A i \in 1 .. n - 1 : i \in DOMAIN path /\ i + 1 \in DOMAIN path
    <3>1. n \in Nat
      BY <1>2
    <3>2. \A i \in 1 .. n - 1 : i \in 1 .. n /\ i + 1 \in 1 .. n
      <4> HIDE DEF n
      <4> QED BY <3>1
    <3> QED BY <1>2, <3>2
  <2>4. (\A i \in 1 .. Len(path) - 1 : At(i + 1) \in graph[At(i)])'
    BY <1>0, <1>1, <1>3, <2>3 DEF WaysInv, At
  <2> QED BY <2>1, <2>2, <2>4 DEF WaysInv
<1>16. ASSUME NEW g \in OnPath
       PROVE  \E u \in Active : low'[g] = index[u] /\ To(g, u) /\ low'[g] <= index[g]
  <2>1. PICK u \in Active : low[g] = index[u] /\ To(g, u) /\ low[g] <= index[g]
    BY <1>0 DEF LowInv
  <2>2. CASE low'[g] = low[g]
    BY <2>1, <2>2
  <2>3. CASE low'[g] # low[g]
    <3>1. g = Node /\ m \in Active /\ low'[g] = index[m]
      BY <1>2, <1>11, <2>3
    <3>2. To(g, m)
      BY <1>9, <3>1, ToNext
    <3>3. low'[g] <= index[g]
      <4>1. g \in DOMAIN index
        BY <1>2
      <4>2. low'[g] <= low[g] /\ low'[g] \in Nat /\ low[g] \in Nat /\ index[g] \in Nat
        BY <1>2, <1>12, <4>1
      <4> QED BY <2>1, <4>2
    <3> QED BY <3>1, <3>2, <3>3
  <2> QED BY <2>2, <2>3
<1>17. ASSUME NEW i \in DOMAIN path, NEW x \in Active, NEW z \in Active, Owns(i, x)', Dealt(x, z)'
       PROVE  low'[At(i)] <= index[z]
  <2>1. Owns(i, x)
    <3>1. index[At(i)] <= index[x] /\ (i < n => index[x] < index[path'[i + 1].node])
      BY <1>1, <1>3, <1>6, <1>17 DEF Owns, At
    <3>2. ASSUME i < n PROVE path'[i + 1].node = At(i + 1)
      <4>1. i + 1 \in DOMAIN path
        <5>1. n \in Nat /\ i \in 1 .. n
          BY <1>2
        <5>2. i + 1 \in 1 .. n
          <6> HIDE DEF n
          <6> QED BY <3>2, <5>1
        <5> QED BY <1>2, <5>2
      <4> QED BY <1>3, <4>1
    <3> QED BY <3>1, <3>2 DEF Owns
  <2>2. At(i) \in DOMAIN index /\ z \in DOMAIN index
    BY <1>2
  <2>3. low'[At(i)] <= low[At(i)] /\ low'[At(i)] \in Nat /\ low[At(i)] \in Nat /\ index[z] \in Nat
    BY <1>2, <1>12, <2>2
  <2>4. CASE Dealt(x, z)
    <3>1. low[At(i)] <= index[z]
      BY <1>0, <2>1, <2>4 DEF LowInv
    <3> QED BY <2>3, <3>1
  <2>5. CASE ~Dealt(x, z)
    <3>1. z = m /\ x = Node
      BY <1>10, <1>17, <2>5
    <3>2. i = n
      <4> SUFFICES ASSUME i # n PROVE FALSE
        OBVIOUS
      <4>1. n \in Nat /\ i \in 1 .. n
        BY <1>2
      <4>2. i < n /\ i + 1 \in 1 .. n
        <5> HIDE DEF n
        <5> QED BY <4>1
      <4>3. index[Node] < index[At(i + 1)] /\ At(i + 1) \in OnPath
        BY <1>2, <2>1, <3>1, <4>2 DEF Owns
      <4>4. index[At(i + 1)] <= index[Node] /\ index[At(i + 1)] \in Nat /\ index[Node] \in Nat
        BY <1>2, <4>3
      <4> QED BY <4>3, <4>4
    <3>3. low'[Node] <= index[m]
      BY <1>11, <3>1
    <3> QED BY <1>2, <3>1, <3>2, <3>3
  <2> QED BY <2>4, <2>5
<1>18. LowInv'
  <2>1. (\A g \in OnPath : \E u \in Active : low[g] = index[u] /\ To(g, u) /\ low[g] <= index[g])'
    BY <1>1, <1>4, <1>5, <1>7, <1>16
  <2>2. (\A i \in DOMAIN path : \A x, z \in Active :
          Owns(i, x) /\ Dealt(x, z) => low[At(i)] <= index[z])'
    BY <1>1, <1>3, <1>5, <1>6, <1>17
  <2> QED BY <2>1, <2>2 DEF LowInv
<1> QED BY <1>5, <1>8, <1>13, <1>14, <1>15, <1>18 DEF SearchInv
\* The members of the stack that visit(Node) has put there are what it can reach
\* of the stack.
Above == {x \in Active : index[Node] <= index[x]}

\* The call that returns is gone, and with it no edge.
LEMMA ReturnFrames ==
  ASSUME SearchInv, VisitReturns
  PROVE  /\ path # <<>> /\ DOMAIN path' = 1 .. Len(path) - 1 /\ Len(path') = Len(path) - 1
         /\ \A i \in DOMAIN path' : path'[i] = path[i] /\ At(i)' = At(i) /\ i \in DOMAIN path /\ i < Len(path)
                                    /\ index[At(i)] < index[Node] /\ i + 1 \in DOMAIN path
         /\ path' \in Seq([node : OnPath \ {Node}, rest : SUBSET DOMAIN graph])
         /\ OnPath' = OnPath \ {Node}
         /\ \A x, z : Dealt(x, z)' => Dealt(x, z)
         /\ \A x \in Above : \A z \in graph[x] : Dealt(x, z)
<1> DEFINE n == Len(path)
<1>0. NumbersInv /\ StackInv /\ PathInv
  BY DEF SearchInv
<1>1. path # <<>> /\ Last(path).rest = {} /\ path' = Front(path) /\ graph' = graph
  BY DEF VisitReturns
<1>2. /\ n \in Nat /\ DOMAIN path = 1 .. n /\ OnPath \subseteq Active /\ Active \subseteq DOMAIN index
      /\ \A x \in DOMAIN index : index[x] \in Nat
      /\ \A i \in DOMAIN path : At(i) \in OnPath
      /\ n \in DOMAIN path /\ Node = At(n) /\ Node \in OnPath /\ Last(path) = path[n]
      /\ \A i \in DOMAIN path : i # n => index[At(i)] < index[Node]
  BY <1>0, <1>1, PathIs
<1>3. n \in Nat /\ n >= 1
  <2>1. n \in 1 .. n
    BY <1>2
  <2> HIDE DEF n
  <2> QED BY <1>2, <2>1
<1>4. /\ \A i \in 1 .. n : path[i].node = At(i) /\ At(i) \in OnPath /\ path[i].rest \subseteq DOMAIN graph
      /\ \A i \in 1 .. n : path[i] = [node |-> path[i].node, rest |-> path[i].rest]
  <2> DEFINE R == [node : Active, rest : SUBSET DOMAIN graph]
  <2>1. path \in Seq(R)
    BY <1>0 DEF PathInv
  <2>2. \A r \in R : r.rest \subseteq DOMAIN graph /\ r = [node |-> r.node, rest |-> r.rest]
    OBVIOUS
  <2> HIDE DEF R
  <2>3. \A i \in 1 .. n : path[i] \in R
    BY <2>1, ElementOfSeq
  <2>4. \A i \in 1 .. n : At(i) \in OnPath
    BY <1>2
  <2> QED BY <2>2, <2>3, <2>4 DEF At
<1> DEFINE Q == [node : OnPath \ {Node}, rest : SUBSET DOMAIN graph]
<1>5. \A i \in 1 .. n - 1 : i \in 1 .. n /\ i # n /\ i < n /\ i + 1 \in 1 .. n
  <2> HIDE DEF n
  <2> QED BY <1>3
<1>6. \A i \in 1 .. n - 1 : path[i] \in Q /\ index[At(i)] < index[Node]
  <2> SUFFICES ASSUME NEW i \in 1 .. n - 1 PROVE path[i] \in Q /\ index[At(i)] < index[Node]
    OBVIOUS
  <2>1. i \in 1 .. n /\ i # n
    BY <1>5
  <2>2. index[At(i)] < index[Node] /\ index[At(i)] \in Nat
    BY <1>2, <2>1
  <2>3. At(i) # Node
    <3> SUFFICES ASSUME At(i) = Node PROVE FALSE
      OBVIOUS
    <3>1. index[Node] < index[Node] /\ index[Node] \in Nat
      BY <2>2
    <3> HIDE DEF n
    <3> QED BY <3>1
  <2>4. /\ path[i].node \in OnPath \ {Node} /\ path[i].rest \subseteq DOMAIN graph
        /\ path[i] = [node |-> path[i].node, rest |-> path[i].rest]
    BY <1>4, <2>1, <2>3
  <2>5. path[i] \in Q
    BY <2>4, Zenon
  <2> QED BY <2>2, <2>5
<1>7. /\ path' \in Seq(Q) /\ Len(path') = n - 1 /\ DOMAIN path' = 1 .. n - 1
      /\ \A i \in 1 .. n - 1 : path'[i] = path[i]
  <2>1. path' = SubSeq(path, 1, n - 1)
    BY <1>1 DEF Front
  <2> DEFINE k == n - 1
  <2>2. k \in Nat /\ (1 <= k => k - 1 + 1 = k) /\ (~(1 <= k) => k = 0)
    <3> HIDE DEF n
    <3> QED BY <1>3
  <2>3. \A i \in 1 .. k : path[i] \in Q
    BY <1>6
  <2> HIDE DEF k, n, Q
  <2>4. /\ SubSeq(path, 1, k) \in Seq(Q) /\ Len(SubSeq(path, 1, k)) = IF 1 <= k THEN k - 1 + 1 ELSE 0
        /\ \A i \in 1 .. k - 1 + 1 : SubSeq(path, 1, k)[i] = path[1 + i - 1]
    BY <2>2, <2>3, SubSeqProperties
  <2>5. Len(SubSeq(path, 1, k)) = k
    BY <2>2, <2>4
  <2>6. \A i \in 1 .. k : SubSeq(path, 1, k)[i] = path[i]
    <3> SUFFICES ASSUME NEW i \in 1 .. k PROVE SubSeq(path, 1, k)[i] = path[i]
      OBVIOUS
    <3>1. i \in 1 .. k - 1 + 1 /\ 1 + i - 1 = i
      BY <2>2
    <3> QED BY <2>4, <3>1
  <2>7. DOMAIN SubSeq(path, 1, k) = 1 .. k
    BY <2>4, <2>5
  <2> QED BY <2>1, <2>4, <2>5, <2>6, <2>7 DEF k
<1>8. \A i \in 1 .. n - 1 : At(i)' = At(i)
  BY <1>7 DEF At
<1>9. OnPath' = OnPath \ {Node}
  <2>1. ASSUME NEW g \in OnPath' PROVE g \in OnPath \ {Node}
    <3>1. PICK i \in 1 .. n - 1 : g = At(i)
      BY <1>7, <1>8 DEF OnPath
    <3>2. i \in 1 .. n /\ path[i] \in Q
      BY <1>5, <1>6
    <3> QED BY <1>4, <3>1, <3>2
  <2>2. ASSUME NEW g \in OnPath, g # Node PROVE g \in OnPath'
    <3>1. PICK i \in 1 .. n : g = At(i)
      BY <1>2 DEF OnPath
    <3>2. i # n
      BY <1>2, <2>2, <3>1
    <3>3. i \in 1 .. n - 1
      <4> HIDE DEF n
      <4> QED BY <1>3, <3>2
    <3> QED BY <1>7, <1>8, <3>1, <3>3 DEF OnPath
  <2> QED BY <2>1, <2>2
<1>10. ASSUME NEW x, NEW z, Dealt(x, z)' PROVE Dealt(x, z)
  <2>1. z \in graph[x] /\ \A i \in 1 .. n - 1 : At(i) = x => z \notin path[i].rest
    BY <1>1, <1>7, <1>8, <1>10 DEF Dealt
  <2>2. ASSUME NEW i \in DOMAIN path, At(i) = x PROVE z \notin path[i].rest
    <3>1. CASE i = n
      BY <1>1, <1>2, <3>1
    <3>2. CASE i # n
      <4>1. i \in 1 .. n
        BY <1>2
      <4>2. i \in 1 .. n - 1
        <5> HIDE DEF n
        <5> QED BY <1>3, <3>2, <4>1
      <4> QED BY <2>1, <2>2, <4>2
    <3> QED BY <3>1, <3>2
  <2> QED BY <2>1, <2>2 DEF Dealt
<1>11. ASSUME NEW x \in Above, NEW z \in graph[x] PROVE Dealt(x, z)
  <2>1. x \in DOMAIN index /\ index[Node] <= index[x] /\ index[x] \in Nat /\ index[Node] \in Nat
    BY <1>2 DEF Above
  <2>2. ASSUME NEW i \in DOMAIN path, At(i) = x PROVE z \notin path[i].rest
    <3>1. i = n
      BY <1>2, <2>1, <2>2
    <3> QED BY <1>1, <1>2, <3>1
  <2> QED BY <2>2 DEF Dealt
<1>12. ASSUME NEW i \in DOMAIN path'
       PROVE  /\ path'[i] = path[i] /\ At(i)' = At(i) /\ i \in DOMAIN path /\ i < n
              /\ index[At(i)] < index[Node] /\ i + 1 \in DOMAIN path
  BY <1>2, <1>5, <1>6, <1>7, <1>8
<1> QED BY <1>1, <1>7, <1>9, <1>10, <1>11, <1>12

\* From where an open call has dealt with everything, no edge leads below what
\* its low-link says.
LEMMA AboveIsClosed ==
  ASSUME SearchInv, VisitReturns, low[Node] = index[Node]
  PROVE  /\ Above = Component(Node)
         /\ Stable((UNION answer) \cup Above)
<1>0. GraphIsClosed /\ NumbersInv /\ StackInv /\ PathInv /\ PlacesInv /\ WaysInv /\ LowInv
  BY DEF SearchInv
<1>1. path # <<>> /\ \A x \in Above : \A z \in graph[x] : Dealt(x, z)
  BY ReturnFrames
<1>2. /\ Len(path) \in DOMAIN path /\ OnPath \subseteq Active /\ Active \subseteq DOMAIN index
      /\ DOMAIN index \subseteq DOMAIN graph
      /\ \A x \in DOMAIN index : index[x] \in Nat
      /\ Node = At(Len(path)) /\ Node \in OnPath
      /\ \A g \in OnPath : index[g] <= index[Node]
  BY <1>0, <1>1, PathIs
<1>3. Stable((UNION answer) \cup Above)
  <2>1. ASSUME NEW x \in Above, NEW z \in graph[x] PROVE z \in (UNION answer) \cup Above
    <3>1. x \in Active /\ index[Node] <= index[x] /\ Dealt(x, z)
      BY <1>1 DEF Above
    <3>2. z \in DOMAIN index
      BY <1>0, <1>2, <3>1 DEF PlacesInv
    <3>3. ASSUME z \in Active PROVE index[Node] <= index[z]
      <4>1. Owns(Len(path), x)
        <5>1. ~(Len(path) < Len(path))
          BY <1>2 DEF PathInv
        <5> QED BY <1>2, <3>1, <5>1 DEF Owns
      <4> QED BY <1>0, <1>2, <3>1, <3>3, <4>1 DEF LowInv
    <3> QED BY <1>0, <3>2, <3>3 DEF PlacesInv, Above
  <2> QED BY <1>0, <2>1 DEF PlacesInv, Stable
<1>4. \A x \in Above : To(Node, x) /\ To(x, Node)
  <2> SUFFICES ASSUME NEW x \in Above PROVE To(Node, x) /\ To(x, Node)
    OBVIOUS
  <2>1. x \in Active /\ To(Node, x)
    BY <1>0, <1>2 DEF Above, WaysInv
  <2>2. PICK g \in OnPath : To(x, g)
    BY <1>0, <2>1 DEF WaysInv
  <2>3. To(g, Node)
    BY <1>0, <1>2 DEF WaysInv
  <2> QED BY <2>1, <2>2, <2>3, ToTrans
<1>5. ASSUME NEW y, To(Node, y), To(y, Node) PROVE y \in Above
  <2>1. Node \in Above /\ Above \subseteq DOMAIN graph /\ UNION answer \subseteq DOMAIN graph
    <3>1. index[Node] <= index[Node]
      BY <1>2
    <3> QED BY <1>0, <1>2, <3>1 DEF Above, PlacesInv
  <2>2. y \in (UNION answer) \cup Above
    BY <1>3, <1>5, <2>1, ToStable
  <2>3. y \notin UNION answer
    <3> SUFFICES ASSUME y \in UNION answer PROVE FALSE
      OBVIOUS
    <3>1. Node \in UNION answer
      BY <1>0, <1>5, <2>1, ToStable DEF PlacesInv
    <3> QED BY <1>0, <1>2, <3>1 DEF PlacesInv
  <2> QED BY <2>2, <2>3
<1>6. Above \subseteq DOMAIN graph
  BY <1>2 DEF Above
<1> QED BY <1>3, <1>4, <1>5, <1>6 DEF Component

\* A call that returns to another one, its links as low as that one's.
LEMMA ReturnLow ==
  ASSUME SearchInv, VisitReturns
  PROVE  /\ DOMAIN low' = DOMAIN index /\ low' = [x \in DOMAIN index |-> low'[x]]
         /\ \A x \in DOMAIN index : low'[x] \in Nat /\ low'[x] <= low[x]
         /\ Len(path) = 1 => low' = low
         /\ Len(path) # 1 =>
              /\ Len(path) - 1 \in DOMAIN path'
              /\ \A x \in DOMAIN index : x # At(Len(path) - 1) => low'[x] = low[x]
              /\ low'[At(Len(path) - 1)] <= low[Node]
              /\ low'[At(Len(path) - 1)] \in {low[At(Len(path) - 1)], low[Node]}
<1> DEFINE n == Len(path)
           p == path[n - 1].node
<1>0. NumbersInv /\ StackInv /\ PathInv
  BY DEF SearchInv
<1>1. /\ path # <<>> /\ low' = IF n = 1 THEN low ELSE [low EXCEPT ![p] = Lower(@, low[Node])]
  BY DEF VisitReturns
<1>2. /\ n \in Nat /\ DOMAIN path = 1 .. n /\ OnPath \subseteq Active /\ Active \subseteq DOMAIN index
      /\ \A i \in DOMAIN path : At(i) \in OnPath
      /\ n \in DOMAIN path /\ Node \in DOMAIN index
  BY <1>0, <1>1, PathIs
<1>3. /\ low = [x \in DOMAIN index |-> low[x]] /\ DOMAIN low = DOMAIN index
      /\ \A x \in DOMAIN index : low[x] \in Nat
  BY <1>0 DEF NumbersInv
<1>4. CASE n = 1
  <2>1. low' = low
    BY <1>1, <1>4
  <2>2. \A x \in DOMAIN index : low[x] <= low[x]
    BY <1>3
  <2> QED BY <1>3, <1>4, <2>1, <2>2
<1>5. CASE n # 1
  <2>1. n - 1 \in 1 .. n - 1 /\ n - 1 \in 1 .. n
    <3>1. n \in Nat /\ n \in 1 .. n
      BY <1>2
    <3> HIDE DEF n
    <3> QED BY <1>5, <3>1
  <2>2. p = At(n - 1) /\ p \in DOMAIN index
    <3>1. p = At(n - 1)
      BY DEF At
    <3> QED BY <1>2, <2>1, <3>1
  <2>3. n - 1 \in DOMAIN path'
    BY <2>1, ReturnFrames
  <2> HIDE DEF n, p
  <2>4. low' = [low EXCEPT ![p] = Lower(low[p], low[Node])]
    BY <1>1, <1>5
  <2>5. DOMAIN low' = DOMAIN index /\ low' = [x \in DOMAIN index |-> low'[x]]
    BY <1>3, <2>4
  <2>6. low'[p] = Lower(low[p], low[Node]) /\ \A x \in DOMAIN index : x # p => low'[x] = low[x]
    BY <1>3, <2>2, <2>4
  <2>7. low[p] \in Nat /\ low[Node] \in Nat
    BY <1>2, <1>3, <2>2
  <2>8. low'[p] \in {low[p], low[Node]} /\ low'[p] \in Nat /\ low'[p] <= low[p] /\ low'[p] <= low[Node]
    BY <2>6, <2>7 DEF Lower
  <2>9. \A x \in DOMAIN index : low'[x] \in Nat /\ low'[x] <= low[x]
    <3> SUFFICES ASSUME NEW x \in DOMAIN index PROVE low'[x] \in Nat /\ low'[x] <= low[x]
      OBVIOUS
    <3>1. low[x] \in Nat
      BY <1>3
    <3>2. CASE x = p
      BY <2>8, <3>2
    <3>3. CASE x # p
      BY <2>6, <3>1, <3>3
    <3> QED BY <3>2, <3>3
  <2> QED BY <1>5, <2>2, <2>3, <2>5, <2>6, <2>8, <2>9 DEF n
<1> QED BY <1>4, <1>5

\* The stack is cut below the root of a component.
LEMMA ReturnStack ==
  ASSUME SearchInv, VisitReturns
  PROVE  /\ low[Node] # index[Node] => stack' = stack /\ answer' = answer
         /\ low[Node] = index[Node] =>
              /\ answer' = answer \cup {Above} /\ Active' = Active \ Above
              /\ stack' \in Seq(DOMAIN index)
              /\ \A i, j \in DOMAIN stack' : i < j => index[stack'[i]] < index[stack'[j]]
<1> DEFINE n == Len(stack)
           at == CHOOSE i \in DOMAIN stack : stack[i] = Node
           k == at - 1
<1>0. NumbersInv /\ StackInv /\ PathInv /\ path # <<>>
  BY DEF SearchInv, VisitReturns
<1>1. stack \in Seq(DOMAIN index) /\ n \in Nat /\ DOMAIN stack = 1 .. n
  BY <1>0 DEF StackInv
<1>2. Node \in Active /\ Active \subseteq DOMAIN index /\ \A x \in DOMAIN index : index[x] \in Nat
  BY <1>0, PathIs
<1>3. \E i \in DOMAIN stack : stack[i] = Node
  BY <1>2 DEF Active, Range
<1>4. at \in 1 .. n /\ stack[at] = Node
  BY <1>1, <1>3
<1>5. /\ answer' = answer \cup IF low[Node] = index[Node] THEN {{stack[i] : i \in at .. n}} ELSE {}
      /\ stack' = IF low[Node] = index[Node] THEN SubSeq(stack, 1, k) ELSE stack
  BY DEF VisitReturns
<1> HIDE DEF at
<1>6. n \in Nat /\ at \in Nat /\ at >= 1 /\ at <= n /\ k \in Nat /\ k < at
  <2>1. n \in Nat /\ at \in 1 .. n
    BY <1>1, <1>4
  <2> HIDE DEF n
  <2> QED BY <2>1
<1>7. \A i \in 1 .. n : stack[i] \in DOMAIN index /\ index[stack[i]] \in Nat
  BY <1>1, <1>2, ElementOfSeq
<1>8. \A i \in 1 .. n : index[Node] <= index[stack[i]] <=> i >= at
  <2> SUFFICES ASSUME NEW i \in 1 .. n PROVE index[Node] <= index[stack[i]] <=> i >= at
    OBVIOUS
  <2>1. index[Node] \in Nat /\ index[stack[i]] \in Nat /\ i \in Nat
    BY <1>2, <1>7
  <2>2. CASE i < at
    <3>1. index[stack[i]] < index[Node]
      BY <1>0, <1>1, <1>4, <2>2 DEF StackInv
    <3> HIDE DEF n, k
    <3> QED BY <1>6, <2>1, <2>2, <3>1
  <2>3. CASE i = at
    <3>1. index[stack[i]] = index[Node]
      BY <1>4, <2>3
    <3> HIDE DEF n, k
    <3> QED BY <1>6, <2>1, <2>3, <3>1
  <2>4. CASE at < i
    <3>1. index[Node] < index[stack[i]]
      BY <1>0, <1>1, <1>4, <2>4 DEF StackInv
    <3> HIDE DEF n, k
    <3> QED BY <1>6, <2>1, <2>4, <3>1
  <2>5. i < at \/ i = at \/ at < i
    <3> HIDE DEF n, k
    <3> QED BY <1>6, <2>1
  <2> QED BY <2>2, <2>3, <2>4, <2>5
<1>9. at .. n = {i \in 1 .. n : i >= at} /\ 1 .. k = {i \in 1 .. n : ~(i >= at)}
  <2> HIDE DEF n
  <2> QED BY <1>6
<1>10. Active = {stack[i] : i \in 1 .. n}
  BY <1>1 DEF Active, Range
<1>11. {stack[i] : i \in at .. n} = Above
  <2>1. ASSUME NEW i \in at .. n PROVE stack[i] \in Above
    BY <1>8, <1>9, <1>10 DEF Above
  <2>2. ASSUME NEW x \in Above PROVE \E i \in at .. n : x = stack[i]
    <3>1. PICK i \in 1 .. n : x = stack[i]
      BY <1>10 DEF Above
    <3>2. i \in at .. n
      BY <1>8, <1>9, <3>1 DEF Above
    <3> QED BY <3>1, <3>2
  <2> QED BY <2>1, <2>2
<1>12. {stack[i] : i \in 1 .. k} = Active \ Above
  <2>1. ASSUME NEW i \in 1 .. k PROVE stack[i] \in Active \ Above
    BY <1>8, <1>9, <1>10 DEF Above
  <2>2. ASSUME NEW x \in Active \ Above PROVE \E i \in 1 .. k : x = stack[i]
    <3>1. PICK i \in 1 .. n : x = stack[i]
      BY <1>10
    <3>2. i \in 1 .. k
      BY <1>8, <1>9, <3>1 DEF Above
    <3> QED BY <3>1, <3>2
  <2> QED BY <2>1, <2>2
<1>13. ASSUME low[Node] = index[Node]
       PROVE  /\ stack' \in Seq(DOMAIN index) /\ Active' = Active \ Above
              /\ \A i, j \in DOMAIN stack' : i < j => index[stack'[i]] < index[stack'[j]]
  <2> DEFINE s == SubSeq(stack, 1, k)
  <2>1. s \in Seq(DOMAIN index) /\ Len(s) = k /\ \A i \in 1 .. k : s[i] = stack[i]
    <3>1. k \in Int /\ k - 1 + 1 = k /\ (~(1 <= k) => k = 0)
      BY <1>6
    <3>2. \A i \in 1 .. k : stack[i] \in DOMAIN index
      BY <1>7, <1>9
    <3> HIDE DEF k
    <3>3. /\ s \in Seq(DOMAIN index) /\ Len(s) = IF 1 <= k THEN k - 1 + 1 ELSE 0
          /\ \A i \in 1 .. k - 1 + 1 : s[i] = stack[1 + i - 1]
      BY <3>1, <3>2, SubSeqProperties
    <3> HIDE DEF s
    <3>4. Len(s) = k
      BY <3>1, <3>3
    <3>5. \A i \in 1 .. k : s[i] = stack[i]
      <4> SUFFICES ASSUME NEW i \in 1 .. k PROVE s[i] = stack[i]
        OBVIOUS
      <4>1. i \in 1 .. k - 1 + 1 /\ 1 + i - 1 = i
        BY <3>1
      <4> QED BY <3>3, <4>1
    <3> QED BY <3>3, <3>4, <3>5
  <2>2. stack' = s
    BY <1>5, <1>13
  <2> HIDE DEF s, k
  <2>3. DOMAIN s = 1 .. k
    BY <2>1
  <2>4. Active' = {stack[i] : i \in 1 .. k}
    BY <2>1, <2>2, <2>3 DEF Active, Range
  <2>5. \A i, j \in 1 .. k : i < j => index[stack[i]] < index[stack[j]]
    BY <1>0, <1>1, <1>9 DEF StackInv
  <2> QED BY <1>12, <2>1, <2>2, <2>3, <2>4, <2>5
<1> QED BY <1>5, <1>11, <1>13
\* An open call that is no root has a way to an earlier one.
LEMMA NoRootReturns ==
  ASSUME SearchInv, path # <<>>, low[Node] # index[Node], NEW x, To(x, Node)
  PROVE  \E g \in OnPath \ {Node} : index[g] < index[Node] /\ To(x, g)
<1>0. NumbersInv /\ StackInv /\ PathInv /\ WaysInv /\ LowInv
  BY DEF SearchInv
<1>1. /\ OnPath \subseteq Active /\ Active \subseteq DOMAIN index /\ Node \in OnPath
      /\ \A y \in DOMAIN index : index[y] \in Nat
  BY <1>0, PathIs
<1>2. PICK u \in Active : low[Node] = index[u] /\ To(Node, u) /\ low[Node] <= index[Node]
  BY <1>0, <1>1 DEF LowInv
<1>3. PICK g \in OnPath : index[g] <= index[u] /\ To(u, g)
  BY <1>0, <1>2 DEF WaysInv
<1>4. index[g] \in Nat /\ index[u] \in Nat /\ index[Node] \in Nat
  BY <1>1
<1>5. index[g] < index[Node]
  BY <1>2, <1>3, <1>4
<1>6. g # Node
  BY <1>4, <1>5
<1>7. To(x, g)
  BY <1>2, <1>3, ToTrans
<1> QED BY <1>5, <1>6, <1>7

LEMMA VisitReturnsKept == SearchInv /\ VisitReturns => SearchInv'
<1> SUFFICES ASSUME SearchInv, VisitReturns PROVE SearchInv'
  OBVIOUS
<1> DEFINE n == Len(path)
           isRoot == low[Node] = index[Node]
<1>0. GraphIsClosed /\ NumbersInv /\ StackInv /\ PathInv /\ PlacesInv /\ WaysInv /\ LowInv
  BY DEF SearchInv
<1>1. path # <<>> /\ graph' = graph /\ index' = index
  BY DEF VisitReturns
<1>2. /\ n \in Nat /\ DOMAIN path = 1 .. n /\ n \in DOMAIN path
      /\ OnPath \subseteq Active /\ Active \subseteq DOMAIN index
      /\ \A x \in DOMAIN index : index[x] \in Nat
      /\ \A i \in DOMAIN path : At(i) \in OnPath
      /\ Node = At(n) /\ Node \in OnPath
      /\ \A g \in OnPath : index[g] <= index[Node]
  BY <1>0, <1>1, PathIs
<1>3. /\ DOMAIN path' = 1 .. n - 1 /\ Len(path') = n - 1
      /\ \A i \in DOMAIN path' : path'[i] = path[i] /\ At(i)' = At(i) /\ i \in DOMAIN path /\ i < n
                                 /\ index[At(i)] < index[Node] /\ i + 1 \in DOMAIN path
      /\ path' \in Seq([node : OnPath \ {Node}, rest : SUBSET DOMAIN graph])
      /\ OnPath' = OnPath \ {Node}
      /\ \A x, z : Dealt(x, z)' => Dealt(x, z)
  BY ReturnFrames
<1>4. /\ DOMAIN low' = DOMAIN index /\ low' = [x \in DOMAIN index |-> low'[x]]
      /\ \A x \in DOMAIN index : low'[x] \in Nat /\ low'[x] <= low[x]
      /\ n = 1 => low' = low
      /\ n # 1 =>
           /\ n - 1 \in DOMAIN path'
           /\ \A x \in DOMAIN index : x # At(n - 1) => low'[x] = low[x]
           /\ low'[At(n - 1)] <= low[Node]
           /\ low'[At(n - 1)] \in {low[At(n - 1)], low[Node]}
  BY ReturnLow
<1>5. /\ ~isRoot => stack' = stack /\ answer' = answer
      /\ isRoot => /\ answer' = answer \cup {Above} /\ Active' = Active \ Above
                 /\ stack' \in Seq(DOMAIN index)
                 /\ \A i, j \in DOMAIN stack' : i < j => index[stack'[i]] < index[stack'[j]]
  BY ReturnStack
<1>6. isRoot => Above = Component(Node) /\ Stable((UNION answer) \cup Above)
  BY AboveIsClosed
<1>7. /\ \A x, y : To(x, y)' <=> To(x, y)
      /\ \A x : Component(x)' = Component(x)
      /\ \A T : Stable(T)' <=> Stable(T)
  BY <1>1, SameWays
<1>8. ~isRoot => Active' = Active
  BY <1>5 DEF Active
<1>9. Active' \subseteq Active /\ (isRoot => \A x \in Active' : index[x] < index[Node])
  <2>1. ASSUME isRoot, NEW x \in Active' PROVE index[x] < index[Node]
    <3>1. x \in Active /\ ~(index[Node] <= index[x])
      BY <1>5, <2>1 DEF Above
    <3>2. index[x] \in Nat /\ index[Node] \in Nat
      BY <1>2, <3>1
    <3> QED BY <3>1, <3>2
  <2> QED BY <1>5, <1>8, <2>1
<1>10. OnPath' \subseteq Active' /\ \A x \in Active : index[x] < index[Node] => x \in Active'
  <2>1. ASSUME NEW x \in Active, index[x] < index[Node] PROVE x \in Active'
    <3>1. index[x] \in Nat /\ index[Node] \in Nat
      BY <1>2
    <3>2. x \notin Above
      BY <2>1, <3>1 DEF Above
    <3> QED BY <1>5, <1>8, <3>2
  <2>2. ASSUME NEW g \in OnPath' PROVE index[g] < index[Node] /\ g \in Active
    <3>1. PICK i \in DOMAIN path' : g = path'[i].node
      BY DEF OnPath, At
    <3>2. g = At(i) /\ index[At(i)] < index[Node]
      BY <1>3, <3>1 DEF At
    <3> QED BY <1>2, <1>3, <3>2
  <2> QED BY <2>1, <2>2
<1>11. GraphIsClosed' /\ NumbersInv' /\ StackInv'
  <2>1. NumbersInv'
    BY <1>0, <1>1, <1>4 DEF NumbersInv
  <2>2. /\ stack' \in Seq(DOMAIN index)
        /\ \A i, j \in DOMAIN stack' : i < j => index[stack'[i]] < index[stack'[j]]
    <3>1. CASE isRoot
      BY <1>5, <3>1
    <3>2. CASE ~isRoot
      <4>1. stack' = stack
        BY <1>5, <3>2
      <4> QED BY <1>0, <4>1 DEF StackInv
    <3> QED BY <3>1, <3>2
  <2>3. StackInv'
    <3>1. (stack \in Seq(DOMAIN index))'
      BY <1>1, <2>2
    <3>2. (\A i, j \in DOMAIN stack : i < j => index[stack[i]] < index[stack[j]])'
      BY <1>1, <2>2
    <3> QED BY <3>1, <3>2 DEF StackInv
  <2>4. GraphIsClosed'
    BY <1>0, <1>1 DEF GraphIsClosed
  <2> QED BY <2>1, <2>3, <2>4
<1>12. PathInv'
  <2>1. path' \in Seq([node : Active', rest : SUBSET DOMAIN graph'])
    <3> DEFINE Q == [node : OnPath \ {Node}, rest : SUBSET DOMAIN graph]
               R == [node : Active', rest : SUBSET DOMAIN graph']
    <3>1. Q \subseteq R
      BY <1>1, <1>3, <1>10
    <3>2. path' \in Seq(Q)
      BY <1>3
    <3> HIDE DEF Q, R
    <3>3. path' \in Seq(R)
      BY <3>1, <3>2, SeqMonotonic
    <3> QED BY <3>3 DEF R
  <2>2. \A i \in DOMAIN path' : path'[i] = path[i] /\ At(i)' = At(i) /\ i \in DOMAIN path
    BY <1>3
  <2>3. (\A i, j \in DOMAIN path : i < j => index[At(i)] < index[At(j)])'
    BY <1>0, <1>1, <2>2 DEF PathInv
  <2>4. (\A i \in DOMAIN path : path[i].rest \subseteq graph[At(i)])'
    BY <1>0, <1>1, <2>2 DEF PathInv
  <2>5. (path \in Seq([node : Active, rest : SUBSET DOMAIN graph]))'
    BY <2>1
  <2> QED BY <2>3, <2>4, <2>5 DEF PathInv
<1>13. PlacesInv'
  <2>1. \A x \in DOMAIN index' : \A z \in graph'[x] : Dealt(x, z)' => z \in DOMAIN index'
    BY <1>0, <1>1, <1>3 DEF PlacesInv
  <2>2. CASE isRoot
    <3>1. Above \subseteq Active /\ Node \in Above
      <4>1. index[Node] <= index[Node]
        BY <1>2
      <4> QED BY <1>2, <4>1 DEF Above
    <3>2. UNION answer' = (UNION answer) \cup Above
      BY <1>5, <2>2
    <3>3. DOMAIN index' = Active' \cup UNION answer' /\ Active' \cap UNION answer' = {}
      BY <1>0, <1>1, <1>5, <2>2, <3>1, <3>2 DEF PlacesInv
    <3>4. Stable(UNION answer')
      BY <1>6, <2>2, <3>2
    <3>5. \A c \in answer' : \E x \in c : c = Component(x)
      BY <1>0, <1>5, <1>6, <2>2, <3>1 DEF PlacesInv
    <3>6. (Stable(UNION answer))'
      BY <1>1, <3>4 DEF Stable
    <3>7. (\A c \in answer : \E x \in c : c = Component(x))'
      BY <1>7, <3>5
    <3> QED BY <2>1, <3>3, <3>6, <3>7 DEF PlacesInv
  <2>3. CASE ~isRoot
    <3>1. answer' = answer /\ Active' = Active
      BY <1>5, <1>8, <2>3
    <3>2. (Stable(UNION answer))'
      BY <1>0, <1>1, <3>1 DEF Stable, PlacesInv
    <3>3. (\A c \in answer : \E x \in c : c = Component(x))'
      BY <1>0, <1>7, <3>1 DEF PlacesInv
    <3> QED BY <1>0, <1>1, <2>1, <3>1, <3>2, <3>3 DEF PlacesInv
  <2> QED BY <2>2, <2>3
<1>14. ASSUME NEW x \in Active' PROVE \E g \in OnPath' : index[g] <= index[x] /\ To(x, g)
  <2>1. x \in Active
    BY <1>9
  <2>2. PICK g \in OnPath : index[g] <= index[x] /\ To(x, g)
    BY <1>0, <2>1 DEF WaysInv
  <2>3. index[g] \in Nat /\ index[x] \in Nat /\ index[Node] \in Nat
    BY <1>2, <2>1
  <2>4. CASE g # Node
    BY <1>3, <2>2, <2>4
  <2>5. CASE g = Node
    <3>1. ~isRoot
      <4>1. ASSUME isRoot PROVE FALSE
        <5>1. index[x] < index[Node]
          BY <1>9, <4>1
        <5> QED BY <2>2, <2>3, <2>5, <5>1
      <4> QED BY <4>1
    <3>2. PICK h \in OnPath \ {Node} : index[h] < index[Node] /\ To(x, h)
      BY <1>1, <2>2, <2>5, <3>1, NoRootReturns
    <3>3. index[h] \in Nat
      BY <1>2
    <3>4. index[h] <= index[x]
      BY <2>2, <2>3, <2>5, <3>2, <3>3
    <3> QED BY <1>3, <3>2, <3>4
  <2> QED BY <2>4, <2>5
<1>15. WaysInv'
  <2>1. (\A x, y \in Active : index[x] <= index[y] => To(x, y))'
    BY <1>0, <1>1, <1>7, <1>9 DEF WaysInv
  <2>2. (\A x \in Active : \E g \in OnPath : index[g] <= index[x] /\ To(x, g))'
    BY <1>1, <1>7, <1>14
  <2>3. ASSUME NEW i \in 1 .. (n - 1) - 1 PROVE path'[i + 1].node \in graph[path'[i].node]
    <3>1. i \in 1 .. n - 1 /\ i + 1 \in 1 .. n - 1
      <4>1. n \in Nat
        BY <1>2
      <4> HIDE DEF n
      <4> QED BY <4>1
    <3>2. At(i + 1) \in graph[At(i)]
      BY <1>0, <3>1 DEF WaysInv
    <3> QED BY <1>3, <3>1, <3>2 DEF At
  <2>4. (\A i \in 1 .. Len(path) - 1 : At(i + 1) \in graph[At(i)])'
    BY <1>1, <1>3, <2>3 DEF At
  <2> QED BY <2>1, <2>2, <2>4 DEF WaysInv
<1>16. ASSUME NEW g \in OnPath'
       PROVE  \E u \in Active' : low'[g] = index[u] /\ To(g, u) /\ low'[g] <= index[g]
  <2>1. g \in OnPath /\ g # Node /\ g \in DOMAIN index
    BY <1>2, <1>3
  <2>2. PICK u \in Active : low[g] = index[u] /\ To(g, u) /\ low[g] <= index[g]
    BY <1>0, <2>1 DEF LowInv
  <2>3. PICK w \in Active : low[Node] = index[w] /\ To(Node, w) /\ low[Node] <= index[Node]
    BY <1>0, <1>2 DEF LowInv
  <2>4. /\ index[u] \in Nat /\ index[w] \in Nat /\ index[g] \in Nat /\ index[Node] \in Nat
        /\ low'[g] <= low[g] /\ low'[g] \in Nat
    BY <1>2, <1>4, <2>1
  <2>5. index[g] < index[Node]
    <3>1. PICK i \in DOMAIN path' : g = path'[i].node
      BY DEF OnPath, At
    <3>2. g = At(i) /\ index[At(i)] < index[Node]
      BY <1>3, <3>1 DEF At
    <3> QED BY <3>2
  <2>6. low'[g] <= index[g]
    BY <2>2, <2>4
  <2>7. CASE low'[g] = low[g]
    <3>1. index[u] < index[Node]
      BY <2>2, <2>4, <2>5
    <3>2. u \in Active'
      BY <1>10, <3>1
    <3> QED BY <2>2, <2>6, <2>7, <3>2
  <2>8. CASE low'[g] # low[g]
    <3>1. n # 1 /\ g = At(n - 1) /\ low'[g] = low[Node]
      BY <1>4, <2>1, <2>8
    <3>2. To(g, Node)
      <4>1. n - 1 \in 1 .. n - 1 /\ (n - 1) + 1 = n
        <5>1. n \in Nat /\ n - 1 \in 1 .. n - 1
          BY <1>2, <1>3, <1>4, <3>1
        <5> HIDE DEF n
        <5> QED BY <5>1
      <4>2. At((n - 1) + 1) \in graph[At(n - 1)]
        BY <1>0, <4>1 DEF WaysInv
      <4>3. Node \in graph[g]
        BY <1>2, <3>1, <4>1, <4>2
      <4> QED BY <4>3, ToNext
    <3>3. index[w] < index[Node]
      BY <2>3, <2>4, <2>5, <2>6, <3>1
    <3>4. w \in Active' /\ To(g, w)
      BY <1>10, <2>3, <3>2, <3>3, ToTrans
    <3> QED BY <2>3, <2>6, <3>1, <3>4
  <2> QED BY <2>7, <2>8
<1>17. ASSUME NEW i \in DOMAIN path', NEW x \in Active', NEW z \in Active', Owns(i, x)', Dealt(x, z)'
       PROVE  low'[At(i)] <= index[z]
  <2>1. /\ i \in DOMAIN path /\ i < n /\ At(i) \in DOMAIN index /\ x \in Active /\ z \in Active
        /\ Dealt(x, z) /\ n \in DOMAIN path
    BY <1>2, <1>3, <1>9, <1>17
  <2>2. index[At(i)] <= index[x] /\ (i < n - 1 => index[x] < index[path'[i + 1].node])
    BY <1>1, <1>3, <1>17 DEF Owns, At
  <2>3. /\ low'[At(i)] <= low[At(i)] /\ low'[At(i)] \in Nat /\ low[At(i)] \in Nat
        /\ index[z] \in Nat /\ index[x] \in Nat /\ index[Node] \in Nat /\ low[Node] \in Nat
    BY <1>0, <1>2, <1>4, <2>1 DEF NumbersInv
  <2>4. ASSUME Owns(i, x) PROVE low'[At(i)] <= index[z]
    <3>1. low[At(i)] <= index[z]
      BY <1>0, <2>1, <2>4 DEF LowInv
    <3> QED BY <2>3, <3>1
  <2>5. CASE i # n - 1
    <3>1. i < n - 1 /\ i + 1 \in 1 .. n - 1
      <4>1. n \in Nat /\ i \in 1 .. n
        BY <1>2, <2>1
      <4> HIDE DEF n
      <4> QED BY <2>1, <2>5, <4>1
    <3>2. path'[i + 1].node = At(i + 1)
      BY <1>3, <3>1 DEF At
    <3>3. Owns(i, x)
      BY <2>2, <3>1, <3>2 DEF Owns
    <3> QED BY <2>4, <3>3
  <2>6. CASE i = n - 1
    <3>1. At(i + 1) = Node /\ n # 1
      <4>1. n \in Nat /\ i \in 1 .. n
        BY <1>2, <2>1
      <4>2. i + 1 = n /\ n # 1
        <5> HIDE DEF n
        <5> QED BY <2>6, <4>1
      <4> QED BY <1>2, <4>2
    <3>2. CASE index[x] < index[Node]
      BY <2>2, <2>4, <3>1, <3>2 DEF Owns
    <3>3. CASE ~(index[x] < index[Node])
      <4>1. index[Node] <= index[x]
        BY <2>3, <3>3
      <4>2. Owns(n, x)
        <5>1. ~(n < n)
          BY <1>2
        <5> QED BY <1>2, <4>1, <5>1 DEF Owns
      <4>3. low[Node] <= index[z]
        BY <1>0, <1>2, <2>1, <4>2 DEF LowInv
      <4>4. low'[At(i)] <= low[Node]
        BY <1>4, <2>6, <3>1
      <4> QED BY <2>3, <4>3, <4>4
    <3> QED BY <3>2, <3>3
  <2> QED BY <2>5, <2>6
<1>18. LowInv'
  <2>1. (\A g \in OnPath : \E u \in Active : low[g] = index[u] /\ To(g, u) /\ low[g] <= index[g])'
    BY <1>1, <1>7, <1>16
  <2>2. (\A i \in DOMAIN path : \A x, z \in Active :
          Owns(i, x) /\ Dealt(x, z) => low[At(i)] <= index[z])'
    BY <1>1, <1>3, <1>17
  <2> QED BY <2>1, <2>2 DEF LowInv
<1> QED BY <1>11, <1>12, <1>13, <1>15, <1>18 DEF SearchInv

\* The search begins with nothing, and ends with the components.
LEMMA SearchBegins ==
  ASSUME GraphIsClosed, index = <<>>, low = <<>>, stack = <<>>, path = <<>>, answer = {}
  PROVE  SearchInv
<1>1. /\ DOMAIN index = {} /\ DOMAIN low = {} /\ DOMAIN stack = {} /\ DOMAIN path = {} /\ Active = {}
      /\ Len(path) = 0
  BY DEF Active, Range
<1>2. NumbersInv
  BY <1>1, FS_EmptySet DEF NumbersInv
<1>3. StackInv /\ PathInv
  BY <1>1 DEF StackInv, PathInv
<1>4. PlacesInv /\ WaysInv /\ LowInv
  <2>1. 1 .. Len(path) - 1 = {}
    BY <1>1
  <2>2. OnPath = {} /\ UNION answer = {}
    BY <1>1 DEF OnPath
  <2>3. Stable(UNION answer)
    BY <2>2 DEF Stable
  <2>4. PlacesInv
    BY <1>1, <2>2, <2>3 DEF PlacesInv
  <2>5. WaysInv
    BY <1>1, <2>1 DEF WaysInv
  <2>6. LowInv
    BY <1>1, <2>2 DEF LowInv
  <2> QED BY <2>4, <2>5, <2>6
<1> QED BY <1>2, <1>3, <1>4 DEF SearchInv

LEMMA SearchEnds ==
  ASSUME SearchInv, path = <<>>, DOMAIN graph = DOMAIN index
  PROVE  answer = {Component(x) : x \in DOMAIN graph}
<1>0. PlacesInv /\ WaysInv
  BY DEF SearchInv
<1>1. OnPath = {}
  BY DEF OnPath
<1>2. Active = {}
  BY <1>0, <1>1 DEF WaysInv
<1>3. UNION answer = DOMAIN graph
  BY <1>0, <1>2 DEF PlacesInv
<1>4. ASSUME NEW c \in answer PROVE \E x \in DOMAIN graph : c = Component(x)
  BY <1>0, <1>3 DEF PlacesInv
<1>5. ASSUME NEW x \in DOMAIN graph PROVE Component(x) \in answer
  <2>1. PICK c \in answer : x \in c
    BY <1>3
  <2>2. PICK y \in c : c = Component(y)
    BY <1>0 DEF PlacesInv
  <2>3. To(x, y) /\ To(y, x)
    BY <2>1, <2>2 DEF Component
  <2>4. \A z : (To(x, z) <=> To(y, z)) /\ (To(z, x) <=> To(z, y))
    BY <2>3, ToTrans
  <2>5. Component(x) = Component(y)
    BY <2>4 DEF Component
  <2> QED BY <2>2, <2>5
<1> QED BY <1>4, <1>5

-----------------------------------------------------------------------------
\* Loops.

\* What x reaches by an edge or more.
After(x) == ReachedFrom(graph[x], graph, DOMAIN graph)

LEMMA AfterIs ==
  ASSUME GraphIsClosed, IsFiniteSet(DOMAIN graph), NEW x \in DOMAIN graph
  PROVE  /\ After(x) \subseteq DOMAIN graph
         /\ \A y : y \in After(x) <=> \E z \in graph[x] : To(z, y)
<1> DEFINE R == ReachedFrom(graph[x], graph, DOMAIN graph)
           T == {y \in DOMAIN graph : \E z \in graph[x] : To(z, y)}
<1>1. /\ graph[x] \subseteq R /\ ClosedUnder(R, graph, DOMAIN graph)
      /\ \A S : graph[x] \subseteq S /\ ClosedUnder(S, graph, DOMAIN graph) => R \subseteq S
  BY ReachedIsLeast
<1>2. After(x) = R
  BY DEF After
<1> HIDE DEF R
<1>3. graph[x] \subseteq DOMAIN graph /\ ClosedUnder(DOMAIN graph, graph, DOMAIN graph)
  BY DEF GraphIsClosed, ClosedUnder
<1>4. R \subseteq DOMAIN graph /\ Stable(R)
  BY <1>1, <1>3 DEF ClosedUnder, Stable
<1>5. graph[x] \subseteq T /\ ClosedUnder(T, graph, DOMAIN graph)
  <2>1. graph[x] \subseteq T
    BY <1>3, ToSelf
  <2>2. ASSUME NEW y \in T, NEW w \in graph[y] PROVE w \in T
    <3>1. w \in DOMAIN graph /\ To(y, w)
      BY <2>2, ToNext DEF GraphIsClosed
    <3> QED BY <2>2, <3>1, ToTrans
  <2> QED BY <2>1, <2>2 DEF ClosedUnder
<1>6. R \subseteq T
  BY <1>1, <1>5
<1>7. ASSUME NEW y, NEW z \in graph[x], To(z, y) PROVE y \in R
  BY <1>1, <1>4, <1>7, ToStable
<1> QED BY <1>2, <1>4, <1>6, <1>7

\* A way to another node begins with an edge.
LEMMA WayBegins ==
  ASSUME GraphIsClosed, NEW x \in DOMAIN graph, NEW y, To(x, y), x # y
  PROVE  \E z \in graph[x] : To(z, y)
<1> DEFINE T == {x} \cup {v \in DOMAIN graph : \E z \in graph[x] : To(z, v)}
<1>1. T \in SUBSET DOMAIN graph /\ x \in T
  OBVIOUS
<1>2. Stable(T)
  <2>1. ASSUME NEW w \in graph[x] PROVE w \in T
    BY ToSelf DEF GraphIsClosed
  <2>2. ASSUME NEW v \in T, v # x, NEW w \in graph[v] PROVE w \in T
    <3>1. w \in DOMAIN graph /\ To(v, w)
      BY <2>2, ToNext DEF GraphIsClosed
    <3> QED BY <2>2, <3>1, ToTrans
  <2> HIDE DEF T
  <2> QED BY <2>1, <2>2 DEF Stable
<1>3. y \in T
  <2> HIDE DEF T
  <2> QED BY <1>1, <1>2, ToStable
<1> QED BY <1>3

LEMMA MoreThanOne ==
  ASSUME NEW S, IsFiniteSet(S), NEW x \in S
  PROVE  Cardinality(S) > 1 <=> \E y \in S : y # x
<1>1. Cardinality(S) \in Nat /\ Cardinality({x}) = 1 /\ IsFiniteSet({x})
  BY FS_CardinalityType, FS_Singleton
<1>2. ASSUME S = {x} PROVE ~(Cardinality(S) > 1)
  BY <1>1, <1>2
<1>3. ASSUME S # {x} PROVE Cardinality(S) > 1
  <2>1. {x} \in SUBSET S
    OBVIOUS
  <2>2. Cardinality({x}) <= Cardinality(S) /\ Cardinality({x}) # Cardinality(S)
    BY <1>3, <2>1, FS_Subset
  <2> QED BY <1>1, <2>2
<1> QED BY <1>2, <1>3

LEMMA CyclicAre ==
  ASSUME GraphIsClosed, IsFiniteSet(DOMAIN graph), answer = {Component(x) : x \in DOMAIN graph}
  PROVE  Cyclic = {{c \in After(b) : b \in After(c)} : b \in {d \in DOMAIN graph : d \in After(d)}}
<1>1. ASSUME NEW b \in DOMAIN graph, b \in After(b)
      PROVE  {c \in After(b) : b \in After(c)} = Component(b)
  <2>1. ASSUME NEW c \in After(b), b \in After(c) PROVE c \in Component(b)
    <3>1. c \in DOMAIN graph
      BY AfterIs
    <3>2. PICK z \in graph[b] : To(z, c)
      BY AfterIs
    <3>3. PICK w \in graph[c] : To(w, b)
      BY <2>1, <3>1, AfterIs
    <3>4. To(b, c) /\ To(c, b)
      BY <3>2, <3>3, ToNext, ToTrans
    <3> QED BY <3>1, <3>4 DEF Component
  <2>2. ASSUME NEW c \in Component(b) PROVE c \in After(b) /\ b \in After(c)
    <3>1. CASE c = b
      BY <1>1, <3>1
    <3>2. CASE c # b
      <4>1. c \in DOMAIN graph /\ To(b, c) /\ To(c, b)
        BY DEF Component
      <4>2. (\E z \in graph[b] : To(z, c)) /\ (\E z \in graph[c] : To(z, b))
        BY <3>2, <4>1, WayBegins
      <4> QED BY <4>1, <4>2, AfterIs
    <3> QED BY <3>1, <3>2
  <2> QED BY <2>1, <2>2
<1>2. ASSUME NEW b \in DOMAIN graph
      PROVE  b \in After(b) <=>
               (Cardinality(Component(b)) > 1 \/ \E n \in Component(b) : n \in graph[n])
  <2>1. b \in Component(b) /\ IsFiniteSet(Component(b)) /\ Component(b) \subseteq DOMAIN graph
    BY ToSelf, FS_Subset DEF Component
  <2>2. Cardinality(Component(b)) > 1 <=> \E y \in Component(b) : y # b
    BY <2>1, MoreThanOne
  <2>3. ASSUME NEW z \in graph[b], To(z, b), z # b PROVE z \in Component(b)
    BY <2>3, ToNext DEF Component, GraphIsClosed
  <2>4. ASSUME NEW y \in Component(b), y # b PROVE b \in After(b)
    <3>1. To(b, y) /\ To(y, b)
      BY DEF Component
    <3>2. PICK z \in graph[b] : To(z, y)
      BY <2>4, <3>1, WayBegins
    <3> QED BY <3>1, <3>2, AfterIs, ToTrans
  <2>5. ASSUME b \in graph[b] PROVE b \in After(b)
    BY <2>5, AfterIs, ToSelf
  <2>6. b \in After(b) <=> \E z \in graph[b] : To(z, b)
    BY AfterIs
  <2> QED BY <2>1, <2>2, <2>3, <2>4, <2>5, <2>6
<1>3. Cyclic = {Component(b) : b \in {d \in DOMAIN graph : d \in After(d)}}
  BY <1>2 DEF Cyclic
<1> QED BY <1>1, <1>3

-----------------------------------------------------------------------------
\* Chains of functions.

Chain(s) ==
  /\ s \in Seq(DOMAIN graph) /\ s # <<>>
  /\ \A i \in 1 .. Len(s) - 1 : s[i + 1] \in graph[s[i]]
Round(s) == Chain(s) /\ s[1] \in graph[s[Len(s)]]

LEMMA ChainIs ==
  ASSUME NEW s, Chain(s)
  PROVE  /\ Len(s) \in Nat /\ Len(s) >= 1 /\ 1 \in 1 .. Len(s) /\ Len(s) \in 1 .. Len(s)
         /\ \A i \in 1 .. Len(s) : s[i] \in DOMAIN graph
<1>1. s \in Seq(DOMAIN graph) /\ s # <<>>
  BY DEF Chain
<1>2. Len(s) \in Nat /\ Len(s) # 0
  BY <1>1
<1>3. \A i \in 1 .. Len(s) : s[i] \in DOMAIN graph
  BY <1>1, ElementOfSeq
<1>4. 1 \in 1 .. Len(s) /\ Len(s) \in 1 .. Len(s) /\ Len(s) >= 1
  BY <1>2
<1> QED BY <1>2, <1>3, <1>4

LEMMA SingleChain ==
  ASSUME NEW x \in DOMAIN graph
  PROVE  Chain(<<x>>) /\ Len(<<x>>) = 1 /\ <<x>>[1] = x
<1>1. <<x>> \in Seq(DOMAIN graph) /\ Len(<<x>>) = 1 /\ <<x>>[1] = x /\ <<x>> # <<>>
  OBVIOUS
<1>2. 1 .. 1 - 1 = {}
  OBVIOUS
<1> QED BY <1>1, <1>2 DEF Chain

\* One function more at the end.
LEMMA LongerChain ==
  ASSUME NEW s, Chain(s), NEW y \in DOMAIN graph, y \in graph[s[Len(s)]]
  PROVE  /\ Chain(Append(s, y)) /\ Len(Append(s, y)) = Len(s) + 1
         /\ Append(s, y)[1] = s[1] /\ Append(s, y)[Len(s) + 1] = y
<1> DEFINE t == Append(s, y)
           n == Len(s)
<1>1. s \in Seq(DOMAIN graph) /\ \A i \in 1 .. n - 1 : s[i + 1] \in graph[s[i]]
  BY DEF Chain
<1>2. /\ t \in Seq(DOMAIN graph) /\ t # <<>> /\ Len(t) = n + 1
      /\ \A i \in 1 .. n : t[i] = s[i] /\ t[n + 1] = y
  BY <1>1, AppendProperties
<1>3. n \in Nat /\ n >= 1 /\ 1 \in 1 .. n
  BY ChainIs
<1> HIDE DEF t
<1>4. ASSUME NEW i \in 1 .. (n + 1) - 1 PROVE t[i + 1] \in graph[t[i]]
  <2>1. i \in 1 .. n
    <3> HIDE DEF n
    <3> QED BY <1>3
  <2>2. CASE i = n
    BY <1>2, <2>1, <2>2
  <2>3. CASE i # n
    <3>1. i \in 1 .. n - 1 /\ i + 1 \in 1 .. n
      <4> HIDE DEF n
      <4> QED BY <1>3, <2>1, <2>3
    <3> QED BY <1>1, <1>2, <2>1, <3>1
  <2> QED BY <2>2, <2>3
<1>5. Chain(t)
  BY <1>2, <1>4 DEF Chain
<1> QED BY <1>2, <1>3, <1>5 DEF t

\* A part of a chain.
LEMMA PartOfChain ==
  ASSUME NEW s, Chain(s), NEW a \in 1 .. Len(s), NEW b \in 1 .. Len(s), a <= b
  PROVE  /\ Chain(SubSeq(s, a, b)) /\ Len(SubSeq(s, a, b)) = b - a + 1
         /\ \A i \in 1 .. b - a + 1 : SubSeq(s, a, b)[i] = s[a + i - 1]
         /\ SubSeq(s, a, b)[1] = s[a] /\ SubSeq(s, a, b)[b - a + 1] = s[b]
<1> DEFINE t == SubSeq(s, a, b)
           n == Len(s)
<1>1. s \in Seq(DOMAIN graph) /\ \A i \in 1 .. n - 1 : s[i + 1] \in graph[s[i]]
  BY DEF Chain
<1>2. n \in Nat /\ \A i \in 1 .. n : s[i] \in DOMAIN graph
  BY ChainIs
<1>3. a \in Int /\ b \in Int /\ a <= b /\ 1 <= a /\ b <= n /\ n \in Nat
  <2>1. n \in Nat /\ a \in 1 .. n /\ b \in 1 .. n
    BY <1>2
  <2> HIDE DEF n
  <2> QED BY <2>1
<1>4. \A i \in a .. b : s[i] \in DOMAIN graph
  <2>1. \A i \in a .. b : i \in 1 .. n
    <3> HIDE DEF n
    <3> QED BY <1>3
  <2> QED BY <1>2, <2>1
<1>5. /\ t \in Seq(DOMAIN graph) /\ Len(t) = b - a + 1
      /\ \A i \in 1 .. b - a + 1 : t[i] = s[a + i - 1]
  BY <1>3, <1>4, SubSeqProperties
<1> HIDE DEF t, n
<1>6. ASSUME NEW i \in 1 .. (b - a + 1) - 1 PROVE t[i + 1] \in graph[t[i]]
  <2>1. /\ i \in 1 .. b - a + 1 /\ i + 1 \in 1 .. b - a + 1
        /\ a + i - 1 \in 1 .. n - 1 /\ a + (i + 1) - 1 = (a + i - 1) + 1
    BY <1>3
  <2>2. t[i] = s[a + i - 1] /\ t[i + 1] = s[(a + i - 1) + 1]
    BY <1>5, <2>1
  <2> QED BY <1>1, <2>1, <2>2
<1>7. b - a + 1 \in 1 .. b - a + 1 /\ 1 \in 1 .. b - a + 1 /\ a + 1 - 1 = a /\ a + (b - a + 1) - 1 = b
  BY <1>3
<1>8. t[1] = s[a] /\ t[b - a + 1] = s[b]
  BY <1>5, <1>7
<1>9. t # <<>>
  <2>1. Len(t) # 0
    BY <1>3, <1>5
  <2> QED BY <2>1
<1>10. Chain(t)
  BY <1>5, <1>6, <1>9 DEF Chain
<1> QED BY <1>5, <1>8, <1>10 DEF t

\* A chain is a way.
LEMMA ChainIsWay ==
  ASSUME NEW s, Chain(s)
  PROVE  To(s[1], s[Len(s)])
<1> DEFINE n == Len(s)
           T == {k \in Nat : k + 1 \in 1 .. n => To(s[1], s[k + 1])}
<1>1. n \in Nat /\ n >= 1 /\ \A i \in 1 .. n - 1 : s[i + 1] \in graph[s[i]]
  BY ChainIs DEF Chain
<1> HIDE DEF n
<1>2. 0 \in T
  BY ToSelf
<1>3. ASSUME NEW k \in T PROVE k + 1 \in T
  <2>1. ASSUME (k + 1) + 1 \in 1 .. n PROVE To(s[1], s[(k + 1) + 1])
    <3>1. k \in Nat /\ k + 1 \in 1 .. n - 1 /\ k + 1 \in 1 .. n
      BY <1>1, <2>1
    <3>2. To(s[1], s[k + 1]) /\ To(s[k + 1], s[(k + 1) + 1])
      BY <1>1, <3>1, ToNext
    <3> QED BY <3>2, ToTrans
  <2> QED BY <2>1
<1>4. T = Nat
  <2>1. T \in SUBSET Nat
    OBVIOUS
  <2> HIDE DEF T
  <2> QED BY <1>2, <1>3, <2>1, SetInduction
<1>5. n - 1 \in Nat /\ (n - 1) + 1 = n /\ n \in 1 .. n
  BY <1>1
<1>6. n - 1 \in T
  BY <1>4, <1>5
<1> QED BY <1>5, <1>6 DEF n

\* A way has a chain.
LEMMA WayIsChain ==
  ASSUME GraphIsClosed, NEW x \in DOMAIN graph, NEW y, To(x, y)
  PROVE  \E s : Chain(s) /\ s[1] = x /\ s[Len(s)] = y
<1> DEFINE T == {v \in DOMAIN graph : \E s : Chain(s) /\ s[1] = x /\ s[Len(s)] = v}
<1>1. x \in T
  <2>1. Chain(<<x>>) /\ <<x>>[1] = x /\ <<x>>[Len(<<x>>)] = x
    BY SingleChain
  <2> QED BY <2>1
<1>2. ASSUME NEW u \in T, NEW w \in graph[u] PROVE w \in T
  <2>1. PICK s : Chain(s) /\ s[1] = x /\ s[Len(s)] = u
    OBVIOUS
  <2>2. w \in DOMAIN graph
    BY DEF GraphIsClosed
  <2> DEFINE t == Append(s, w)
  <2>3. Chain(t) /\ Len(t) = Len(s) + 1 /\ t[1] = s[1] /\ t[Len(s) + 1] = w
    BY <2>1, <2>2, LongerChain
  <2> HIDE DEF t
  <2> QED BY <2>1, <2>2, <2>3
<1>3. Stable(T) /\ T \in SUBSET DOMAIN graph
  <2> HIDE DEF T
  <2>1. Stable(T)
    BY <1>2 DEF Stable
  <2> QED BY <2>1 DEF T
<1>4. y \in T
  <2> HIDE DEF T
  <2> QED BY <1>1, <1>3, ToStable
<1> QED BY <1>4

\* A function more in front.
LEMMA LaterChain ==
  ASSUME NEW s, Chain(s), NEW x \in DOMAIN graph, s[1] \in graph[x]
  PROVE  Chain(<<x>> \o s) /\ Len(<<x>> \o s) = Len(s) + 1 /\ (<<x>> \o s)[1] = x
<1> DEFINE t == <<x>> \o s
           n == Len(s)
<1>1. s \in Seq(DOMAIN graph) /\ \A i \in 1 .. n - 1 : s[i + 1] \in graph[s[i]]
  BY DEF Chain
<1>2. n \in Nat /\ n >= 1
  BY ChainIs
<1>3. <<x>> \in Seq(DOMAIN graph) /\ Len(<<x>>) = 1 /\ <<x>>[1] = x
  OBVIOUS
<1>4. /\ t \in Seq(DOMAIN graph) /\ Len(t) = 1 + n
      /\ \A i \in 1 .. 1 + n : t[i] = IF i <= 1 THEN <<x>>[i] ELSE s[i - 1]
  BY <1>1, <1>3, ConcatProperties
<1> HIDE DEF t, n
<1>5. t[1] = x /\ \A i \in 1 .. n : t[i + 1] = s[i]
  <2>1. 1 \in 1 .. 1 + n
    BY <1>2
  <2>2. ASSUME NEW i \in 1 .. n PROVE t[i + 1] = s[i]
    <3>1. i + 1 \in 1 .. 1 + n /\ ~(i + 1 <= 1) /\ (i + 1) - 1 = i
      BY <1>2
    <3> QED BY <1>4, <3>1
  <2> QED BY <1>3, <1>4, <2>1, <2>2
<1>6. ASSUME NEW i \in 1 .. (1 + n) - 1 PROVE t[i + 1] \in graph[t[i]]
  <2>1. i \in 1 .. n
    BY <1>2
  <2>2. CASE i = 1
    BY <1>5, <2>1, <2>2
  <2>3. CASE i # 1
    <3>1. i - 1 \in 1 .. n - 1 /\ i - 1 \in 1 .. n /\ (i - 1) + 1 = i
      BY <1>2, <2>1, <2>3
    <3>2. t[i] = s[i - 1] /\ t[i + 1] = s[(i - 1) + 1]
      BY <1>5, <2>1, <3>1
    <3> QED BY <1>1, <3>1, <3>2
  <2> QED BY <2>2, <2>3
<1>7. t # <<>> /\ Len(t) = n + 1
  <2>1. Len(t) = n + 1 /\ Len(t) # 0
    BY <1>2, <1>4
  <2> QED BY <2>1
<1>8. Chain(t)
  BY <1>4, <1>6, <1>7 DEF Chain
<1> QED BY <1>5, <1>7, <1>8 DEF t, n

\* What a chain has between two visits of a function is a round.
LEMMA RoundInside ==
  ASSUME NEW s, Chain(s), NEW i \in 1 .. Len(s), NEW j \in 1 .. Len(s), i < j, s[i] = s[j]
  PROVE  \E t : Round(t) /\ Len(t) = j - i
<1> DEFINE n == Len(s)
<1>1. n \in Nat /\ i \in Nat /\ j \in Nat /\ i >= 1 /\ j <= n /\ \A k \in 1 .. n - 1 : s[k + 1] \in graph[s[k]]
  <2>1. n \in Nat /\ i \in 1 .. n /\ j \in 1 .. n
    BY ChainIs
  <2>2. \A k \in 1 .. n - 1 : s[k + 1] \in graph[s[k]]
    BY DEF Chain
  <2> HIDE DEF n
  <2> QED BY <2>1, <2>2
<1> HIDE DEF n
<1> DEFINE b == j - 1
<1>2. b \in 1 .. n /\ b \in 1 .. n - 1 /\ b + 1 = j /\ i <= b /\ b - i + 1 = j - i
  BY <1>1
<1>3. b \in 1 .. Len(s)
  BY <1>2 DEF n
<1> HIDE DEF b
<1> DEFINE t == SubSeq(s, i, b)
<1>4. /\ Chain(t) /\ Len(t) = b - i + 1 /\ t[1] = s[i] /\ t[b - i + 1] = s[b]
  BY <1>2, <1>3, PartOfChain
<1>5. s[j] \in graph[s[b]]
  BY <1>1, <1>2
<1> HIDE DEF t
<1> QED BY <1>2, <1>4, <1>5 DEF Round

LEMMA LongRepeats ==
  ASSUME NEW s, Chain(s), IsFiniteSet(DOMAIN graph), Len(s) > Cardinality(DOMAIN graph)
  PROVE  \E t : Round(t) /\ Len(t) < Len(s)
<1> DEFINE n == Len(s)
<1>1. n \in Nat /\ Cardinality(DOMAIN graph) \in Nat /\ \A i \in 1 .. n : s[i] \in DOMAIN graph
  BY ChainIs, FS_CardinalityType
<1> DEFINE f == [i \in 1 .. n |-> s[i]]
<1>2. f \in [1 .. n -> DOMAIN graph]
  BY <1>1
<1>3. IsFiniteSet(1 .. n) /\ Cardinality(DOMAIN graph) < Cardinality(1 .. n)
  <2>1. n > Cardinality(DOMAIN graph)
    OBVIOUS
  <2> HIDE DEF n
  <2>4. n \in Int
    BY <1>1
  <2>2. IsFiniteSet(1 .. n) /\ Cardinality(1 .. n) = IF 1 > n THEN 0 ELSE n - 1 + 1
    BY <2>4, FS_Interval
  <2>3. Cardinality(1 .. n) = n
    BY <1>1, <2>1, <2>2
  <2> QED BY <2>1, <2>2, <2>3
<1>4. PICK i, j \in 1 .. n : i # j /\ f[i] = f[j]
  <2> HIDE DEF f
  <2> QED BY <1>2, <1>3, FS_PigeonHole
<1>5. s[i] = s[j] /\ s[j] = s[i]
  BY <1>4
<1>6. i < j \/ j < i
  <2> HIDE DEF n
  <2> QED BY <1>1, <1>4
<1>7. \E t : Round(t) /\ (Len(t) = j - i \/ Len(t) = i - j)
  <2>1. CASE i < j
    BY <1>5, <2>1, RoundInside
  <2>2. CASE j < i
    BY <1>5, <2>2, RoundInside
  <2> QED BY <1>6, <2>1, <2>2
<1>8. j - i < n /\ i - j < n
  <2> HIDE DEF n
  <2> QED BY <1>1
<1> QED BY <1>7, <1>8

LEMMA ShortRound ==
  ASSUME IsFiniteSet(DOMAIN graph), NEW r, Round(r)
  PROVE  \E t : Round(t) /\ Len(t) <= Cardinality(DOMAIN graph)
<1> DEFINE T == {n \in Nat : \E t : Round(t) /\ Len(t) = n}
<1>1. Len(r) \in T
  BY ChainIs DEF Round
<1>2. PICK n \in T : \A m \in T : n <= m
  <2>1. T \in SUBSET Nat /\ T # {}
    BY <1>1
  <2> HIDE DEF T
  <2> QED BY <2>1, Least
<1>3. PICK t : Round(t) /\ Len(t) = n
  OBVIOUS
<1>4. ASSUME Len(t) > Cardinality(DOMAIN graph) PROVE FALSE
  <2>1. Chain(t)
    BY <1>3 DEF Round
  <2>2. PICK q : Round(q) /\ Len(q) < Len(t)
    BY <1>4, <2>1, LongRepeats
  <2>3. Chain(q)
    BY <2>2 DEF Round
  <2>4. Len(q) \in Nat /\ Len(q) \in T
    BY <2>2, <2>3, ChainIs
  <2>5. n <= Len(q) /\ Len(q) < n /\ n \in Nat
    BY <1>2, <1>3, <2>2, <2>4
  <2> QED BY <2>4, <2>5
<1>5. Len(t) \in Nat /\ Cardinality(DOMAIN graph) \in Nat
  BY <1>3, FS_CardinalityType
<1> QED BY <1>3, <1>4, <1>5

\* The search tells whether calls are recursive.
LEMMA RecursiveIff ==
  ASSUME GraphIsClosed, IsFiniteSet(DOMAIN graph), answer = {Component(x) : x \in DOMAIN graph}
  PROVE  Cyclic # {} <=> \E s : Round(s)
<1>1. Cyclic # {} <=> \E b \in DOMAIN graph : b \in After(b)
  <2>1. Cyclic = {{c \in After(b) : b \in After(c)} : b \in {d \in DOMAIN graph : d \in After(d)}}
    BY CyclicAre
  <2> QED BY <2>1
<1>2. ASSUME NEW b \in DOMAIN graph, b \in After(b) PROVE \E s : Round(s)
  <2>1. PICK z \in graph[b] : To(z, b)
    BY <1>2, AfterIs
  <2>2. z \in DOMAIN graph
    BY DEF GraphIsClosed
  <2>3. PICK s : Chain(s) /\ s[1] = z /\ s[Len(s)] = b
    BY <2>1, <2>2, WayIsChain
  <2> QED BY <2>1, <2>3 DEF Round
<1>3. ASSUME NEW s, Round(s) PROVE \E b \in DOMAIN graph : b \in After(b)
  <2> DEFINE b == s[Len(s)]
             z == s[1]
  <2>1. Chain(s) /\ z \in graph[b]
    BY <1>3 DEF Round
  <2>2. b \in DOMAIN graph /\ To(z, b)
    BY <2>1, ChainIs, ChainIsWay
  <2> HIDE DEF b, z
  <2>3. b \in After(b)
    BY <2>1, <2>2, AfterIs
  <2> QED BY <2>2, <2>3
<1> QED BY <1>1, <1>2, <1>3

-----------------------------------------------------------------------------
\* The longest chain.

LEMMA GreatestIsUnique ==
  ASSUME NEW T \in SUBSET Nat, NEW g \in T, \A x \in T : x <= g
  PROVE  Greatest(T) = g
<1>1. Greatest(T) \in T /\ \A x \in T : x <= Greatest(T)
  BY GreatestIs
<1>2. Greatest(T) \in Nat /\ g \in Nat /\ g <= Greatest(T) /\ Greatest(T) <= g
  BY <1>1
<1> QED BY <1>2

Lengths(x) == {n \in Nat : \E s : Chain(s) /\ s[1] = x /\ Len(s) = n}
Height(x) == Greatest(Lengths(x))
Acyclic == \A s : ~Round(s)

LEMMA ChainsAreShort ==
  ASSUME Acyclic, IsFiniteSet(DOMAIN graph), NEW s, Chain(s)
  PROVE  Len(s) <= Cardinality(DOMAIN graph)
<1>1. Len(s) \in Nat /\ Cardinality(DOMAIN graph) \in Nat
  BY ChainIs, FS_CardinalityType
<1> QED BY <1>1, LongRepeats DEF Acyclic

LEMMA HeightIs ==
  ASSUME Acyclic, IsFiniteSet(DOMAIN graph), NEW x \in DOMAIN graph
  PROVE  /\ Height(x) \in Nat /\ 1 <= Height(x) /\ Height(x) <= Cardinality(DOMAIN graph)
         /\ \E s : Chain(s) /\ s[1] = x /\ Len(s) = Height(x)
         /\ \A s : Chain(s) /\ s[1] = x => Len(s) <= Height(x)
<1> DEFINE T == Lengths(x)
<1>1. T \in SUBSET Nat
  BY DEF Lengths
<1>2. 1 \in T
  BY SingleChain DEF Lengths
<1>3. Cardinality(DOMAIN graph) \in Nat /\ \A n \in T : n <= Cardinality(DOMAIN graph)
  BY ChainsAreShort, FS_CardinalityType DEF Lengths
<1>4. Height(x) \in T /\ \A n \in T : n <= Height(x)
  <2> HIDE DEF T
  <2>1. Greatest(T) \in T /\ \A n \in T : n <= Greatest(T)
    BY <1>1, <1>2, <1>3, GreatestIs
  <2> QED BY <2>1 DEF T, Height
<1>5. ASSUME NEW s, Chain(s), s[1] = x PROVE Len(s) \in T
  BY <1>5, ChainIs DEF Lengths
<1>6. \E s : Chain(s) /\ s[1] = x /\ Len(s) = Height(x)
  BY <1>4 DEF Lengths
<1> QED BY <1>1, <1>2, <1>3, <1>4, <1>5, <1>6

LEMMA HeightGrows ==
  ASSUME Acyclic, GraphIsClosed, IsFiniteSet(DOMAIN graph), NEW x \in DOMAIN graph
  PROVE  /\ \A g \in graph[x] : Height(g) < Height(x)
         /\ Height(x) = 1 + Greatest({0} \cup {Height(g) : g \in graph[x]})
<1> DEFINE E == {0} \cup {Height(g) : g \in graph[x]}
           K == Cardinality(DOMAIN graph)
           h == Height(x)
<1>1. \A g \in graph[x] : g \in DOMAIN graph
  BY DEF GraphIsClosed
<1>2. \A g \in graph[x] : Height(g) \in Nat /\ Height(g) <= K
  BY <1>1, HeightIs
<1>3. K \in Nat
  BY FS_CardinalityType
<1>4. E \in SUBSET Nat /\ E # {} /\ \A e \in E : e <= K
  BY <1>2, <1>3
<1>5. Greatest(E) \in E /\ \A e \in E : e <= Greatest(E)
  <2> HIDE DEF E, K
  <2> QED BY <1>3, <1>4, GreatestIs
<1>6. h \in Nat /\ 1 <= h /\ \A s : Chain(s) /\ s[1] = x => Len(s) <= h
  BY HeightIs
<1>7. ASSUME NEW g \in graph[x] PROVE Height(g) + 1 <= h
  <2>1. PICK s : Chain(s) /\ s[1] = g /\ Len(s) = Height(g)
    BY <1>1, HeightIs
  <2> DEFINE t == <<x>> \o s
  <2>2. Chain(t) /\ Len(t) = Len(s) + 1 /\ t[1] = x
    BY <2>1, LaterChain
  <2> HIDE DEF t, h
  <2> QED BY <1>6, <2>1, <2>2
<1>8. h <= 1 + Greatest(E)
  <2>1. PICK s : Chain(s) /\ s[1] = x /\ Len(s) = h
    BY HeightIs
  <2>2. Greatest(E) \in Nat /\ 0 <= Greatest(E)
    BY <1>4, <1>5
  <2>3. CASE h = 1
    BY <2>2, <2>3
  <2>4. CASE h # 1
    <3> HIDE DEF h, E
    <3>1. 2 \in 1 .. h /\ h \in 1 .. h /\ 2 <= h /\ h - 2 + 1 = h - 1 /\ 1 \in 1 .. h - 1
      BY <1>6, <2>4
    <3>2. 2 \in 1 .. Len(s) /\ h \in 1 .. Len(s)
      BY <2>1, <3>1
    <3> DEFINE t == SubSeq(s, 2, h)
    <3>3. Chain(t) /\ Len(t) = h - 2 + 1 /\ t[1] = s[2]
      BY <2>1, <3>1, <3>2, PartOfChain
    <3>4. s[1 + 1] \in graph[s[1]]
      BY <2>1, <3>1 DEF Chain
    <3>5. s[2] \in graph[x]
      BY <2>1, <3>4
    <3> HIDE DEF t
    <3>6. Len(t) <= Height(s[2]) /\ Height(s[2]) \in Nat
      BY <1>1, <3>3, <3>5, HeightIs
    <3>7. Height(s[2]) <= Greatest(E)
      BY <1>5, <3>5 DEF E
    <3> QED BY <1>6, <2>2, <3>1, <3>3, <3>6, <3>7
  <2> QED BY <2>3, <2>4
<1>9. 1 + Greatest(E) <= h
  <2>1. CASE Greatest(E) = 0
    BY <1>6, <2>1
  <2>2. CASE Greatest(E) # 0
    <3>1. PICK g \in graph[x] : Greatest(E) = Height(g)
      BY <1>5, <2>2
    <3>2. Height(g) + 1 <= h /\ Height(g) \in Nat
      BY <1>2, <1>7
    <3> HIDE DEF E, h
    <3> QED BY <1>6, <3>1, <3>2
  <2> QED BY <2>1, <2>2
<1>10. \A g \in graph[x] : Height(g) < h
  <2> HIDE DEF h
  <2> QED BY <1>2, <1>6, <1>7
<1>11. h = 1 + Greatest(E)
  <2>1. Greatest(E) \in Nat
    BY <1>4, <1>5
  <2> HIDE DEF h, E
  <2> QED BY <1>6, <1>8, <1>9, <2>1
<1> QED BY <1>10, <1>11

\* What Longest computes for a function.
Below == CHOOSE w : w = [f \in DOMAIN graph |-> 1 + Greatest({0} \cup {w[g] : g \in graph[f]})]

LEMMA BelowIsHeight ==
  ASSUME Acyclic, GraphIsClosed, IsFiniteSet(DOMAIN graph)
  PROVE  \A x \in DOMAIN graph : Below[x] = Height(x)
<1> DEFINE Solves(w) == w = [f \in DOMAIN graph |-> 1 + Greatest({0} \cup {w[g] : g \in graph[f]})]
<1>1. \A x \in DOMAIN graph : graph[x] \subseteq DOMAIN graph
  BY DEF GraphIsClosed
<1>2. \E w : Solves(w)
  <2> DEFINE w == [f \in DOMAIN graph |-> Height(f)]
  <2>1. ASSUME NEW f \in DOMAIN graph PROVE w[f] = 1 + Greatest({0} \cup {w[g] : g \in graph[f]})
    <3>1. {w[g] : g \in graph[f]} = {Height(g) : g \in graph[f]}
      BY <1>1
    <3>2. w[f] = Height(f) /\ Height(f) = 1 + Greatest({0} \cup {Height(g) : g \in graph[f]})
      BY HeightGrows
    <3> QED BY <3>1, <3>2
  <2>2. w = [f \in DOMAIN graph |-> w[f]]
    OBVIOUS
  <2> HIDE DEF w
  <2>3. Solves(w)
    BY <2>1, <2>2
  <2> QED BY <2>3
<1>3. Solves(Below)
  BY <1>2 DEF Below
<1> DEFINE T == {n \in Nat : \A x \in DOMAIN graph : Height(x) <= n => Below[x] = Height(x)}
<1>4. 0 \in T
  <2>1. ASSUME NEW x \in DOMAIN graph PROVE ~(Height(x) <= 0)
    <3>1. Height(x) \in Nat /\ 1 <= Height(x)
      BY HeightIs
    <3> QED BY <3>1
  <2> QED BY <2>1
<1>5. ASSUME NEW n \in T PROVE n + 1 \in T
  <2>1. ASSUME NEW x \in DOMAIN graph, Height(x) <= n + 1 PROVE Below[x] = Height(x)
    <3>1. ASSUME NEW g \in graph[x] PROVE Below[g] = Height(g)
      <4>1. /\ g \in DOMAIN graph /\ Height(g) < Height(x)
            /\ Height(g) \in Nat /\ Height(x) \in Nat
        BY <1>1, HeightGrows, HeightIs
      <4>2. n \in Nat
        OBVIOUS
      <4>3. Height(g) <= n
        BY <2>1, <4>1, <4>2
      <4> QED BY <4>1, <4>3
    <3>2. {Below[g] : g \in graph[x]} = {Height(g) : g \in graph[x]}
      BY <3>1
    <3>3. Below[x] = 1 + Greatest({0} \cup {Below[g] : g \in graph[x]})
      BY <1>3
    <3>4. Height(x) = 1 + Greatest({0} \cup {Height(g) : g \in graph[x]})
      BY HeightGrows
    <3> QED BY <3>2, <3>3, <3>4
  <2>2. n + 1 \in Nat
    OBVIOUS
  <2> QED BY <2>1, <2>2
<1>6. T = Nat
  <2>1. T \in SUBSET Nat
    OBVIOUS
  <2> HIDE DEF T
  <2> QED BY <1>4, <1>5, <2>1, SetInduction
<1> SUFFICES ASSUME NEW x \in DOMAIN graph PROVE Below[x] = Height(x)
  OBVIOUS
<1>7. Height(x) \in T /\ Height(x) \in Nat /\ Height(x) <= Height(x)
  BY <1>6, HeightIs
<1> QED BY <1>7

LEMMA LongestIs ==
  ASSUME Acyclic, GraphIsClosed, IsFiniteSet(DOMAIN graph), DOMAIN graph # {}
  PROVE  /\ \E s : Chain(s) /\ Len(s) = Longest
         /\ \A s : Chain(s) => Len(s) <= Longest
         /\ Longest \in Nat
<1> DEFINE E == {0} \cup {Height(f) : f \in DOMAIN graph}
           K == Cardinality(DOMAIN graph)
<1>1. Longest = Greatest({0} \cup {Below[f] : f \in DOMAIN graph})
  BY DEF Longest, Below
<1>2. {Below[f] : f \in DOMAIN graph} = {Height(f) : f \in DOMAIN graph}
  BY BelowIsHeight
<1>3. Longest = Greatest(E)
  BY <1>1, <1>2
<1>4. \A f \in DOMAIN graph : Height(f) \in Nat /\ 1 <= Height(f) /\ Height(f) <= K
  BY HeightIs
<1>5. K \in Nat
  BY FS_CardinalityType
<1>6. E \in SUBSET Nat /\ E # {} /\ \A e \in E : e <= K
  BY <1>4, <1>5
<1>7. Longest \in E /\ \A e \in E : e <= Longest
  <2> HIDE DEF E, K
  <2> QED BY <1>3, <1>5, <1>6, GreatestIs
<1>8. Longest # 0
  <2>1. PICK f \in DOMAIN graph : TRUE
    OBVIOUS
  <2>2. Height(f) <= Longest /\ 1 <= Height(f) /\ Height(f) \in Nat
    BY <1>4, <1>7
  <2> QED BY <2>2
<1>9. PICK f \in DOMAIN graph : Longest = Height(f)
  BY <1>7, <1>8
<1>10. \E s : Chain(s) /\ Len(s) = Longest
  BY <1>9, HeightIs
<1>11. ASSUME NEW s, Chain(s) PROVE Len(s) <= Longest
  <2>1. s[1] \in DOMAIN graph
    BY <1>11, ChainIs
  <2>2. Len(s) <= Height(s[1]) /\ Height(s[1]) \in Nat /\ Height(s[1]) <= Longest
    BY <1>4, <1>7, <1>11, <2>1, HeightIs
  <2>3. Len(s) \in Nat /\ Longest \in Nat
    BY <1>6, <1>7, <1>11, ChainIs
  <2> QED BY <2>2, <2>3
<1> QED BY <1>6, <1>7, <1>10, <1>11

-----------------------------------------------------------------------------
\* The functions that call one another.

\* What the search for components starts from.
Analysed ==
  /\ Partitioned
  /\ cfg = [b \in leaders |-> SuccessorsOf(b)] /\ calls = [b \in leaders |-> CallsOf(b)]
  /\ seen \subseteq leaders /\ Start(Entry) \in seen
  /\ \A b \in seen : cfg[b] \subseteq seen

\* A call is the last instruction of its block, and its target is reached.
LEMMA CallIsLast ==
  ASSUME Analysed, NEW b \in seen, NEW p \in Block(b), code[p].kind = "call"
  PROVE  p = LastOf(b) /\ code[p].to \in seen /\ calls[b] = {code[p].to}
<1>1. /\ Partitioned /\ b \in leaders /\ p \in Addresses /\ Containing(p) = b
      /\ cfg[b] = SuccessorsOf(b) /\ calls[b] = CallsOf(b) /\ cfg[b] \subseteq seen
  BY DEF Analysed, Block
<1>2. code[p].to \in leaders
  <2>1. code[p].to \in Functions[FunctionOf(p)] \cup {Start(f) : f \in DOMAIN Functions}
    BY <1>1, JumpsToEntries DEF Partitioned
  <2> QED BY <1>1, <2>1, LeadersAre
<1>3. p = LastOf(b)
  <2> SUFFICES ASSUME p # LastOf(b) PROVE FALSE
    OBVIOUS
  <2>1. p + 1 \in Block(b) /\ p + 1 \notin leaders
    BY <1>1, BlockIs
  <2>2. p + 1 \in Addresses
    BY <2>1 DEF Block
  <2>3. Taken(p) = {p + 1}
    BY <1>1, <2>1, <2>2, NextIs
  <2>4. code[p].to \in Taken(p)
    BY DEF Taken, Follow
  <2> QED BY <1>2, <2>1, <2>3, <2>4
<1>4. Destination(p) = {code[p].to}
  BY <1>2 DEF Destination
<1>5. CallsOf(b) = {code[p].to} /\ code[p].to \in SuccessorsOf(b)
  BY <1>3, <1>4 DEF CallsOf, SuccessorsOf
<1> QED BY <1>1, <1>3, <1>5

LEMMA CallGraphIs ==
  ASSUME Analysed
  PROVE  /\ DOMAIN CallGraph = {FunctionOf(b) : b \in seen} /\ DOMAIN CallGraph # {}
         /\ DOMAIN CallGraph \subseteq DOMAIN Functions /\ IsFiniteSet(DOMAIN CallGraph)
         /\ Cardinality(DOMAIN CallGraph) <= Cardinality(DOMAIN Functions)
         /\ \A f, g : f \in DOMAIN CallGraph /\ g \in CallGraph[f] <=>
              /\ f # g
              /\ \E b, c \in seen : c \in calls[b] /\ f = FunctionOf(b) /\ g = FunctionOf(c)
<1>1. DOMAIN CallGraph = {FunctionOf(b) : b \in seen}
  BY DEF CallGraph
<1>2. seen \subseteq Addresses /\ Start(Entry) \in seen
  BY LeadersAre DEF Analysed
<1>3. DOMAIN CallGraph \in SUBSET DOMAIN Functions
  BY <1>1, <1>2, FunctionIs
<1>4. IsFiniteSet(DOMAIN CallGraph) /\ Cardinality(DOMAIN CallGraph) <= Cardinality(DOMAIN Functions)
  BY <1>3, IntervalFunctions, FS_Subset
<1>5. \A f \in DOMAIN CallGraph : CallGraph[f] =
        {FunctionOf(c) : c \in UNION {calls[b] \cap seen : b \in {d \in seen : FunctionOf(d) = f}}} \ {f}
  BY <1>1 DEF CallGraph
<1>6. ASSUME NEW f, NEW g, f \in DOMAIN CallGraph, g \in CallGraph[f]
      PROVE  f # g /\ \E b, c \in seen : c \in calls[b] /\ f = FunctionOf(b) /\ g = FunctionOf(c)
  BY <1>5, <1>6
<1>7. ASSUME NEW f, NEW g, f # g, NEW b \in seen, NEW c \in seen, c \in calls[b],
             f = FunctionOf(b), g = FunctionOf(c)
      PROVE  f \in DOMAIN CallGraph /\ g \in CallGraph[f]
  <2>1. f \in DOMAIN CallGraph
    BY <1>1, <1>7
  <2>2. c \in UNION {calls[d] \cap seen : d \in {d \in seen : FunctionOf(d) = f}}
    BY <1>7
  <2> QED BY <1>5, <1>7, <2>1, <2>2
<1> QED BY <1>1, <1>2, <1>3, <1>4, <1>6, <1>7

LEMMA CallersAre ==
  ASSUME Analysed
  PROVE  \A f, g : <<f, g>> \in Callers <=> f \in DOMAIN CallGraph /\ g \in CallGraph[f]
<1>1. Partitioned /\ seen \subseteq leaders /\ seen \subseteq Addresses
  BY LeadersAre DEF Analysed
<1>2. ASSUME NEW f, NEW g, <<f, g>> \in Callers
      PROVE  f # g /\ \E b, c \in seen : c \in calls[b] /\ f = FunctionOf(b) /\ g = FunctionOf(c)
  <2>1. PICK p \in ReachedInsns :
          code[p].kind = "call" /\ f = FunctionOf(p) /\ g = FunctionOf(code[p].to)
    BY <1>2 DEF Callers
  <2>2. PICK b \in seen : p \in Block(b)
    BY DEF ReachedInsns
  <2>3. p \in Addresses /\ Containing(p) = b
    BY <2>2 DEF Block
  <2>4. FunctionOf(b) = f /\ f \in DOMAIN Functions
    BY <1>1, <2>1, <2>3, ContainingIs, FunctionIs
  <2>5. code[p].to \in seen /\ calls[b] = {code[p].to}
    BY <2>1, <2>2, CallIsLast
  <2>6. f # g
    BY <1>2, <2>4 DEF Callers
  <2> QED BY <2>1, <2>4, <2>5, <2>6
<1>3. ASSUME NEW f, NEW g, f # g, NEW b \in seen, NEW c \in seen, c \in calls[b],
             f = FunctionOf(b), g = FunctionOf(c)
      PROVE  <<f, g>> \in Callers
  <2>1. b \in leaders /\ calls[b] = CallsOf(b)
    BY DEF Analysed
  <2> DEFINE p == LastOf(b)
  <2>2. code[p].kind = "call" /\ c = code[p].to
    BY <1>3, <2>1 DEF CallsOf, Destination
  <2>3. p \in Block(b) /\ p \in Addresses /\ Containing(p) = b
    BY <1>1, <2>1, BlockIs DEF Block
  <2>4. FunctionOf(p) = f /\ p \in ReachedInsns
    BY <1>1, <1>3, <2>3, ContainingIs DEF ReachedInsns
  <2> HIDE DEF p
  <2> QED BY <1>3, <2>2, <2>4 DEF Callers
<1> SUFFICES ASSUME NEW f, NEW g
             PROVE  <<f, g>> \in Callers <=> f \in DOMAIN CallGraph /\ g \in CallGraph[f]
  OBVIOUS
<1> DEFINE Linked ==
      f # g /\ \E b, c \in seen : c \in calls[b] /\ f = FunctionOf(b) /\ g = FunctionOf(c)
<1>4. f \in DOMAIN CallGraph /\ g \in CallGraph[f] <=> Linked
  BY CallGraphIs
<1>5. <<f, g>> \in Callers => Linked
  BY <1>2
<1>6. Linked => <<f, g>> \in Callers
  BY <1>3
<1> HIDE DEF Linked
<1> QED BY <1>4, <1>5, <1>6

LEMMA ChainsAre ==
  ASSUME Analysed, graph = CallGraph
  PROVE  \A s : s \in Chains <=> Chain(s) /\ Len(s) <= Cardinality(DOMAIN Functions)
<1> DEFINE V == {FunctionOf(b) : b \in seen}
           K == Cardinality(DOMAIN Functions)
<1>1. DOMAIN graph = V /\ K \in Nat
  BY CallGraphIs, IntervalFunctions, FS_CardinalityType
<1>2. \A f, g : <<f, g>> \in Callers <=> f \in DOMAIN graph /\ g \in graph[f]
  BY CallersAre
<1>3. \A s : s \in Chains <=>
        /\ \E n \in 1 .. K : s \in [1 .. n -> V]
        /\ \A i \in 1 .. Len(s) - 1 : <<s[i], s[i + 1]>> \in Callers
  BY DEF Chains
<1> HIDE DEF V, K
<1>4. ASSUME NEW s, NEW n \in 1 .. K, s \in [1 .. n -> V],
             \A i \in 1 .. Len(s) - 1 : <<s[i], s[i + 1]>> \in Callers
      PROVE  Chain(s) /\ Len(s) <= K
  <2>1. n \in Nat /\ n <= K /\ n # 0
    BY <1>1
  <2>2. s \in Seq(DOMAIN graph) /\ Len(s) = n
    BY <1>1, <1>4, <2>1
  <2>3. s # <<>>
    BY <2>1, <2>2
  <2> QED BY <1>2, <1>4, <2>1, <2>2, <2>3 DEF Chain
<1>5. ASSUME NEW s, Chain(s), Len(s) <= K
      PROVE  /\ \E n \in 1 .. K : s \in [1 .. n -> V]
             /\ \A i \in 1 .. Len(s) - 1 : <<s[i], s[i + 1]>> \in Callers
  <2> DEFINE n == Len(s)
  <2>1. n \in Nat /\ n >= 1 /\ \A i \in 1 .. n : s[i] \in DOMAIN graph
    BY <1>5, ChainIs
  <2>2. s \in Seq(V) /\ \A i \in 1 .. n - 1 : s[i + 1] \in graph[s[i]]
    BY <1>1, <1>5 DEF Chain
  <2>3. s \in [1 .. n -> V]
    BY <2>2
  <2>4. n <= K
    BY <1>5
  <2> HIDE DEF n
  <2>5. n \in 1 .. K /\ \A i \in 1 .. n - 1 : i \in 1 .. n
    BY <1>1, <2>1, <2>4
  <2> QED BY <1>2, <2>1, <2>2, <2>3, <2>5 DEF n
<1> QED BY <1>3, <1>4, <1>5 DEF K

\* What the search for recursion ends with.
LEMMA DepthIs ==
  ASSUME Analysed, graph = CallGraph, GraphIsClosed, answer = {Component(x) : x \in DOMAIN graph}
  PROVE  LET recursive == \E s \in Chains : <<s[Len(s)], s[1]>> \in Callers
         IN (IF Cyclic = {} THEN Longest ELSE 0)
              = IF recursive THEN 0 ELSE Greatest({Len(s) : s \in Chains})
<1> DEFINE recursive == \E s \in Chains : <<s[Len(s)], s[1]>> \in Callers
           K == Cardinality(DOMAIN Functions)
           N == Cardinality(DOMAIN graph)
<1>1. IsFiniteSet(DOMAIN graph) /\ DOMAIN graph # {} /\ N <= K
  BY CallGraphIs
<1>2. N \in Nat /\ K \in Nat
  BY <1>1, IntervalFunctions, FS_CardinalityType
<1>3. \A s : s \in Chains <=> Chain(s) /\ Len(s) <= K
  BY ChainsAre
<1>4. ASSUME NEW s, Chain(s)
      PROVE  <<s[Len(s)], s[1]>> \in Callers <=> s[1] \in graph[s[Len(s)]]
  BY <1>4, ChainIs, CallersAre
<1>5. Cyclic # {} <=> \E s : Round(s)
  BY <1>1, RecursiveIff
<1>6. recursive <=> \E s : Round(s)
  <2>1. ASSUME NEW s \in Chains, <<s[Len(s)], s[1]>> \in Callers PROVE Round(s)
    BY <1>3, <1>4, <2>1 DEF Round
  <2>2. ASSUME NEW r, Round(r) PROVE recursive
    <3>1. PICK t : Round(t) /\ Len(t) <= N
      BY <1>1, <2>2, ShortRound
    <3>2. Chain(t) /\ t[1] \in graph[t[Len(t)]]
      BY <3>1 DEF Round
    <3>3. Len(t) \in Nat
      BY <3>2, ChainIs
    <3>4. Len(t) <= K
      BY <1>1, <1>2, <3>1, <3>3
    <3> QED BY <1>3, <1>4, <3>2, <3>4
  <2> QED BY <2>1, <2>2
<1>7. ASSUME Acyclic PROVE Longest = Greatest({Len(s) : s \in Chains})
  <2> DEFINE T == {Len(s) : s \in Chains}
  <2>1. /\ Longest \in Nat /\ \A s : Chain(s) => Len(s) <= Longest
        /\ \E s : Chain(s) /\ Len(s) = Longest
    BY <1>1, <1>7, LongestIs
  <2>2. PICK s : Chain(s) /\ Len(s) = Longest
    BY <2>1
  <2>3. Longest <= K
    <3>1. Len(s) <= N
      BY <1>1, <1>7, <2>2, ChainsAreShort
    <3> QED BY <1>1, <1>2, <2>1, <2>2, <3>1
  <2>4. Longest \in T
    BY <1>3, <2>2, <2>3
  <2>5. T \in SUBSET Nat /\ \A x \in T : x <= Longest
    BY <1>3, <2>1, ChainIs
  <2> HIDE DEF T
  <2>6. Greatest(T) = Longest
    BY <2>4, <2>5, GreatestIsUnique
  <2> QED BY <2>6 DEF T
<1>8. CASE \E s : Round(s)
  BY <1>5, <1>6, <1>8
<1>9. CASE Acyclic
  <2>1. ~recursive /\ Cyclic = {}
    BY <1>5, <1>6, <1>9 DEF Acyclic
  <2> QED BY <1>7, <1>9, <2>1
<1> QED BY <1>8, <1>9 DEF Acyclic

-----------------------------------------------------------------------------
\* The two searches.

Local == [b \in seen |-> {c \in cfg[b] : FunctionOf(c) = FunctionOf(b)}]
Loops ==
  LET after(b) == ReachedFrom(Local[b], Local, seen)
  IN {{c \in after(b) : b \in after(c)} : b \in {d \in seen : d \in after(d)}}
Depth ==
  LET recursive == \E s \in Chains : <<s[Len(s)], s[1]>> \in Callers
  IN IF recursive THEN 0 ELSE Greatest({Len(s) : s \in Chains})

NoSearch == index = <<>> /\ low = <<>> /\ stack = <<>> /\ path = <<>> /\ answer = {}

LoopsInv ==
  /\ phase \in {"partition", "graph", "reach"} => NoSearch
  /\ phase = "reach" => calls = [b \in leaders |-> CallsOf(b)]
  /\ phase \in {"loops", "depth", "done"} => Analysed
  /\ phase = "loops" => graph = Local /\ SearchInv
  /\ phase = "depth" => graph = CallGraph /\ SearchInv
  /\ phase \in {"depth", "done"} => loops = Loops
  /\ phase = "done" => depth = Depth

LEMMA LoopsAre ==
  ASSUME Analysed, graph = Local, GraphIsClosed, answer = {Component(x) : x \in DOMAIN graph}
  PROVE  Cyclic = Loops
<1>1. DOMAIN graph = seen /\ IsFiniteSet(DOMAIN graph)
  <2>1. DOMAIN graph = seen
    BY DEF Local
  <2>2. seen \in SUBSET Addresses
    BY LeadersAre DEF Analysed
  <2> QED BY <2>1, <2>2, AddressesFinite, FS_Subset
<1>2. Cyclic = {{c \in After(b) : b \in After(c)} : b \in {d \in DOMAIN graph : d \in After(d)}}
  BY <1>1, CyclicAre
<1>3. Loops = {{c \in After(b) : b \in After(c)} : b \in {d \in seen : d \in After(d)}}
  BY <1>1 DEF Loops, After
<1> QED BY <1>1, <1>2, <1>3

LEMMA LocalIsClosed == Analysed /\ graph = Local => GraphIsClosed
BY DEF Analysed, Local, GraphIsClosed

LEMMA CallsAreClosed == Analysed /\ graph = CallGraph => GraphIsClosed
<1> SUFFICES ASSUME Analysed, graph = CallGraph, NEW f \in DOMAIN graph, NEW g \in graph[f]
             PROVE  g \in DOMAIN graph
  BY DEF GraphIsClosed
<1>1. PICK c \in seen : g = FunctionOf(c)
  BY CallGraphIs
<1> QED BY <1>1, CallGraphIs

LEMMA FirstSearch == GraphIsClosed /\ NoSearch => SearchInv
BY SearchBegins DEF NoSearch

\* What was found out before does not change while the search goes on.
LEMMA SameAnalysis ==
  ASSUME UNCHANGED <<code, leaders, cfg, calls, seen>>
  PROVE  /\ Analysed' <=> Analysed
         /\ Local' = Local /\ CallGraph' = CallGraph
         /\ Loops' = Loops /\ Depth' = Depth
<1>1. \A b : Block(b)' = Block(b) /\ LastOf(b)' = LastOf(b)
  BY DEF LastOf, Block, Containing
<1>2. \A b : SuccessorsOf(b)' = SuccessorsOf(b) /\ CallsOf(b)' = CallsOf(b)
  BY DEF SuccessorsOf, CallsOf, LastOf, Block, Containing, Destination, Fallthrough
<1>3. Partitioned' <=> Partitioned
  BY DEF Partitioned, Leaders, EndsBlock
<1>4. Analysed' <=> Analysed
  BY <1>2, <1>3 DEF Analysed
<1>5. Local' = Local /\ CallGraph' = CallGraph
  BY DEF Local, CallGraph
<1>6. Loops' = Loops
  BY <1>5 DEF Loops
<1>7. Callers' = Callers
  BY <1>1 DEF Callers, ReachedInsns
<1>8. Chains' = Chains
  BY <1>7 DEF Chains
<1>9. Depth' = Depth
  BY <1>7, <1>8 DEF Depth
<1> QED BY <1>4, <1>5, <1>6, <1>9

LEMMA SameSearch ==
  ASSUME UNCHANGED <<graph, index, low, stack, path, answer>>
  PROVE  SearchInv' <=> SearchInv
<1>1. (NumbersInv /\ StackInv /\ GraphIsClosed)' <=> (NumbersInv /\ StackInv /\ GraphIsClosed)
  BY DEF NumbersInv, StackInv, GraphIsClosed
<1>2. Active' = Active /\ OnPath' = OnPath
  BY DEF Active, OnPath, At
<1>3. PathInv' <=> PathInv
  BY <1>2 DEF PathInv, At
<1>4. \A x, z : Dealt(x, z)' <=> Dealt(x, z)
  BY DEF Dealt, At
<1>5. \A x, y : To(x, y)' <=> To(x, y)
  BY SameWays
<1>6. PlacesInv' <=> PlacesInv
  <2>1. \A x : Component(x)' = Component(x)
    BY SameWays
  <2>2. Stable(UNION answer)' <=> Stable(UNION answer)
    BY DEF Stable
  <2> QED BY <1>2, <1>4, <2>1, <2>2 DEF PlacesInv
<1>7. WaysInv' <=> WaysInv
  BY <1>2, <1>5 DEF WaysInv, At
<1>8. LowInv' <=> LowInv
  BY <1>2, <1>4, <1>5 DEF LowInv, Owns, At
<1> QED BY <1>1, <1>3, <1>6, <1>7, <1>8 DEF SearchInv

LEMMA LoopsInitially == FlowInit => LoopsInv
BY DEF FlowInit, NoAnalysis, LoopsInv, NoSearch

LEMMA LoopsBegin == FlowInv /\ LoopsInv /\ BeginLoops => LoopsInv'
<1> SUFFICES ASSUME FlowInv, LoopsInv, BeginLoops PROVE LoopsInv'
  OBVIOUS
<1>1. /\ UNCHANGED <<code, leaders, cfg, calls, seen>> /\ UNCHANGED searchVars
      /\ phase = "reach" /\ todo = {} /\ phase' = "loops" /\ graph' = Local
  BY DEF BeginLoops, Reached, graphVars, reachVars, Local
<1>2. Analysed
  BY <1>1 DEF FlowInv, LoopsInv, Analysed, Partitioned
<1>3. Analysed' /\ Local' = Local
  BY <1>1, <1>2, SameAnalysis
<1>4. NoSearch'
  BY <1>1 DEF LoopsInv, NoSearch, searchVars
<1>5. (Analysed /\ graph = Local)'
  BY <1>1, <1>3
<1>6. SearchInv'
  <2>1. GraphIsClosed'
    BY <1>5, LocalIsClosed, PTL
  <2> QED BY <1>4, <2>1, FirstSearch, PTL
<1> QED BY <1>1, <1>3, <1>5, <1>6 DEF LoopsInv

LEMMA DepthBegins == FlowInv /\ LoopsInv /\ BeginDepth => LoopsInv'
<1> SUFFICES ASSUME FlowInv, LoopsInv, BeginDepth PROVE LoopsInv'
  OBVIOUS
<1>1. /\ UNCHANGED <<code, leaders, cfg, calls, seen>> /\ NoSearch'
      /\ phase = "loops" /\ phase' = "depth" /\ graph' = CallGraph /\ loops' = Cyclic
      /\ path = <<>> /\ DOMAIN graph = DOMAIN index
  BY DEF BeginDepth, Searched, graphVars, reachVars, NoSearch
<1>2. Analysed /\ graph = Local /\ SearchInv
  BY <1>1 DEF LoopsInv
<1>3. Cyclic = Loops
  BY <1>1, <1>2, SearchEnds, LoopsAre DEF SearchInv
<1>4. Analysed' /\ CallGraph' = CallGraph /\ Loops' = Loops
  BY <1>1, <1>2, SameAnalysis
<1>5. (Analysed /\ graph = CallGraph)'
  BY <1>1, <1>4
<1>6. SearchInv'
  <2>1. GraphIsClosed'
    BY <1>5, CallsAreClosed, PTL
  <2> QED BY <1>1, <2>1, FirstSearch, PTL
<1> QED BY <1>1, <1>3, <1>4, <1>5, <1>6 DEF LoopsInv

LEMMA DepthEnds == FlowInv /\ LoopsInv /\ EndDepth => LoopsInv'
<1> SUFFICES ASSUME FlowInv, LoopsInv, EndDepth PROVE LoopsInv'
  OBVIOUS
<1>1. /\ UNCHANGED <<code, leaders, cfg, calls, seen>> /\ loops' = loops
      /\ phase = "depth" /\ phase' = "done" /\ depth' = IF Cyclic = {} THEN Longest ELSE 0
      /\ path = <<>> /\ DOMAIN graph = DOMAIN index
  BY DEF EndDepth, Searched, graphVars, reachVars
<1>2. Analysed /\ graph = CallGraph /\ SearchInv /\ loops = Loops
  BY <1>1 DEF LoopsInv
<1>3. depth' = Depth
  <2>1. answer = {Component(x) : x \in DOMAIN graph}
    BY <1>1, <1>2, SearchEnds
  <2>2. (IF Cyclic = {} THEN Longest ELSE 0) = Depth
    BY <1>2, <2>1, DepthIs DEF SearchInv, Depth
  <2> QED BY <1>1, <2>2
<1>4. Analysed' /\ Depth' = Depth /\ Loops' = Loops
  BY <1>1, <1>2, SameAnalysis
<1> QED BY <1>1, <1>2, <1>3, <1>4 DEF LoopsInv

\* A step of the search.
LEMMA SearchStep ==
  ASSUME LoopsInv, Searching, SearchInv => SearchInv',
         UNCHANGED <<code, phase, graphVars, reachVars, graph, loops, depth>>
  PROVE  LoopsInv'
<1>1. /\ UNCHANGED <<code, leaders, cfg, calls, seen>> /\ phase \in {"loops", "depth"}
      /\ phase' = phase /\ graph' = graph /\ loops' = loops
  BY DEF graphVars, reachVars, Searching
<1>2. /\ Analysed' <=> Analysed
      /\ Local' = Local /\ CallGraph' = CallGraph /\ Loops' = Loops
  BY <1>1, SameAnalysis
<1> QED BY <1>1, <1>2 DEF LoopsInv

LEMMA LoopsKept == FlowInv /\ LoopsInv /\ [FlowNext]_flowVars => LoopsInv'
<1> SUFFICES ASSUME FlowInv, LoopsInv, [FlowNext]_flowVars PROVE LoopsInv'
  OBVIOUS
<1>1. CASE Partition
  <2>1. UNCHANGED searchVars /\ phase = "partition" /\ phase' = "graph"
    BY <1>1 DEF Partition
  <2> QED BY <2>1 DEF LoopsInv, NoSearch, searchVars
<1>2. CASE MakeGraph
  <2>1. /\ UNCHANGED searchVars /\ UNCHANGED <<code, leaders>> /\ phase = "graph"
        /\ phase' = "reach" /\ calls' = [b \in leaders |-> CallsOf(b)]
    BY <1>2 DEF MakeGraph
  <2>2. \A b : CallsOf(b)' = CallsOf(b)
    BY <2>1 DEF CallsOf, LastOf, Block, Containing, Destination
  <2> QED BY <2>1, <2>2 DEF LoopsInv, NoSearch, searchVars
<1>3. CASE \E b \in Addresses : Reach(b)
  <2>1. /\ UNCHANGED searchVars /\ UNCHANGED <<code, leaders, calls>> /\ phase = "reach"
        /\ phase' = "reach"
    BY <1>3 DEF Reach, graphVars
  <2>2. \A b : CallsOf(b)' = CallsOf(b)
    BY <2>1 DEF CallsOf, LastOf, Block, Containing, Destination
  <2> QED BY <2>1, <2>2 DEF LoopsInv, NoSearch, searchVars
<1>4. CASE BeginLoops
  BY <1>4, LoopsBegin
<1>5. CASE \E n \in DOMAIN graph : VisitRoot(n) \/ VisitNext(n) \/ SeenBefore(n)
  <2>1. PICK n \in DOMAIN graph : VisitRoot(n) \/ VisitNext(n) \/ SeenBefore(n)
    BY <1>5
  <2>2. SearchInv => SearchInv'
    BY <2>1, VisitRootKept, VisitNextKept, SeenBeforeKept
  <2>3. Searching /\ UNCHANGED <<code, phase, graphVars, reachVars, graph, loops, depth>>
    BY <2>1 DEF VisitRoot, VisitNext, SeenBefore
  <2> QED BY <2>2, <2>3, SearchStep
<1>6. CASE VisitReturns
  <2>1. SearchInv => SearchInv'
    BY <1>6, VisitReturnsKept
  <2>2. Searching /\ UNCHANGED <<code, phase, graphVars, reachVars, graph, loops, depth>>
    BY <1>6 DEF VisitReturns
  <2> QED BY <2>1, <2>2, SearchStep
<1>7. CASE BeginDepth
  BY <1>7, DepthBegins
<1>8. CASE EndDepth
  BY <1>8, DepthEnds
<1>9. CASE UNCHANGED flowVars
  <2>1. /\ UNCHANGED <<code, leaders, cfg, calls, seen>> /\ UNCHANGED searchVars
        /\ UNCHANGED <<phase, graph, loops, depth>>
    BY <1>9 DEF flowVars, graphVars, reachVars
  <2>2. /\ Analysed' <=> Analysed
        /\ Local' = Local /\ CallGraph' = CallGraph /\ Loops' = Loops /\ Depth' = Depth
    BY <2>1, SameAnalysis
  <2>3. SearchInv' <=> SearchInv
    BY <2>1, SameSearch DEF searchVars
  <2>4. NoSearch' <=> NoSearch
    BY <2>1 DEF NoSearch, searchVars
  <2>5. \A b : CallsOf(b)' = CallsOf(b)
    BY <2>1 DEF CallsOf, LastOf, Block, Containing, Destination
  <2> QED BY <2>1, <2>2, <2>3, <2>4, <2>5 DEF LoopsInv
<1> QED BY <1>1, <1>2, <1>3, <1>4, <1>5, <1>6, <1>7, <1>8, <1>9 DEF FlowNext

LEMMA LoopsSuffice == LoopsInv => LoopsAndDepthExact
BY DEF LoopsInv, LoopsAndDepthExact, LoopsExact, DepthExact, Loops, Depth, Local

\* Whatever the program, and in whatever order blocks, functions and edges are
\* searched: the loops written are the classes of blocks of one function that
\* reach each other inside it, and the call depth is 0 exactly if a function calls
\* itself by way of another, and else the length of the longest chain of calls.
THEOREM LoopsTheorem == FlowSpec => []LoopsAndDepthExact
<1>1. FlowInit => FlowInv /\ LoopsInv
  BY FlowInitially, LoopsInitially
<1>2. FlowInv /\ LoopsInv /\ [FlowNext]_flowVars => (FlowInv /\ LoopsInv)'
  BY FlowKept, LoopsKept
<1> QED BY <1>1, <1>2, LoopsSuffice, PTL DEF FlowSpec

-----------------------------------------------------------------------------
\* A function that is defined at x by its value at up[x], which is nearer to an
\* end of the chain, exists.
LeadsToEnds(S, M, m, ends, up) ==
  \A x \in S : m[x] \in 0 .. M /\ (x \notin ends => up[x] \in S /\ m[up[x]] < m[x])

FollowsChain(w, S, ends, up, base, add) ==
  \A x \in S : w[x] = IF x \in ends THEN base[x] ELSE w[up[x]] + add

LEMMA ChainFunctionExists ==
  ASSUME NEW S, NEW M \in Nat, NEW m, NEW ends, NEW up, LeadsToEnds(S, M, m, ends, up),
         NEW base \in [S -> Nat], NEW add \in Nat
  PROVE  \E w \in [S -> Nat] : FollowsChain(w, S, ends, up, base, add)
<1>0. \A x \in S : m[x] \in 0 .. M /\ (x \notin ends => up[x] \in S /\ m[up[x]] < m[x])
  BY DEF LeadsToEnds
<1> DEFINE Holds(w, x) == w[x] = IF x \in ends THEN base[x] ELSE w[up[x]] + add
           T == {n \in Nat : \E w \in [S -> Nat] : \A x \in S : m[x] < n => Holds(w, x)}
<1>1. 0 \in T
  <2> DEFINE w == [x \in S |-> 0]
  <2>1. w \in [S -> Nat] /\ \A x \in S : ~(m[x] < 0)
    BY <1>0
  <2> HIDE DEF w, Holds
  <2> QED BY <2>1
<1>2. ASSUME NEW n \in T PROVE n + 1 \in T
  <2>1. PICK w \in [S -> Nat] : \A x \in S : m[x] < n => Holds(w, x)
    OBVIOUS
  <2> DEFINE v == [x \in S |-> IF x \in ends THEN base[x] ELSE w[up[x]] + add]
  <2>2. v \in [S -> Nat]
    BY <1>0
  <2>3. ASSUME NEW x \in S, m[x] < n + 1 PROVE Holds(v, x)
    <3>1. CASE x \in ends
      BY <3>1
    <3>2. CASE x \notin ends
      <4>1. up[x] \in S /\ m[up[x]] \in 0 .. M /\ m[x] \in 0 .. M /\ m[up[x]] < m[x]
        BY <1>0, <3>2
      <4>2. n \in Nat
        OBVIOUS
      <4>3. m[up[x]] < n
        BY <2>3, <4>1, <4>2
      <4>4. Holds(w, up[x])
        BY <2>1, <4>1, <4>3
      <4>5. v[up[x]] = w[up[x]]
        BY <4>1, <4>4
      <4>6. v[x] = w[up[x]] + add
        BY <3>2
      <4> QED BY <3>2, <4>5, <4>6
    <3> QED BY <3>1, <3>2
  <2> HIDE DEF v, Holds
  <2> QED BY <2>2, <2>3
<1>3. T = Nat
  <2> HIDE DEF T
  <2>1. T \in SUBSET Nat
    BY DEF T
  <2> QED BY <1>1, <1>2, <2>1, SetInduction
<1>4. M + 1 \in T
  <2> HIDE DEF T
  <2> QED BY <1>3
<1>5. PICK w \in [S -> Nat] : \A x \in S : m[x] < M + 1 => Holds(w, x)
  BY <1>4
<1>6. \A x \in S : m[x] < M + 1
  BY <1>0
<1> QED BY <1>5, <1>6 DEF FollowsChain

-----------------------------------------------------------------------------
\* The rank of the members of a finite set in a strict order of them.
StrictOrder(R, S) ==
  /\ \A x \in S : <<x, x>> \notin R
  /\ \A x, y, z \in S : <<x, y>> \in R /\ <<y, z>> \in R => <<x, z>> \in R
  /\ \A x, y \in S : x = y \/ <<x, y>> \in R \/ <<y, x>> \in R

Ranked(R, S) ==
  [n \in 1 .. Cardinality(S) |->
     CHOOSE x \in S : Cardinality({y \in S : <<y, x>> \in R}) = n - 1]

LEMMA RankIsPosition ==
  ASSUME NEW S, IsFiniteSet(S), NEW R, StrictOrder(R, S), NEW s, s = Ranked(R, S)
  PROVE  /\ \A n \in DOMAIN s : s[n] \in S
         /\ \A n, k \in DOMAIN s : s[n] = s[k] => n = k
         /\ \A x \in S : \E n \in DOMAIN s : s[n] = x
<1> DEFINE N == Cardinality(S)
           Before(x) == {y \in S : <<y, x>> \in R}
           Rank(x) == Cardinality(Before(x))
           rank == [x \in S |-> Rank(x)]
<1>0. N \in Nat
  BY FS_CardinalityType
<1>a. /\ \A x \in S : <<x, x>> \notin R
      /\ \A x, y, z \in S : <<x, y>> \in R /\ <<y, z>> \in R => <<x, z>> \in R
      /\ \A x, y \in S : x = y \/ <<x, y>> \in R \/ <<y, x>> \in R
  BY DEF StrictOrder
<1>1. ASSUME NEW x \in S PROVE IsFiniteSet(Before(x)) /\ Rank(x) \in 0 .. N - 1
  <2>1. Before(x) \in SUBSET S /\ Before(x) # S
    BY <1>a
  <2> HIDE DEF Before
  <2>2. IsFiniteSet(Before(x)) /\ Rank(x) <= N /\ Rank(x) # N
    BY <2>1, FS_Subset
  <2>3. Rank(x) \in Nat
    BY <2>2, FS_CardinalityType
  <2> HIDE DEF Rank, N
  <2>4. Rank(x) \in 0 .. N - 1
    BY <1>0, <2>2, <2>3
  <2> QED BY <2>2, <2>4
<1>2. ASSUME NEW x \in S, NEW y \in S, <<x, y>> \in R PROVE Rank(x) < Rank(y)
  <2>1. Before(x) \in SUBSET Before(y) /\ Before(x) # Before(y)
    <3>1. x \in Before(y) /\ x \notin Before(x)
      BY <1>2, <1>a
    <3>2. \A z \in Before(x) : z \in Before(y)
      BY <1>2, <1>a
    <3> HIDE DEF Before
    <3> QED BY <3>1, <3>2
  <2>2. IsFiniteSet(Before(y)) /\ Rank(x) \in 0 .. N - 1 /\ Rank(y) \in 0 .. N - 1
    BY <1>1
  <2> HIDE DEF Before
  <2>3. Rank(x) <= Rank(y) /\ Rank(x) # Rank(y)
    BY <2>1, <2>2, FS_Subset
  <2> HIDE DEF Rank, N
  <2> QED BY <1>0, <2>2, <2>3
<1>3. ASSUME NEW x \in S, NEW y \in S, Rank(x) = Rank(y) PROVE x = y
  <2> HIDE DEF Rank
  <2>1. Rank(x) \in 0 .. N - 1
    BY <1>1
  <2>2. ~(Rank(x) < Rank(y)) /\ ~(Rank(y) < Rank(x))
    <3> HIDE DEF N
    <3> QED BY <1>0, <1>3, <2>1
  <2> QED BY <1>2, <1>a, <2>2
<1>4. rank \in Injection(S, 0 .. N - 1)
  <2>1. rank \in [S -> 0 .. N - 1]
    <3> HIDE DEF Rank, N
    <3> QED BY <1>1
  <2>2. \A x, y \in S : rank[x] = rank[y] => x = y
    <3> HIDE DEF Rank
    <3> QED BY <1>3
  <2> HIDE DEF rank, N
  <2> QED BY <2>1, <2>2 DEF Injection, IsInjective
<1>5. IsFiniteSet(0 .. N - 1) /\ Cardinality(0 .. N - 1) = N
  <2> HIDE DEF N
  <2>1. 0 \in Int /\ N - 1 \in Int
    BY <1>0
  <2>2. IsFiniteSet(0 .. N - 1)
        /\ Cardinality(0 .. N - 1) = IF 0 > N - 1 THEN 0 ELSE N - 1 - 0 + 1
    BY <2>1, FS_Interval
  <2> QED BY <1>0, <2>2
<1>6. rank \in Surjection(S, 0 .. N - 1)
  <2> HIDE DEF rank
  <2> QED BY <1>4, <1>5, FS_Injection
<1>7. \A n \in 0 .. N - 1 : \E x \in S : Rank(x) = n
  <2>1. \A n \in 0 .. N - 1 : \E x \in S : rank[x] = n
    <3> HIDE DEF rank, N
    <3> QED BY <1>6 DEF Surjection
  <2> HIDE DEF Rank, N
  <2> QED BY <2>1
<1>8. s = [n \in 1 .. N |-> CHOOSE x \in S : Rank(x) = n - 1]
  BY DEF Ranked
<1> HIDE DEF Rank, N
<1>9. ASSUME NEW n \in 1 .. N PROVE s[n] \in S /\ Rank(s[n]) = n - 1
  <2>1. n - 1 \in 0 .. N - 1
    BY <1>0
  <2>2. \E x \in S : Rank(x) = n - 1
    BY <1>7, <2>1
  <2>3. s[n] = CHOOSE x \in S : Rank(x) = n - 1
    BY <1>8
  <2> QED BY <2>2, <2>3
<1>10. DOMAIN s = 1 .. N
  BY <1>8
<1>11. ASSUME NEW x \in S PROVE \E n \in 1 .. N : s[n] = x
  <2>1. Rank(x) \in 0 .. N - 1
    BY <1>1
  <2>2. Rank(x) + 1 \in 1 .. N /\ (Rank(x) + 1) - 1 = Rank(x)
    BY <1>0, <2>1
  <2>3. s[Rank(x) + 1] \in S /\ Rank(s[Rank(x) + 1]) = Rank(x)
    BY <1>9, <2>2
  <2> QED BY <1>3, <2>2, <2>3
<1>12. ASSUME NEW n \in 1 .. N, NEW k \in 1 .. N, s[n] = s[k] PROVE n = k
  <2>1. n - 1 = k - 1
    BY <1>9, <1>12
  <2> QED BY <1>0, <2>1
<1> QED BY <1>9, <1>10, <1>11, <1>12

-----------------------------------------------------------------------------
\* The DWARF entries and the function instances among them.
DiesAre ==
  /\ dies \in Seq([tag : {"concrete", "inlined", "block"}, pcs : SUBSET Nat, parent : Nat])
  /\ \A d \in DOMAIN dies : dies[d].parent < d /\ IsFiniteSet(dies[d].pcs)

HasCode(d) == dies[d].tag # "block" /\ dies[d].pcs # {}
InstanceOf(d) == [id |-> d, kind |-> dies[d].tag, pcs |-> dies[d].pcs,
                  parent |-> Nearest[dies[d].parent]]

LEMMA DieIs ==
  ASSUME DiesAre
  PROVE  /\ Len(dies) \in Nat /\ DOMAIN dies = 1 .. Len(dies)
         /\ \A d \in DOMAIN dies :
              /\ dies[d].tag \in {"concrete", "inlined", "block"}
              /\ dies[d].pcs \in SUBSET Nat /\ IsFiniteSet(dies[d].pcs)
              /\ dies[d].parent \in 0 .. d - 1 /\ dies[d].parent \in 0 .. Len(dies)
<1>1. Len(dies) \in Nat /\ DOMAIN dies = 1 .. Len(dies)
  BY DEF DiesAre
<1>2. ASSUME NEW d \in DOMAIN dies
      PROVE  /\ dies[d].tag \in {"concrete", "inlined", "block"}
             /\ dies[d].pcs \in SUBSET Nat /\ IsFiniteSet(dies[d].pcs)
             /\ dies[d].parent \in Nat /\ dies[d].parent < d
  <2>1. dies[d] \in [tag : {"concrete", "inlined", "block"}, pcs : SUBSET Nat, parent : Nat]
    <3> DEFINE R == [tag : {"concrete", "inlined", "block"}, pcs : SUBSET Nat, parent : Nat]
    <3>1. dies \in Seq(R)
      BY DEF DiesAre
    <3> HIDE DEF R
    <3>2. dies[d] \in R
      BY <3>1
    <3> QED BY <3>2 DEF R
  <2>2. dies[d].parent < d /\ IsFiniteSet(dies[d].pcs)
    BY DEF DiesAre
  <2> QED BY <2>1, <2>2
<1>3. ASSUME NEW d \in DOMAIN dies
      PROVE  dies[d].parent \in 0 .. d - 1 /\ dies[d].parent \in 0 .. Len(dies)
  BY <1>1, <1>2
<1> QED BY <1>1, <1>2, <1>3

\* What a climb from the entries upwards, by a function g to earlier ones, finds.
LEMMA ClimbExists ==
  ASSUME NEW N \in Nat, NEW ends, NEW g, 0 \in ends,
         \A d \in 1 .. N : g[d] \in 0 .. d - 1
  PROVE  \E w : w = [d \in 0 .. N |-> IF d \in ends THEN d ELSE w[g[d]]]
<1> DEFINE m == [d \in 0 .. N |-> d]
<1>1. m \in [0 .. N -> 0 .. N] /\ m \in [0 .. N -> Nat]
  OBVIOUS
<1>2. \A d \in 0 .. N : d \notin ends => g[d] \in 0 .. N /\ m[g[d]] < m[d]
  <2> SUFFICES ASSUME NEW d \in 0 .. N, d \notin ends
               PROVE  g[d] \in 0 .. N /\ g[d] < d
    OBVIOUS
  <2>1. d \in 1 .. N
    OBVIOUS
  <2> QED BY <2>1
<1>3. \A d \in 0 .. N : m[d] = d
  OBVIOUS
<1> HIDE DEF m
<1>4. PICK w \in [0 .. N -> Nat] :
        \A d \in 0 .. N : w[d] = IF d \in ends THEN m[d] ELSE w[g[d]] + 0
  <2> DEFINE S == 0 .. N
  <2>1. 0 \in Nat /\ m \in [S -> Nat]
    BY <1>1
  <2>2. LeadsToEnds(S, N, m, ends, g)
    BY <1>2, <1>3 DEF LeadsToEnds
  <2> HIDE DEF S
  <2>3. \E w \in [S -> Nat] : FollowsChain(w, S, ends, g, m, 0)
    BY <2>1, <2>2, ChainFunctionExists
  <2> QED BY <2>3 DEF S, FollowsChain
<1>5. ASSUME NEW d \in 0 .. N PROVE w[d] = IF d \in ends THEN d ELSE w[g[d]]
  <2>1. CASE d \in ends
    BY <1>3, <1>4, <2>1
  <2>2. CASE d \notin ends
    <3>1. w[g[d]] \in Nat /\ w[d] = w[g[d]] + 0
      BY <1>2, <1>4, <2>2
    <3> QED BY <2>2, <3>1
  <2> QED BY <2>1, <2>2
<1>6. w = [d \in 0 .. N |-> IF d \in ends THEN d ELSE w[g[d]]]
  BY <1>5
<1> QED BY <1>6

LEMMA ClimbFinds ==
  ASSUME NEW N \in Nat, NEW ends, NEW g, 0 \in ends,
         \A d \in 1 .. N : g[d] \in 0 .. d - 1,
         NEW w, w = [d \in 0 .. N |-> IF d \in ends THEN d ELSE w[g[d]]]
  PROVE  \A d \in 0 .. N : w[d] \in 0 .. d /\ w[d] \in ends
<1> DEFINE T == {n \in Nat : \A d \in 0 .. N : d <= n => w[d] \in 0 .. d /\ w[d] \in ends}
<1>0. \A d \in 0 .. N : w[d] = IF d \in ends THEN d ELSE w[g[d]]
  <2>1. \A d \in 0 .. N :
          [e \in 0 .. N |-> IF e \in ends THEN e ELSE w[g[e]]][d] = IF d \in ends THEN d ELSE w[g[d]]
    OBVIOUS
  <2> QED BY <2>1
<1>1. 0 \in T
  <2> SUFFICES ASSUME NEW d \in 0 .. N, d <= 0 PROVE w[d] \in 0 .. d /\ w[d] \in ends
    OBVIOUS
  <2>1. d = 0
    OBVIOUS
  <2>2. w[d] = d
    BY <1>0, <2>1
  <2> QED BY <2>1, <2>2
<1>2. ASSUME NEW n \in T PROVE n + 1 \in T
  <2> SUFFICES ASSUME NEW d \in 0 .. N, d <= n + 1, d \notin ends
               PROVE  w[d] \in 0 .. d /\ w[d] \in ends
    BY <1>0
  <2>1. d \in 1 .. N
    OBVIOUS
  <2>2. g[d] \in 0 .. d - 1 /\ n \in Nat
    BY <2>1
  <2>3. g[d] \in 0 .. N /\ g[d] <= n
    BY <2>1, <2>2
  <2>4. w[g[d]] \in 0 .. g[d] /\ w[g[d]] \in ends
    BY <2>3
  <2>5. w[d] = w[g[d]]
    BY <1>0
  <2> QED BY <2>2, <2>4, <2>5
<1>3. T = Nat
  <2> HIDE DEF T
  <2>1. T \in SUBSET Nat
    BY DEF T
  <2> QED BY <1>1, <1>2, <2>1, SetInduction
<1>4. N \in T
  <2> HIDE DEF T
  <2> QED BY <1>3
<1> QED BY <1>4

LEMMA NearestIs ==
  ASSUME DiesAre
  PROVE  /\ \A d \in 0 .. Len(dies) :
              Nearest[d] = IF d = 0 \/ HasCode(d) THEN d ELSE Nearest[dies[d].parent]
         /\ \A d \in 0 .. Len(dies) :
              Nearest[d] \in 0 .. d /\ (Nearest[d] # 0 => HasCode(Nearest[d]))
<1> DEFINE N == Len(dies)
           ends == {d \in 0 .. N : d = 0 \/ HasCode(d)}
           g == [d \in 1 .. N |-> dies[d].parent]
           Is(w) == w = [d \in 0 .. N |-> IF d = 0 \/ HasCode(d) THEN d ELSE w[dies[d].parent]]
<1>1. N \in Nat /\ 0 \in ends /\ \A d \in 1 .. N : g[d] \in 0 .. d - 1
  BY DieIs
<1>2. ASSUME NEW w, w = [d \in 0 .. N |-> IF d \in ends THEN d ELSE w[g[d]]] PROVE Is(w)
  <2>1. \A d \in 0 .. N :
          (IF d \in ends THEN d ELSE w[g[d]])
            = IF d = 0 \/ HasCode(d) THEN d ELSE w[dies[d].parent]
    BY <1>1
  <2> HIDE DEF ends, g
  <2>2. [d \in 0 .. N |-> IF d \in ends THEN d ELSE w[g[d]]]
          = [d \in 0 .. N |-> IF d = 0 \/ HasCode(d) THEN d ELSE w[dies[d].parent]]
    BY <2>1
  <2> QED BY <1>2, <2>2
<1>3. \E w : Is(w)
  <2>1. \E w : w = [d \in 0 .. N |-> IF d \in ends THEN d ELSE w[g[d]]]
    <3> HIDE DEF N, ends, g
    <3> QED BY <1>1, ClimbExists
  <2> HIDE DEF Is, ends, g, N
  <2> QED BY <1>2, <2>1
<1>4. Nearest = CHOOSE w : Is(w)
  BY DEF Nearest, HasCode
<1>5. Is(Nearest)
  <2> HIDE DEF Is
  <2> QED BY <1>3, <1>4
<1>6. \A d \in 0 .. N :
        Nearest[d] = IF d = 0 \/ HasCode(d) THEN d ELSE Nearest[dies[d].parent]
  <2> DEFINE W == Nearest
  <2>1. W = [d \in 0 .. N |-> IF d = 0 \/ HasCode(d) THEN d ELSE W[dies[d].parent]]
    BY <1>5
  <2> HIDE DEF W, N
  <2>2. \A d \in 0 .. N : W[d] = IF d = 0 \/ HasCode(d) THEN d ELSE W[dies[d].parent]
    BY <2>1
  <2> QED BY <2>2 DEF W
<1>7. Nearest = [d \in 0 .. N |-> IF d \in ends THEN d ELSE Nearest[g[d]]]
  <2> DEFINE W == Nearest
  <2>1. W = [d \in 0 .. N |-> IF d = 0 \/ HasCode(d) THEN d ELSE W[dies[d].parent]]
    BY <1>5
  <2> HIDE DEF W
  <2>2. \A d \in 0 .. N :
          (IF d \in ends THEN d ELSE W[g[d]])
            = IF d = 0 \/ HasCode(d) THEN d ELSE W[dies[d].parent]
    BY <1>1
  <2> HIDE DEF ends, g
  <2>3. [d \in 0 .. N |-> IF d \in ends THEN d ELSE W[g[d]]]
          = [d \in 0 .. N |-> IF d = 0 \/ HasCode(d) THEN d ELSE W[dies[d].parent]]
    BY <2>2
  <2> QED BY <2>1, <2>3 DEF W
<1>8. \A d \in 0 .. N : Nearest[d] \in 0 .. d /\ Nearest[d] \in ends
  <2> DEFINE W == Nearest
  <2> HIDE DEF W, N, ends, g
  <2>1. W = [d \in 0 .. N |-> IF d \in ends THEN d ELSE W[g[d]]]
    BY <1>7 DEF W
  <2>2. \A d \in 0 .. N : W[d] \in 0 .. d /\ W[d] \in ends
    BY <1>1, <2>1, ClimbFinds
  <2> QED BY <2>2 DEF W
<1>9. \A d \in 0 .. N : Nearest[d] # 0 => HasCode(Nearest[d])
  BY <1>8
<1> QED BY <1>6, <1>8, <1>9

LEMMA LowestIs ==
  ASSUME NEW T \in SUBSET Nat, T # {}
  PROVE  Lowest(T) \in T
BY Least DEF Lowest

Entered == {d \in DOMAIN dies : Nearest[d] = d}

\* The order of the rows: by first address, a function before what is inlined at
\* its start, then in the order of the entries.
RowKey(i) == <<2 * Lowest(i.pcs) + (IF i.kind = "concrete" THEN 0 ELSE 1), i.id>>

LEMMA InstancesAre ==
  ASSUME DiesAre, instances = function_instances
  PROVE  /\ DOMAIN instances \in SUBSET (Nat \ {0})
         /\ \A i \in DOMAIN instances : \E d \in DOMAIN dies : HasCode(d) /\ instances[i] = InstanceOf(d)
         /\ \A i, k \in DOMAIN instances : instances[i].id = instances[k].id => i = k
         /\ \A d \in DOMAIN dies : HasCode(d) => \E i \in DOMAIN instances : instances[i] = InstanceOf(d)
<1> DEFINE S == {InstanceOf(d) : d \in Entered}
           R == {q \in S \X S : Earlier(RowKey(q[1]), RowKey(q[2]))}
<1>1. \A d \in DOMAIN dies : d \in Entered <=> HasCode(d)
  <2> SUFFICES ASSUME NEW d \in DOMAIN dies PROVE Nearest[d] = d <=> HasCode(d)
    BY DEF Entered
  <2>1. d \in 0 .. Len(dies) /\ d # 0
    BY DieIs
  <2> QED BY <2>1, NearestIs
<1>2. IsFiniteSet(S)
  <2>1. IsFiniteSet(Entered)
    <3>1. Entered \in SUBSET (1 .. Len(dies)) /\ Len(dies) \in Nat
      BY DieIs DEF Entered
    <3>2. IsFiniteSet(1 .. Len(dies))
      BY <3>1, FS_Interval
    <3> QED BY <3>1, <3>2, FS_Subset
  <2> DEFINE f == [d \in Entered |-> InstanceOf(d)]
  <2>2. f \in Surjection(Entered, S)
    BY DEF Surjection
  <2> HIDE DEF f, S
  <2> QED BY <2>1, <2>2, FS_Surjection
<1>3. \A x \in S : /\ x.id \in Nat /\ x = InstanceOf(x.id)
                   /\ RowKey(x)[1] \in Nat /\ RowKey(x)[2] = x.id
  <2> SUFFICES ASSUME NEW d \in Entered
               PROVE  LET x == InstanceOf(d) IN
                      /\ x.id = d /\ x.id \in Nat
                      /\ RowKey(x)[1] \in Nat /\ RowKey(x)[2] = x.id
    OBVIOUS
  <2>1. d \in DOMAIN dies /\ HasCode(d) /\ d \in Nat
    BY <1>1, DieIs DEF Entered
  <2>2. dies[d].pcs \in SUBSET Nat /\ dies[d].pcs # {}
    BY <2>1, DieIs DEF HasCode
  <2>3. Lowest(dies[d].pcs) \in Nat
    BY <2>2, LowestIs
  <2>4. InstanceOf(d).id = d /\ InstanceOf(d).pcs = dies[d].pcs
    BY DEF InstanceOf
  <2> QED BY <2>1, <2>3, <2>4 DEF RowKey
<1>4. \A x, y \in S : x.id = y.id => x = y
  BY <1>3
<1> HIDE DEF S
<1>5. \A x, y \in S : <<x, y>> \in R <=> Earlier(RowKey(x), RowKey(y))
  OBVIOUS
<1>6. \A x, y \in S :
        Earlier(RowKey(x), RowKey(y)) <=>
          RowKey(x)[1] < RowKey(y)[1] \/ (RowKey(x)[1] = RowKey(y)[1] /\ x.id < y.id)
  BY <1>3 DEF Earlier
<1> HIDE DEF R
<1>7. \A x \in S : <<x, x>> \notin R
  BY <1>3, <1>5, <1>6
<1>8. \A x, y, z \in S : <<x, y>> \in R /\ <<y, z>> \in R => <<x, z>> \in R
  BY <1>3, <1>5, <1>6
<1>9. \A x, y \in S : x = y \/ <<x, y>> \in R \/ <<y, x>> \in R
  <2> SUFFICES ASSUME NEW x \in S, NEW y \in S, x # y PROVE <<x, y>> \in R \/ <<y, x>> \in R
    OBVIOUS
  <2>1. /\ RowKey(x)[1] \in Nat /\ RowKey(y)[1] \in Nat
        /\ x.id \in Nat /\ y.id \in Nat /\ x.id # y.id
    BY <1>3, <1>4
  <2>2. Earlier(RowKey(x), RowKey(y)) \/ Earlier(RowKey(y), RowKey(x))
    BY <1>6, <2>1
  <2> QED BY <1>5, <2>2
<1>10. function_instances =
         [n \in 1 .. Cardinality(S) |->
            CHOOSE x \in S : Cardinality({y \in S : Earlier(RowKey(y), RowKey(x))}) = n - 1]
  BY DEF function_instances, InOrder, InstanceOf, RowKey, S, Entered
<1>11. \A x \in S : {y \in S : Earlier(RowKey(y), RowKey(x))} = {y \in S : <<y, x>> \in R}
  BY <1>5
<1>12. instances = Ranked(R, S)
  <2>1. \A x \in S : Cardinality({y \in S : Earlier(RowKey(y), RowKey(x))})
                       = Cardinality({y \in S : <<y, x>> \in R})
    BY <1>11
  <2>2. \A n : (CHOOSE x \in S : Cardinality({y \in S : Earlier(RowKey(y), RowKey(x))}) = n - 1)
               = (CHOOSE x \in S : Cardinality({y \in S : <<y, x>> \in R}) = n - 1)
    <3> DEFINE A(x) == Cardinality({y \in S : Earlier(RowKey(y), RowKey(x))})
               B(x) == Cardinality({y \in S : <<y, x>> \in R})
    <3>1. \A x \in S : A(x) = B(x)
      BY <2>1
    <3> HIDE DEF A, B
    <3>2. \A n : (CHOOSE x \in S : A(x) = n - 1) = (CHOOSE x \in S : B(x) = n - 1)
      <4> SUFFICES ASSUME NEW n
                   PROVE  (CHOOSE x \in S : A(x) = n - 1) = (CHOOSE x \in S : B(x) = n - 1)
        OBVIOUS
      <4>1. \A x : (x \in S /\ A(x) = n - 1) <=> (x \in S /\ B(x) = n - 1)
        BY <3>1
      <4> QED BY <4>1
    <3> QED BY <3>2 DEF A, B
  <2> DEFINE C(n) == CHOOSE x \in S : Cardinality({y \in S : Earlier(RowKey(y), RowKey(x))}) = n - 1
             D(n) == CHOOSE x \in S : Cardinality({y \in S : <<y, x>> \in R}) = n - 1
  <2>3. \A n : C(n) = D(n)
    BY <2>2
  <2>4. instances = [n \in 1 .. Cardinality(S) |-> C(n)]
    BY <1>10
  <2>5. Ranked(R, S) = [n \in 1 .. Cardinality(S) |-> D(n)]
    BY DEF Ranked
  <2> HIDE DEF C, D
  <2> QED BY <2>3, <2>4, <2>5
<1>13. /\ \A n \in DOMAIN instances : instances[n] \in S
       /\ \A n, k \in DOMAIN instances : instances[n] = instances[k] => n = k
       /\ \A x \in S : \E n \in DOMAIN instances : instances[n] = x
  <2>1. StrictOrder(R, S)
    BY <1>7, <1>8, <1>9 DEF StrictOrder
  <2> QED BY <1>2, <1>12, <2>1, RankIsPosition
<1>14. \A x \in S : \E d \in DOMAIN dies : HasCode(d) /\ x = InstanceOf(d)
  BY <1>1 DEF S, Entered
<1>15. \A d \in DOMAIN dies : HasCode(d) => InstanceOf(d) \in S
  BY <1>1 DEF S
<1>16. DOMAIN instances \in SUBSET (Nat \ {0})
  <2>1. Cardinality(S) \in Nat
    BY <1>2, FS_CardinalityType
  <2> QED BY <1>12, <2>1 DEF Ranked
<1> QED BY <1>4, <1>13, <1>14, <1>15, <1>16

-----------------------------------------------------------------------------
\* The tree of instances.
Inst == DOMAIN instances
Id(i) == instances[i].id
Pcs(i) == instances[i].pcs
Up(i) == CHOOSE k \in Inst : Id(k) = instances[i].parent

InstancesOk ==
  /\ DiesAre
  /\ Inst \in SUBSET (Nat \ {0})
  /\ \A i \in Inst :
       /\ Id(i) \in DOMAIN dies /\ HasCode(Id(i)) /\ instances[i] = InstanceOf(Id(i))
       /\ instances[i].parent # 0 => \E k \in Inst : Id(k) = instances[i].parent
  /\ \A i, k \in Inst : Id(i) = Id(k) => i = k

LEMMA InstancesFollow ==
  ASSUME DiesAre, instances = function_instances
  PROVE  InstancesOk
<1>1. /\ Inst \in SUBSET (Nat \ {0})
      /\ \A i \in Inst : \E d \in DOMAIN dies : HasCode(d) /\ instances[i] = InstanceOf(d)
      /\ \A i, k \in Inst : Id(i) = Id(k) => i = k
      /\ \A d \in DOMAIN dies : HasCode(d) => \E i \in Inst : instances[i] = InstanceOf(d)
  BY InstancesAre DEF Inst, Id
<1>2. \A d : InstanceOf(d).id = d /\ InstanceOf(d).parent = Nearest[dies[d].parent]
  BY DEF InstanceOf
<1>3. ASSUME NEW i \in Inst
      PROVE  Id(i) \in DOMAIN dies /\ HasCode(Id(i)) /\ instances[i] = InstanceOf(Id(i))
  BY <1>1, <1>2 DEF Id
<1>4. ASSUME NEW i \in Inst, instances[i].parent # 0
      PROVE  \E k \in Inst : Id(k) = instances[i].parent
  <2> DEFINE e == Nearest[dies[Id(i)].parent]
  <2>1. instances[i].parent = e /\ dies[Id(i)].parent \in 0 .. Len(dies)
    BY <1>2, <1>3, DieIs
  <2>2. e \in 0 .. dies[Id(i)].parent /\ HasCode(e)
    BY <1>4, <2>1, NearestIs
  <2>3. e \in DOMAIN dies
    BY <1>4, <2>1, <2>2, DieIs
  <2> HIDE DEF e
  <2>4. PICK k \in Inst : instances[k] = InstanceOf(e)
    BY <1>1, <2>2, <2>3
  <2> QED BY <1>2, <2>1, <2>4 DEF Id
<1> QED BY <1>1, <1>3, <1>4 DEF InstancesOk

LEMMA InstanceIs ==
  ASSUME InstancesOk, NEW i \in Inst
  PROVE  /\ Len(dies) \in Nat /\ Id(i) \in 1 .. Len(dies)
         /\ Pcs(i) \in SUBSET Nat /\ Pcs(i) # {} /\ IsFiniteSet(Pcs(i)) /\ Pcs(i) = dies[Id(i)].pcs
         /\ instances[i].kind \in {"concrete", "inlined"} /\ instances[i].kind = dies[Id(i)].tag
         /\ instances[i].parent = Nearest[dies[Id(i)].parent]
         /\ instances[i].parent \in 0 .. Id(i) - 1
         /\ instances[i].parent # 0 =>
              Up(i) \in Inst /\ Id(Up(i)) = instances[i].parent /\ Id(Up(i)) < Id(i)
<1>1. Id(i) \in DOMAIN dies /\ HasCode(Id(i)) /\ instances[i] = InstanceOf(Id(i)) /\ DiesAre
  BY DEF InstancesOk
<1>2. /\ Pcs(i) = dies[Id(i)].pcs /\ instances[i].kind = dies[Id(i)].tag
      /\ instances[i].parent = Nearest[dies[Id(i)].parent]
  BY <1>1 DEF InstanceOf, Pcs
<1>3. /\ Len(dies) \in Nat /\ Id(i) \in 1 .. Len(dies)
      /\ Pcs(i) \in SUBSET Nat /\ Pcs(i) # {} /\ IsFiniteSet(Pcs(i))
      /\ instances[i].kind \in {"concrete", "inlined"}
  BY <1>1, <1>2, DieIs DEF HasCode
<1>4. instances[i].parent \in 0 .. Id(i) - 1
  <2>1. dies[Id(i)].parent \in 0 .. Id(i) - 1 /\ dies[Id(i)].parent \in 0 .. Len(dies)
    BY <1>1, DieIs
  <2>2. Nearest[dies[Id(i)].parent] \in 0 .. dies[Id(i)].parent
    BY <1>1, <2>1, NearestIs
  <2> QED BY <1>2, <1>3, <2>1, <2>2
<1>5. instances[i].parent # 0 => Up(i) \in Inst /\ Id(Up(i)) = instances[i].parent
  BY DEF InstancesOk, Up
<1>6. Id(i) \in Nat
  BY <1>3
<1>7. instances[i].parent # 0 => Id(Up(i)) < Id(i)
  BY <1>4, <1>5, <1>6
<1> QED BY <1>2, <1>3, <1>4, <1>5, <1>7

\* The rows as the study of patterns reads them, and the depth that it gives them.
Rows == [i \in Inst |->
          [pcs |-> Pcs(i),
           parent |-> IF instances[i].parent = 0 THEN 0 ELSE Up(i)]]
Depths == Stream!instance_depth(Rows)

LEMMA DepthsAre ==
  ASSUME InstancesOk
  PROVE  \A i \in Inst :
           /\ Depths[i] = IF instances[i].parent = 0 THEN 0 ELSE Depths[Up(i)] + 1
           /\ Depths[i] \in Nat
<1> DEFINE ends == {i \in Inst : instances[i].parent = 0}
           up == [i \in Inst |-> Up(i)]
           m == [i \in Inst |-> Id(i)]
           base == [i \in Inst |-> 0]
           Is(w) == w = [i \in Inst |-> IF instances[i].parent = 0 THEN 0 ELSE w[Up(i)] + 1]
<1>1. LeadsToEnds(Inst, Len(dies), m, ends, up)
  BY InstanceIs DEF LeadsToEnds
<1>2. Len(dies) \in Nat
  BY DieIs DEF InstancesOk
<1>3. base \in [Inst -> Nat] /\ 1 \in Nat
  OBVIOUS
<1>4. PICK w \in [Inst -> Nat] : FollowsChain(w, Inst, ends, up, base, 1)
  <2> HIDE DEF ends, up, m, base
  <2> QED BY <1>1, <1>2, <1>3, ChainFunctionExists
<1>5. Is(w)
  BY <1>4 DEF FollowsChain
<1>6. Depths = CHOOSE v : Is(v)
  <2>1. DOMAIN Rows = Inst /\ \A i \in Inst : Rows[i].parent = IF instances[i].parent = 0 THEN 0 ELSE Up(i)
    BY DEF Rows
  <2>2. \A i \in Inst : Rows[i].parent = 0 <=> instances[i].parent = 0
    BY <2>1, InstanceIs DEF InstancesOk
  <2>3. \A v : [i \in DOMAIN Rows |-> IF Rows[i].parent = 0 THEN 0 ELSE v[Rows[i].parent] + 1]
               = [i \in Inst |-> IF instances[i].parent = 0 THEN 0 ELSE v[Up(i)] + 1]
    BY <2>1, <2>2
  <2>4. Depths = CHOOSE v : v = [i \in DOMAIN Rows |->
                                   IF Rows[i].parent = 0 THEN 0 ELSE v[Rows[i].parent] + 1]
    BY DEF Depths, Stream!instance_depth
  <2> QED BY <2>3, <2>4
<1>7. Is(Depths)
  <2> HIDE DEF Is
  <2> QED BY <1>5, <1>6
<1>8. \A i \in Inst : Depths[i] = IF instances[i].parent = 0 THEN 0 ELSE Depths[Up(i)] + 1
  <2> DEFINE W == Depths
  <2>1. W = [i \in Inst |-> IF instances[i].parent = 0 THEN 0 ELSE W[Up(i)] + 1]
    BY <1>7
  <2> HIDE DEF W
  <2>2. \A i \in Inst : W[i] = IF instances[i].parent = 0 THEN 0 ELSE W[Up(i)] + 1
    BY <2>1
  <2> QED BY <2>2 DEF W
<1>9. \A i \in Inst : Depths[i] \in Nat
  <2> DEFINE T == {n \in Nat : \A i \in Inst : Id(i) <= n => Depths[i] \in Nat}
  <2>1. 0 \in T
    <3>1. \A i \in Inst : ~(Id(i) <= 0)
      BY InstanceIs
    <3> QED BY <3>1
  <2>2. ASSUME NEW n \in T PROVE n + 1 \in T
    <3> SUFFICES ASSUME NEW i \in Inst, Id(i) <= n + 1, instances[i].parent # 0
                 PROVE  Depths[i] \in Nat
      BY <1>8
    <3>1. Up(i) \in Inst /\ Id(Up(i)) < Id(i) /\ Id(i) \in Nat /\ Id(Up(i)) \in Nat /\ n \in Nat
      BY InstanceIs
    <3>2. Id(Up(i)) <= n
      BY <3>1
    <3>3. Depths[Up(i)] \in Nat
      BY <3>1, <3>2
    <3>4. Depths[i] = Depths[Up(i)] + 1
      BY <1>8
    <3> HIDE DEF T
    <3> QED BY <3>3, <3>4
  <2>3. T = Nat
    <3> HIDE DEF T
    <3>1. T \in SUBSET Nat
      BY DEF T
    <3> QED BY <2>1, <2>2, <3>1, SetInduction
  <2>4. Len(dies) \in T
    BY <1>2, <2>3
  <2>5. \A i \in Inst : Id(i) <= Len(dies)
    BY InstanceIs
  <2> QED BY <2>4, <2>5
<1> QED BY <1>8, <1>9

\* Of nested ranges, the instances that hold an address are a chain: there is one
\* of each depth, and a deeper one is in the code of those above it, and later.
HoldingOf(p) == {i \in Inst : p \in Pcs(i)}

LEMMA NestedIs ==
  ASSUME RangesNest
  PROVE  /\ \A i \in Inst : instances[i].kind = "concrete" <=> instances[i].parent = 0
         /\ \A i, k \in Inst : instances[i].parent = Id(k) => Pcs(i) \subseteq Pcs(k)
         /\ \A i, k \in Inst :
              i # k /\ instances[i].parent = instances[k].parent => Pcs(i) \cap Pcs(k) = {}
BY DEF RangesNest, Inst, Id, Pcs

LEMMA HoldingIsChain ==
  ASSUME InstancesOk, RangesNest, NEW p
  PROVE  \A i, k \in HoldingOf(p) :
           /\ Depths[k] = Depths[i] => k = i
           /\ Depths[k] < Depths[i] => Pcs(i) \subseteq Pcs(k) /\ Id(k) < Id(i)
<1> DEFINE C == HoldingOf(p)
           Good(i) == \A k \in C :
                        /\ Depths[k] = Depths[i] => k = i
                        /\ Depths[k] < Depths[i] => Pcs(i) \subseteq Pcs(k) /\ Id(k) < Id(i)
           T == {n \in Nat : \A i \in C : Depths[i] = n => Good(i)}
<1>0. \A i \in C : i \in Inst /\ p \in Pcs(i) /\ Depths[i] \in Nat /\ Id(i) \in Nat
  BY DepthsAre, InstanceIs DEF HoldingOf
<1>1. \A i \in C : Depths[i] = 0 <=> instances[i].parent = 0
  <2> SUFFICES ASSUME NEW i \in C, instances[i].parent # 0 PROVE Depths[i] # 0
    BY <1>0, DepthsAre
  <2>1. Up(i) \in Inst
    BY <1>0, InstanceIs
  <2>2. Depths[i] = Depths[Up(i)] + 1 /\ Depths[Up(i)] \in Nat
    BY <1>0, <2>1, DepthsAre
  <2> QED BY <2>2
<1>2. ASSUME NEW i \in C, NEW k \in C, instances[i].parent = instances[k].parent PROVE i = k
  BY <1>0, <1>2, NestedIs
<1>3. ASSUME NEW i \in C, instances[i].parent # 0
      PROVE  /\ Up(i) \in C /\ instances[i].parent = Id(Up(i))
             /\ Pcs(i) \subseteq Pcs(Up(i)) /\ Id(Up(i)) < Id(i)
             /\ Depths[i] = Depths[Up(i)] + 1
  <2>1. Up(i) \in Inst /\ Id(Up(i)) = instances[i].parent /\ Id(Up(i)) < Id(i)
    BY <1>0, <1>3, InstanceIs
  <2>2. Pcs(i) \subseteq Pcs(Up(i))
    BY <1>0, <2>1, NestedIs
  <2>3. Up(i) \in C
    BY <1>0, <2>1, <2>2 DEF HoldingOf
  <2>4. Depths[i] = Depths[Up(i)] + 1
    BY <1>0, <1>3, DepthsAre
  <2> QED BY <2>1, <2>2, <2>3, <2>4
<1> HIDE DEF C
<1>4. 0 \in T
  <2> SUFFICES ASSUME NEW i \in C, Depths[i] = 0, NEW k \in C
               PROVE  (Depths[k] = 0 => k = i) /\ ~(Depths[k] < 0)
    OBVIOUS
  <2>1. Depths[k] \in Nat
    BY <1>0
  <2> QED BY <1>1, <1>2, <2>1
<1>5. ASSUME NEW n \in T PROVE n + 1 \in T
  <2> SUFFICES ASSUME NEW i \in C, Depths[i] = n + 1, NEW k \in C
               PROVE  /\ Depths[k] = n + 1 => k = i
                      /\ Depths[k] < n + 1 => Pcs(i) \subseteq Pcs(k) /\ Id(k) < Id(i)
    OBVIOUS
  <2>0. n \in Nat /\ Depths[i] \in Nat /\ Depths[k] \in Nat
    BY <1>0
  <2>1. instances[i].parent # 0
    BY <1>1, <2>0
  <2> DEFINE u == Up(i)
  <2>2. /\ u \in C /\ instances[i].parent = Id(u) /\ Pcs(i) \subseteq Pcs(u) /\ Id(u) < Id(i)
        /\ Depths[i] = Depths[u] + 1
    BY <1>3, <2>1
  <2>3. Depths[u] = n
    BY <1>0, <2>0, <2>2
  <2> HIDE DEF u
  <2>4. Good(u)
    BY <2>2, <2>3
  <2>5. CASE Depths[k] = n + 1
    <3>1. instances[k].parent # 0
      BY <1>1, <2>0, <2>5
    <3>2. Up(k) \in C /\ instances[k].parent = Id(Up(k)) /\ Depths[k] = Depths[Up(k)] + 1
      BY <1>3, <3>1
    <3>3. Depths[Up(k)] = n
      BY <1>0, <2>0, <2>5, <3>2
    <3>4. Up(k) = u
      BY <2>3, <2>4, <3>2, <3>3
    <3>5. k = i
      BY <1>2, <2>2, <3>2, <3>4
    <3>6. ~(Depths[k] < n + 1)
      BY <2>0, <2>5
    <3> QED BY <3>5, <3>6
  <2>6. CASE Depths[k] = n
    <3>1. k = u
      BY <2>3, <2>4, <2>6
    <3> QED BY <2>0, <2>2, <2>6, <3>1
  <2>7. CASE Depths[k] < n
    <3>1. Pcs(u) \subseteq Pcs(k) /\ Id(k) < Id(u)
      BY <2>3, <2>4, <2>7
    <3>2. Id(k) \in Nat /\ Id(u) \in Nat /\ Id(i) \in Nat
      BY <1>0, <2>2
    <3>3. Id(k) < Id(i) /\ Depths[k] # n + 1
      BY <2>0, <2>2, <2>7, <3>1, <3>2
    <3> QED BY <2>2, <3>1, <3>3
  <2>8. CASE Depths[k] > n + 1
    BY <2>0, <2>8
  <2> QED BY <2>0, <2>5, <2>6, <2>7, <2>8
<1>6. T = Nat
  <2> HIDE DEF T
  <2>1. T \in SUBSET Nat
    BY DEF T
  <2> QED BY <1>4, <1>5, <2>1, SetInduction
<1>7. \A i \in C : Good(i)
  BY <1>0, <1>6
<1> QED BY <1>7 DEF C

\* The last of them in the order of the entries is the deepest one.
LEMMA DeepestHolds ==
  ASSUME InstancesOk, RangesNest, NEW p, HoldingOf(p) # {}
  PROVE  \E i \in HoldingOf(p) :
           /\ Stream!owner_at(Rows, p) = i
           /\ \A k \in HoldingOf(p) :
                k # i => Depths[k] < Depths[i] /\ Pcs(i) \subseteq Pcs(k) /\ Id(k) < Id(i)
<1> DEFINE C == HoldingOf(p)
           deepest == {i \in C : \A k \in C : Depths[k] <= Depths[i]}
<1>0. \A i \in C : i \in Nat /\ i # 0 /\ Depths[i] \in Nat /\ Id(i) \in Nat /\ i \in Inst
  BY DepthsAre, InstanceIs DEF HoldingOf, InstancesOk
<1>1. PICK i \in C : \A k \in C : Depths[k] <= Depths[i]
  <2> DEFINE N == Len(dies)
             M == {N - Id(k) : k \in C}
  <2>1. N \in Nat /\ \A k \in C : Id(k) \in 1 .. N
    BY <1>0, DieIs, InstanceIs DEF InstancesOk
  <2>2. M \in SUBSET Nat /\ M # {}
    BY <2>1
  <2>3. PICK x \in M : \A y \in M : x <= y
    BY <2>2, Least
  <2>4. PICK i \in C : x = N - Id(i)
    OBVIOUS
  <2>5. ASSUME NEW k \in C PROVE Id(k) <= Id(i)
    <3>1. N - Id(i) <= N - Id(k)
      BY <2>3, <2>4
    <3> QED BY <1>0, <2>1, <3>1
  <2>6. ASSUME NEW k \in C PROVE Depths[k] <= Depths[i]
    <3>1. ~(Depths[i] < Depths[k])
      <4>1. ASSUME Depths[i] < Depths[k] PROVE FALSE
        <5>1. Id(i) < Id(k)
          BY <4>1, HoldingIsChain
        <5> QED BY <1>0, <2>5, <5>1
      <4> QED BY <4>1
    <3> QED BY <1>0, <3>1
  <2> QED BY <2>6
<1>2. ASSUME NEW k \in C, k # i
      PROVE  Depths[k] < Depths[i] /\ Pcs(i) \subseteq Pcs(k) /\ Id(k) < Id(i)
  <2>1. Depths[k] # Depths[i]
    BY <1>2, HoldingIsChain
  <2>2. Depths[k] < Depths[i]
    BY <1>0, <1>1, <2>1
  <2> QED BY <2>2, HoldingIsChain
<1>3. deepest = {i}
  <2>1. i \in deepest
    BY <1>1
  <2>2. ASSUME NEW k \in deepest PROVE k = i
    <3>1. Depths[i] <= Depths[k] /\ Depths[k] \in Nat /\ Depths[i] \in Nat
      BY <1>0
    <3> QED BY <1>2, <3>1
  <2> QED BY <2>1, <2>2
<1>4. Stream!owner_at(Rows, p) = i
  <2>1. C = {j \in DOMAIN Rows : p \in Rows[j].pcs}
    BY DEF HoldingOf, Rows
  <2>2. Stream!owner_at(Rows, p) = IF C = {} THEN 0 ELSE Min(deepest)
    BY <2>1 DEF Stream!owner_at, Depths, Stream!Min, Min
  <2>3. Min({i}) = i
    BY <1>0, MinIsMember
  <2> QED BY <1>3, <2>2, <2>3
<1> QED BY <1>2, <1>4

-----------------------------------------------------------------------------
\* The symbols of instances.
ConcreteOf ==
  CHOOSE w : w = [d \in 0 .. Len(dies) |->
                    IF d = 0 \/ dies[d].tag = "concrete" THEN d ELSE w[Nearest[dies[d].parent]]]

LEMMA ConcreteIs ==
  ASSUME DiesAre
  PROVE  \A d \in 0 .. Len(dies) :
           ConcreteOf[d] = IF d = 0 \/ dies[d].tag = "concrete" THEN d
                           ELSE ConcreteOf[Nearest[dies[d].parent]]
<1> DEFINE N == Len(dies)
           ends == {d \in 0 .. N : d = 0 \/ dies[d].tag = "concrete"}
           g == [d \in 1 .. N |-> Nearest[dies[d].parent]]
           Is(w) == w = [d \in 0 .. N |-> IF d = 0 \/ dies[d].tag = "concrete" THEN d
                                          ELSE w[Nearest[dies[d].parent]]]
<1>1. N \in Nat /\ 0 \in ends
  BY DieIs
<1>2. ASSUME NEW d \in 1 .. N PROVE g[d] \in 0 .. d - 1
  <2>1. dies[d].parent \in 0 .. d - 1 /\ dies[d].parent \in 0 .. N
    BY DieIs
  <2>2. Nearest[dies[d].parent] \in 0 .. dies[d].parent
    BY <2>1, NearestIs
  <2>3. Nearest[dies[d].parent] \in 0 .. d - 1
    BY <1>1, <2>1, <2>2
  <2> QED BY <2>3
<1>3. ASSUME NEW w, w = [d \in 0 .. N |-> IF d \in ends THEN d ELSE w[g[d]]] PROVE Is(w)
  <2>1. \A d \in 0 .. N :
          (IF d \in ends THEN d ELSE w[g[d]])
            = IF d = 0 \/ dies[d].tag = "concrete" THEN d ELSE w[Nearest[dies[d].parent]]
    BY <1>1
  <2> HIDE DEF ends, g
  <2>2. [d \in 0 .. N |-> IF d \in ends THEN d ELSE w[g[d]]]
          = [d \in 0 .. N |-> IF d = 0 \/ dies[d].tag = "concrete" THEN d
                              ELSE w[Nearest[dies[d].parent]]]
    BY <2>1
  <2> QED BY <1>3, <2>2
<1>4. \E w : Is(w)
  <2>1. \E w : w = [d \in 0 .. N |-> IF d \in ends THEN d ELSE w[g[d]]]
    <3> HIDE DEF N, ends, g
    <3> QED BY <1>1, <1>2, ClimbExists
  <2> HIDE DEF Is, ends, g, N
  <2> QED BY <1>3, <2>1
<1>5. ConcreteOf = CHOOSE w : Is(w)
  BY DEF ConcreteOf
<1>6. Is(ConcreteOf)
  <2> HIDE DEF Is
  <2> QED BY <1>4, <1>5
<1> DEFINE W == ConcreteOf
<1>7. W = [d \in 0 .. N |-> IF d = 0 \/ dies[d].tag = "concrete" THEN d
                            ELSE W[Nearest[dies[d].parent]]]
  BY <1>6
<1> HIDE DEF W, N
<1>8. \A d \in 0 .. N : W[d] = IF d = 0 \/ dies[d].tag = "concrete" THEN d
                               ELSE W[Nearest[dies[d].parent]]
  BY <1>7
<1> QED BY <1>8 DEF W, N

LEMMA RootIs ==
  ASSUME InstancesOk, RangesNest
  PROVE  \A i \in Inst : \E r \in Inst : /\ instances[r].kind = "concrete"
                                         /\ ConcreteOf[Id(i)] = Id(r) /\ Pcs(i) \subseteq Pcs(r)
                                         /\ instances[i].kind = "concrete" => r = i
<1> DEFINE Found(i) == \E r \in Inst : /\ instances[r].kind = "concrete"
                                       /\ ConcreteOf[Id(i)] = Id(r) /\ Pcs(i) \subseteq Pcs(r)
                                       /\ instances[i].kind = "concrete" => r = i
           T == {n \in Nat : \A i \in Inst : Id(i) <= n => Found(i)}
<1>0. DiesAre /\ \A i \in Inst : Id(i) \in Nat /\ Id(i) # 0 /\ Id(i) \in 0 .. Len(dies)
  BY InstanceIs DEF InstancesOk
<1>1. ASSUME NEW i \in Inst, instances[i].kind = "concrete" PROVE Found(i)
  <2>1. dies[Id(i)].tag = "concrete"
    BY <1>1, InstanceIs
  <2>2. ConcreteOf[Id(i)] = Id(i)
    BY <1>0, <2>1, ConcreteIs
  <2> QED BY <1>1, <2>2
<1>2. 0 \in T
  <2>1. \A i \in Inst : ~(Id(i) <= 0)
    BY InstanceIs
  <2> QED BY <2>1
<1>3. ASSUME NEW n \in T PROVE n + 1 \in T
  <2> SUFFICES ASSUME NEW i \in Inst, Id(i) <= n + 1, instances[i].kind # "concrete"
               PROVE  Found(i)
    BY <1>1
  <2>1. instances[i].parent # 0
    BY NestedIs
  <2>2. /\ Up(i) \in Inst /\ Id(Up(i)) = instances[i].parent /\ Id(Up(i)) < Id(i)
        /\ instances[i].parent = Nearest[dies[Id(i)].parent]
        /\ dies[Id(i)].tag # "concrete"
    BY <2>1, InstanceIs
  <2>3. ConcreteOf[Id(i)] = ConcreteOf[Id(Up(i))]
    BY <1>0, <2>2, ConcreteIs
  <2>4. Id(Up(i)) <= n /\ n \in Nat
    <3>1. Id(i) \in Nat /\ Id(Up(i)) \in Nat /\ n \in Nat
      BY <1>0, <2>2
    <3> HIDE DEF T
    <3> QED BY <2>2, <3>1
  <2>5. Found(Up(i))
    BY <2>2, <2>4
  <2>6. Pcs(i) \subseteq Pcs(Up(i))
    BY <2>2, NestedIs
  <2> QED BY <2>3, <2>5, <2>6
<1>4. T = Nat
  <2> HIDE DEF T
  <2>1. T \in SUBSET Nat
    BY DEF T
  <2> QED BY <1>2, <1>3, <2>1, SetInduction
<1>5. Len(dies) \in T
  BY <1>0, <1>4, DieIs
<1>6. \A i \in Inst : Id(i) <= Len(dies)
  BY InstanceIs
<1> QED BY <1>5, <1>6

LEMMA SymbolsAre ==
  ASSUME InstancesOk, RangesNest, EmittedAreSymbols, symbol_at = assigned_pcs, NEW i \in Inst
  PROVE  \E r \in Inst :
           /\ instances[r].kind = "concrete" /\ Pcs(i) \subseteq Pcs(r)
           /\ instances[i].kind = "concrete" => r = i
           /\ \E e \in DOMAIN symbol_at :
                /\ SymbolsOf(Id(i)) = {symbol_at[e]}
                /\ \A p \in DOMAIN symbol_at : p \in Pcs(r) <=> symbol_at[p] = symbol_at[e]
<1>1. PICK r \in Inst : /\ instances[r].kind = "concrete"
                        /\ ConcreteOf[Id(i)] = Id(r) /\ Pcs(i) \subseteq Pcs(r)
                        /\ instances[i].kind = "concrete" => r = i
  BY RootIs
<1> DEFINE e == Lowest(Pcs(r))
<1>2. /\ e \in DOMAIN symbol_at
      /\ \A p \in DOMAIN symbol_at : p \in Pcs(r) <=> symbol_at[p] = symbol_at[e]
  BY <1>1 DEF EmittedAreSymbols, Ids, Inst, Pcs
<1>3. Id(r) # 0 /\ dies[Id(r)].pcs = Pcs(r)
  BY <1>1, InstanceIs
<1>4. SymbolsOf(Id(i)) = {Narrowest(q) : q \in {s \in {e} : Holding(s) # {}}}
  <2>1. SymbolsOf(Id(i)) =
          LET entries == IF ConcreteOf[Id(i)] = 0 THEN {}
                         ELSE {Lowest(dies[ConcreteOf[Id(i)]].pcs)}
          IN {Narrowest(p) : p \in {q \in entries : Holding(q) # {}}}
    BY DEF SymbolsOf, ConcreteOf
  <2> QED BY <1>1, <1>3, <2>1
<1>5. Holding(e) # {} /\ Narrowest(e) = symbol_at[e]
  BY <1>2 DEF assigned_pcs
<1> HIDE DEF e
<1>6. SymbolsOf(Id(i)) = {symbol_at[e]}
  BY <1>4, <1>5
<1> QED BY <1>1, <1>2, <1>6

-----------------------------------------------------------------------------
\* Both programs find the same owner of an address.
LEMMA OwnerIs ==
  ASSUME InstancesOk, RangesNest, EmittedAreSymbols, symbol_at = assigned_pcs,
         NEW p \in DOMAIN symbol_at
  PROVE  (IF Stream!owner_at(Rows, p) = 0 THEN 0 ELSE Id(Stream!owner_at(Rows, p)))
           = IF InlineAt(p) # 0 THEN InlineAt(p) ELSE concrete_for_name(symbol_at[p])
<1> DEFINE C == HoldingOf(p)
           inlined == {j \in C : instances[j].kind = "inlined"}
           containing == {instances[j] : j \in inlined}
           mine == {c \in Inst : instances[c].kind = "concrete"
                                 /\ SymbolsOf(Id(c)) = {symbol_at[p]}}
           owner == Stream!owner_at(Rows, p)
<1>1. \A j \in C : j \in Inst /\ SymbolsOf(Id(j)) = {symbol_at[p]}
  <2> SUFFICES ASSUME NEW j \in Inst, p \in Pcs(j) PROVE SymbolsOf(Id(j)) = {symbol_at[p]}
    BY DEF HoldingOf
  <2> QED BY SymbolsAre
<1>2. \A j \in C : /\ j # 0 /\ Id(j) \in Nat /\ Id(j) # 0
                   /\ instances[j].kind \in {"concrete", "inlined"}
                   /\ IsFiniteSet(Pcs(j)) /\ Cardinality(Pcs(j)) \in Nat
  <2> SUFFICES ASSUME NEW j \in Inst
               PROVE  /\ j # 0 /\ Id(j) \in Nat /\ Id(j) # 0
                      /\ instances[j].kind \in {"concrete", "inlined"}
                      /\ IsFiniteSet(Pcs(j)) /\ Cardinality(Pcs(j)) \in Nat
    BY <1>1
  <2>1. /\ Id(j) \in 1 .. Len(dies) /\ Len(dies) \in Nat /\ IsFiniteSet(Pcs(j))
        /\ instances[j].kind \in {"concrete", "inlined"}
    BY InstanceIs
  <2>2. j # 0
    BY DEF InstancesOk
  <2>3. Cardinality(Pcs(j)) \in Nat
    BY <2>1, FS_CardinalityType
  <2> QED BY <2>1, <2>2, <2>3
<1>3. mine = {c \in C : instances[c].kind = "concrete"}
  <2>1. ASSUME NEW c \in Inst, instances[c].kind = "concrete", SymbolsOf(Id(c)) = {symbol_at[p]}
        PROVE  c \in C
    <3>1. PICK e \in DOMAIN symbol_at :
            /\ SymbolsOf(Id(c)) = {symbol_at[e]}
            /\ \A q \in DOMAIN symbol_at : q \in Pcs(c) <=> symbol_at[q] = symbol_at[e]
      BY <2>1, SymbolsAre
    <3> QED BY <2>1, <3>1 DEF HoldingOf
  <2> QED BY <1>1, <2>1
<1>4. InlineAt(p) = IF containing = {} THEN 0 ELSE Deepest(containing).id
  <2>1. p \in DOMAIN assigned_pcs /\ symbol_at[p] = Narrowest(p)
    BY DEF assigned_pcs
  <2>2. inlined = {j \in Ids("inlined") : p \in instances[j].pcs
                                          /\ SymbolsOf(instances[j].id) = {Narrowest(p)}}
    BY <1>1, <2>1 DEF Ids, HoldingOf, Inst, Pcs, Id
  <2> HIDE DEF inlined
  <2> QED BY <2>2 DEF InlineAt
<1>5. concrete_for_name(symbol_at[p])
        = IF mine = {} THEN 0 ELSE Id(CHOOSE i \in mine : \A k \in mine : k <= i)
  <2>1. mine = {i \in Ids("concrete") : SymbolsOf(instances[i].id) = {symbol_at[p]}}
    BY DEF Ids, Inst, Id
  <2> HIDE DEF mine
  <2> QED BY <2>1 DEF concrete_for_name, Id
<1>6. CASE C = {}
  <2>1. owner = 0
    <3>1. {i \in DOMAIN Rows : p \in Rows[i].pcs} = {}
      BY <1>6 DEF HoldingOf, Rows
    <3> QED BY <3>1 DEF Stream!owner_at
  <2>2. containing = {} /\ mine = {}
    BY <1>3, <1>6
  <2> QED BY <1>4, <1>5, <2>1, <2>2
<1>7. CASE C # {}
  <2>1. PICK i \in C : /\ owner = i
                       /\ \A k \in C : k # i => /\ Depths[k] < Depths[i]
                                                /\ Pcs(i) \subseteq Pcs(k) /\ Id(k) < Id(i)
    BY <1>7, DeepestHolds
  <2> HIDE DEF C, owner
  <2>2. owner # 0 /\ Id(i) # 0
    BY <1>2, <2>1
  <2>3. CASE instances[i].kind = "inlined"
    <3>1. instances[i] \in containing
      BY <2>3
    <3>2. ASSUME NEW j \in inlined, instances[j] # instances[i]
          PROVE  Earlier(<<Cardinality(Pcs(i)), -Id(i)>>, <<Cardinality(Pcs(j)), -Id(j)>>)
      <4>1. Pcs(i) \in SUBSET Pcs(j) /\ Id(j) < Id(i)
        BY <2>1, <3>2
      <4>2. Cardinality(Pcs(i)) <= Cardinality(Pcs(j))
        BY <1>2, <4>1, FS_Subset
      <4>3. /\ Cardinality(Pcs(i)) \in Nat /\ Cardinality(Pcs(j)) \in Nat
            /\ Id(i) \in Nat /\ Id(j) \in Nat
        BY <1>2
      <4>4. -Id(i) < -Id(j)
        BY <4>1, <4>3
      <4> QED BY <4>2, <4>3, <4>4 DEF Earlier
    <3>3. ASSUME NEW j \in inlined, instances[j] # instances[i]
          PROVE  ~Earlier(<<Cardinality(Pcs(j)), -Id(j)>>, <<Cardinality(Pcs(i)), -Id(i)>>)
      <4>1. Earlier(<<Cardinality(Pcs(i)), -Id(i)>>, <<Cardinality(Pcs(j)), -Id(j)>>)
        BY <3>2, <3>3
      <4>2. /\ Cardinality(Pcs(i)) \in Nat /\ Cardinality(Pcs(j)) \in Nat
            /\ Id(i) \in Nat /\ Id(j) \in Nat
        BY <1>2
      <4>3. -Id(i) \in Int /\ -Id(j) \in Int
        BY <4>2
      <4> QED BY <4>1, <4>2, <4>3 DEF Earlier
    <3> DEFINE Key(x) == <<Cardinality(x.pcs), -x.id>>
               First(x) == x \in containing
                           /\ \A y \in containing : x = y \/ Earlier(Key(x), Key(y))
    <3>4. First(instances[i])
      BY <3>1, <3>2 DEF Pcs, Id
    <3>5. ASSUME NEW x, First(x) PROVE x = instances[i]
      <4>1. PICK j \in inlined : x = instances[j]
        BY <3>5
      <4>2. x = instances[i] \/ Earlier(Key(x), Key(instances[i]))
        BY <3>1, <3>5
      <4> QED BY <3>3, <4>1, <4>2 DEF Pcs, Id
    <3>6. Deepest(containing) = CHOOSE x : First(x)
      BY DEF Deepest, Earliest
    <3>7. Deepest(containing) = instances[i]
      <4> HIDE DEF First
      <4> QED BY <3>4, <3>5, <3>6
    <3>8. InlineAt(p) = Id(i)
      <4>1. containing # {}
        BY <3>1
      <4> HIDE DEF containing
      <4> QED BY <1>4, <3>7, <4>1 DEF Id
    <3> QED BY <2>1, <2>2, <3>8 DEF owner
  <2>4. CASE instances[i].kind = "concrete"
    <3>1. Depths[i] = 0
      <4>1. i \in Inst
        BY <1>1
      <4>2. instances[i].parent = 0
        BY <2>4, <4>1, NestedIs
      <4> QED BY <4>1, <4>2, DepthsAre DEF InstancesOk
    <3>2. C = {i}
      <4>1. ASSUME NEW k \in C, k # i PROVE FALSE
        <5>1. Depths[k] < 0 /\ k \in Inst
          BY <1>1, <2>1, <3>1, <4>1
        <5>2. Depths[k] \in Nat
          BY <5>1, DepthsAre DEF InstancesOk
        <5> QED BY <5>1, <5>2
      <4> QED BY <4>1
    <3>3. containing = {} /\ mine = {i}
      BY <1>3, <2>4, <3>2
    <3>4. InlineAt(p) = 0
      BY <1>4, <3>3
    <3>5. concrete_for_name(symbol_at[p]) = Id(i)
      <4>1. (CHOOSE c \in mine : \A k \in mine : k <= c) = i
        <5>1. i \in Nat
          BY <1>1 DEF InstancesOk
        <5>2. \A c \in mine : c = i
          BY <3>3
        <5>3. i \in mine /\ \A k \in mine : k <= i
          BY <3>3, <5>1
        <5> HIDE DEF mine
        <5> QED BY <5>2, <5>3
      <4> HIDE DEF mine
      <4> QED BY <1>5, <3>3, <4>1
    <3> QED BY <2>1, <2>2, <3>4, <3>5 DEF owner
  <2> QED BY <1>2, <2>1, <2>3, <2>4
<1> QED BY <1>6, <1>7

LEMMA OwnersFollow ==
  ASSUME InstancesOk, RangesNest, EmittedAreSymbols, symbol_at = assigned_pcs,
         inline_at_pc = [p \in DOMAIN assigned_pcs |-> InlineAt(p)]
  PROVE  OwnersAgree
<1> DEFINE Parents == [i \in DOMAIN instances |->
             [pcs |-> instances[i].pcs,
              parent |-> IF instances[i].parent = 0 THEN 0
                         ELSE CHOOSE k \in DOMAIN instances : instances[k].id = instances[i].parent]]
<1>1. Parents = Rows
  BY DEF Rows, Inst, Pcs, Up, Id
<1>2. ASSUME NEW p \in DOMAIN symbol_at
      PROVE  (IF Stream!owner_at(Rows, p) = 0 THEN 0 ELSE instances[Stream!owner_at(Rows, p)].id)
               = IF inline_at_pc[p] # 0 THEN inline_at_pc[p] ELSE concrete_for_name(symbol_at[p])
  <2>1. inline_at_pc[p] = InlineAt(p)
    OBVIOUS
  <2>2. (IF Stream!owner_at(Rows, p) = 0 THEN 0 ELSE Id(Stream!owner_at(Rows, p)))
           = IF InlineAt(p) # 0 THEN InlineAt(p) ELSE concrete_for_name(symbol_at[p])
    BY OwnerIs
  <2> QED BY <2>1, <2>2 DEF Id
<1> HIDE DEF Parents
<1>3. ASSUME NEW p \in DOMAIN symbol_at
      PROVE  (IF Stream!owner_at(Parents, p) = 0 THEN 0
              ELSE instances[Stream!owner_at(Parents, p)].id)
               = IF inline_at_pc[p] # 0 THEN inline_at_pc[p] ELSE concrete_for_name(symbol_at[p])
  BY <1>1, <1>2
<1> QED BY <1>3 DEF OwnersAgree, Parents

-----------------------------------------------------------------------------
\* Both programs find the same steps inside a symbol, but for what BlocksAgree names.
LEMMA BlocksFollow ==
  ASSUME \A s \in symbols : s.start \in Nat /\ s.size \in Nat
  PROVE  BlocksAgree
<1> SUFFICES ASSUME NEW s \in symbols, NEW p \in Extent(s) \cap Addresses
             PROVE  NextOf(s, p) =
                      CASE code[p].kind \in {"call", "tail", "trap"} -> {p + 1} \cap Addresses \cap Extent(s)
                        [] code[p].kind = "jr" -> {}
                        [] OTHER -> Taken(p) \cap Extent(s)
  BY DEF BlocksAgree
<1> DEFINE after == {p + 1} \cap Extent(s) \cap Addresses
           target == IF code[p].kind \in {"branch", "jump"} THEN {code[p].to} ELSE {}
<1>1. s.start \in Extent(s)
  BY DEF Extent
<1>2. BlockStarts(s) \subseteq Extent(s)
  BY <1>1 DEF BlockStarts
<1>3. code[p].kind \in {"branch", "jump"} /\ code[p].to \in Extent(s)
        => code[p].to \in BlockStarts(s)
  BY DEF BlockStarts
<1>4. code[p].kind \in {"branch", "jump", "end", "jr", "call", "tail", "indirect"} => after \subseteq BlockStarts(s)
  BY DEF BlockStarts
<1>5. NextOf(s, p) =
        IF after # {} /\ after \cap BlockStarts(s) = {} THEN after
        ELSE (target \cap BlockStarts(s)) \cup (IF FallsThrough(p) THEN after ELSE {})
  BY DEF NextOf
<1>6. target \cap BlockStarts(s) = target \cap Extent(s)
  BY <1>2, <1>3
<1> HIDE DEF after
<1>7. NextOf(s, p) = (target \cap Extent(s)) \cup (IF FallsThrough(p) THEN after ELSE {})
  <2>1. CASE after # {} /\ after \cap BlockStarts(s) = {}
    <3>1. code[p].kind \notin {"branch", "jump", "end", "jr", "call", "tail", "indirect"}
      BY <1>4, <2>1
    <3> QED BY <1>5, <2>1, <3>1 DEF FallsThrough
  <2>2. CASE ~(after # {} /\ after \cap BlockStarts(s) = {})
    BY <1>5, <1>6, <2>2
  <2> QED BY <2>1, <2>2
<1>8. after = ({p + 1} \cap Addresses) \cap Extent(s)
  BY DEF after
<1> HIDE DEF after
<1>9. CASE code[p].kind = "branch"
  BY <1>7, <1>8, <1>9 DEF Taken, Follow, FallsThrough
<1>10. CASE code[p].kind = "jump"
  BY <1>7, <1>8, <1>10 DEF Taken, Follow, FallsThrough
<1>11. CASE code[p].kind \in {"call", "tail", "trap"}
  BY <1>7, <1>8, <1>11 DEF FallsThrough
<1>12. CASE code[p].kind \in {"end", "jr"}
  BY <1>7, <1>8, <1>12 DEF Taken, Follow, FallsThrough
<1>13. CASE code[p].kind \notin {"branch", "jump", "call", "tail", "trap", "end", "jr"}
  BY <1>7, <1>8, <1>13 DEF Taken, Follow, FallsThrough
<1> QED BY <1>9, <1>10, <1>11, <1>12, <1>13

-----------------------------------------------------------------------------
\* What the three passes over an input keep.
ToolsInv ==
  /\ built # "idle" => \E input \in FlameInputs :
                         code = input.code /\ symbols = input.symbols /\ dies = input.dies
  /\ built \notin {"idle", "extract"} => instances = function_instances
  /\ built \notin {"idle", "extract", "own"} =>
       /\ symbol_at = assigned_pcs
       /\ inline_at_pc = [p \in DOMAIN assigned_pcs |-> InlineAt(p)]

LEMMA ToolsInitially == AnalyzeInit \/ FlameInit => ToolsInv
BY DEF AnalyzeInit, FlameInit, ToolsInv

LEMMA SameInstances ==
  ASSUME UNCHANGED dies
  PROVE  function_instances' = function_instances
<1>1. Nearest' = Nearest
  BY DEF Nearest
<1> QED BY <1>1 DEF function_instances, InOrder

LEMMA SameOwners ==
  ASSUME UNCHANGED <<symbols, dies, instances>>
  PROVE  /\ assigned_pcs' = assigned_pcs /\ \A p : InlineAt(p)' = InlineAt(p)
         /\ \A d : SymbolsOf(d)' = SymbolsOf(d)
<1>1. Nearest' = Nearest
  BY DEF Nearest
<1>2. \A p : Holding(p)' = Holding(p)
  BY DEF Holding
<1>3. \A p : Narrowest(p)' = Narrowest(p)
  <2> SUFFICES ASSUME NEW p PROVE Narrowest(p)' = Narrowest(p)
    OBVIOUS
  <2>1. Holding(p)' = Holding(p)
    BY <1>2
  <2> QED BY <2>1 DEF Narrowest, Earliest
<1>4. assigned_pcs' = assigned_pcs
  BY <1>2, <1>3 DEF assigned_pcs
<1>5. \A d : SymbolsOf(d)' = SymbolsOf(d)
  <2> SUFFICES ASSUME NEW d PROVE SymbolsOf(d)' = SymbolsOf(d)
    OBVIOUS
  <2>1. ConcreteOf' = ConcreteOf
    BY <1>1 DEF ConcreteOf
  <2>2. SymbolsOf(d) =
          LET entries == IF ConcreteOf[d] = 0 THEN {} ELSE {Lowest(dies[ConcreteOf[d]].pcs)}
          IN {Narrowest(p) : p \in {q \in entries : Holding(q) # {}}}
    BY DEF SymbolsOf, ConcreteOf
  <2>3. SymbolsOf(d)' =
          LET entries == IF ConcreteOf'[d] = 0 THEN {} ELSE {Lowest(dies'[ConcreteOf'[d]].pcs)}
          IN {Narrowest(p)' : p \in {q \in entries : Holding(q)' # {}}}
    BY DEF SymbolsOf, ConcreteOf
  <2> QED BY <1>2, <1>3, <2>1, <2>2, <2>3
<1>6. \A p : InlineAt(p)' = InlineAt(p)
  BY <1>3, <1>5 DEF InlineAt, Ids
<1> QED BY <1>4, <1>5, <1>6

LEMMA ToolsStay ==
  ASSUME ToolsInv, UNCHANGED <<code, symbols, dies, instances, symbol_at, inline_at_pc>>,
         built' = built \/ (built = "tree" /\ built' \in {"done", "missing"})
  PROVE  ToolsInv'
<1>1. /\ function_instances' = function_instances
      /\ assigned_pcs' = assigned_pcs /\ \A p : InlineAt(p)' = InlineAt(p)
  BY SameInstances, SameOwners
<1>2. [p \in DOMAIN assigned_pcs |-> InlineAt(p)]' = [p \in DOMAIN assigned_pcs |-> InlineAt(p)]
  BY <1>1
<1> QED BY <1>1, <1>2 DEF ToolsInv

LEMMA ToolsKept == ToolsInv /\ [Analyze \/ Flame]_<<flowVars, flameVars>> => ToolsInv'
<1> SUFFICES ASSUME ToolsInv, [Analyze \/ Flame]_<<flowVars, flameVars>> PROVE ToolsInv'
  OBVIOUS
<1>1. CASE Analyze
  <2>1. UNCHANGED <<built, symbols, dies, instances, symbol_at, inline_at_pc>>
    BY <1>1 DEF Analyze, flameVars, inputVars, ownVars
  <2>2. code' = code
    BY <1>1 DEF Analyze, FlowNext, flowVars, graphVars, reachVars, searchVars, Partition, MakeGraph,
                Reach, BeginLoops, VisitRoot, VisitNext, SeenBefore, VisitReturns, BeginDepth, EndDepth
  <2> QED BY <2>1, <2>2, ToolsStay
<1>2. CASE Flame
  <2>0. code' = code
    BY <1>2 DEF Flame, flowVars
  <2>1. CASE Extract
    <3>1. /\ built = "extract" /\ built' = "own" /\ UNCHANGED <<symbols, dies>>
          /\ instances' = function_instances
      BY <2>1 DEF Extract, inputVars
    <3>2. function_instances' = function_instances
      BY <3>1, SameInstances
    <3> QED BY <2>0, <3>1, <3>2 DEF ToolsInv
  <2>2. CASE Own
    <3>1. /\ built = "own" /\ built' = "tree" /\ UNCHANGED <<symbols, dies, instances>>
          /\ symbol_at' = assigned_pcs
          /\ inline_at_pc' = [p \in DOMAIN assigned_pcs |-> InlineAt(p)]
      BY <2>2 DEF Own, inputVars
    <3>2. function_instances' = function_instances
      BY <3>1, SameInstances
    <3>3. assigned_pcs' = assigned_pcs /\ \A p : InlineAt(p)' = InlineAt(p)
      BY <3>1, SameOwners
    <3>4. [p \in DOMAIN assigned_pcs |-> InlineAt(p)]' = [p \in DOMAIN assigned_pcs |-> InlineAt(p)]
      BY <3>3
    <3> QED BY <2>0, <3>1, <3>2, <3>3, <3>4 DEF ToolsInv
  <2>3. CASE OpenRoot \/ OpenInline \/ OpenCall \/ CloseNode
    BY <2>0, <2>3, ToolsStay DEF OpenRoot, OpenInline, OpenCall, CloseNode, inputVars, ownVars
  <2>4. CASE Verify
    BY <2>0, <2>4, ToolsStay DEF Verify, inputVars, ownVars
  <2> QED BY <1>2, <2>1, <2>2, <2>3, <2>4 DEF Flame, FlameNext
<1>3. CASE UNCHANGED <<flowVars, flameVars>>
  BY <1>3, ToolsStay DEF flowVars, flameVars, inputVars, ownVars
<1> QED BY <1>1, <1>2, <1>3

LEMMA ToolsSuffice == ToolsInv => ToolsAgree
<1> SUFFICES ASSUME ToolsInv, built = "done"
             PROVE  (RangesNest /\ EmittedAreSymbols => OwnersAgree) /\ BlocksAgree
  BY DEF ToolsAgree
<1>1. PICK input \in FlameInputs : code = input.code /\ symbols = input.symbols /\ dies = input.dies
  BY DEF ToolsInv
<1>2. DiesAre /\ \A s \in symbols : s.start \in Nat /\ s.size \in Nat
  BY <1>1, FlameAssumption DEF DiesAre
<1>3. /\ instances = function_instances /\ symbol_at = assigned_pcs
      /\ inline_at_pc = [p \in DOMAIN assigned_pcs |-> InlineAt(p)]
  BY DEF ToolsInv
<1>4. BlocksAgree
  BY <1>2, BlocksFollow
<1>5. InstancesOk
  BY <1>2, <1>3, InstancesFollow
<1> QED BY <1>3, <1>4, <1>5, OwnersFollow

\* For all code, symbols and entries: the study of patterns and the flame graph
\* give every instruction to the same function instance, and the blocks of the
\* one program have the steps that the other one follows, but for calls, unlinked
\* pairs, traps and jumps through a register, where each does what BlocksAgree says.
THEOREM ToolsTheorem == BinarySpec => []ToolsAgree
BY ToolsInitially, ToolsKept, ToolsSuffice, PTL DEF BinarySpec

-----------------------------------------------------------------------------
\* A set in the order of keys that differ.
KeysDiffer(key, S) ==
  /\ \A x \in S : key[x][1] \in Int /\ key[x][2] \in Int
  /\ \A x, y \in S : key[x][1] = key[y][1] /\ key[x][2] = key[y][2] => x = y

ByKeys(key, S) ==
  [n \in 1 .. Cardinality(S) |->
     CHOOSE x \in S : Cardinality({y \in S : Earlier(key[y], key[x])}) = n - 1]

LEMMA OrderedIs ==
  ASSUME NEW S, IsFiniteSet(S), NEW key, KeysDiffer(key, S), NEW s, s = ByKeys(key, S)
  PROVE  s \in Seq(S) /\ Range(s) = S
<1> DEFINE R == {q \in S \X S : Earlier(key[q[1]], key[q[2]])}
           A(x) == Cardinality({y \in S : Earlier(key[y], key[x])})
           B(x) == Cardinality({y \in S : <<y, x>> \in R})
<1>1. \A x, y \in S : <<x, y>> \in R <=>
        key[x][1] < key[y][1] \/ (key[x][1] = key[y][1] /\ key[x][2] < key[y][2])
  BY DEF Earlier
<1>2. \A x \in S : A(x) = B(x)
  <2> SUFFICES ASSUME NEW x \in S PROVE A(x) = B(x)
    OBVIOUS
  <2>1. {y \in S : Earlier(key[y], key[x])} = {y \in S : <<y, x>> \in R}
    OBVIOUS
  <2> QED BY <2>1
<1>3. s = [n \in 1 .. Cardinality(S) |-> CHOOSE x \in S : A(x) = n - 1]
  BY DEF ByKeys
<1>4. Ranked(R, S) = [n \in 1 .. Cardinality(S) |-> CHOOSE x \in S : B(x) = n - 1]
  BY DEF Ranked
<1> HIDE DEF R, A, B
<1>5. StrictOrder(R, S)
  <2>1. \A x \in S : <<x, x>> \notin R
    BY <1>1 DEF KeysDiffer
  <2>2. \A x, y, z \in S : <<x, y>> \in R /\ <<y, z>> \in R => <<x, z>> \in R
    BY <1>1 DEF KeysDiffer
  <2>3. \A x, y \in S : x = y \/ <<x, y>> \in R \/ <<y, x>> \in R
    <3> SUFFICES ASSUME NEW x \in S, NEW y \in S, <<x, y>> \notin R, <<y, x>> \notin R PROVE x = y
      OBVIOUS
    <3>1. key[x][1] \in Int /\ key[x][2] \in Int /\ key[y][1] \in Int /\ key[y][2] \in Int
      BY DEF KeysDiffer
    <3>2. key[x][1] = key[y][1] /\ key[x][2] = key[y][2]
      BY <1>1, <3>1
    <3> QED BY <3>2 DEF KeysDiffer
  <2> QED BY <2>1, <2>2, <2>3 DEF StrictOrder
<1>6. s = Ranked(R, S)
  <2>1. \A n : (CHOOSE x \in S : A(x) = n - 1) = (CHOOSE x \in S : B(x) = n - 1)
    <3> SUFFICES ASSUME NEW n
                 PROVE  (CHOOSE x \in S : A(x) = n - 1) = (CHOOSE x \in S : B(x) = n - 1)
      OBVIOUS
    <3>1. \A x : (x \in S /\ A(x) = n - 1) <=> (x \in S /\ B(x) = n - 1)
      BY <1>2
    <3> QED BY <3>1
  <2> QED BY <1>3, <1>4, <2>1
<1>7. /\ \A n \in DOMAIN s : s[n] \in S
      /\ \A x \in S : \E n \in DOMAIN s : s[n] = x
  BY <1>5, <1>6, RankIsPosition
<1>8. DOMAIN s = 1 .. Cardinality(S) /\ Cardinality(S) \in Nat
  BY <1>3, FS_CardinalityType
<1>9. s = [n \in 1 .. Cardinality(S) |-> s[n]]
  BY <1>3
<1>10. s \in Seq(S)
  <2> DEFINE N == Cardinality(S)
  <2>1. N \in Nat /\ \A n \in 1 .. N : s[n] \in S
    BY <1>7, <1>8
  <2>2. s = [n \in 1 .. N |-> s[n]]
    BY <1>9
  <2> HIDE DEF N
  <2>3. s \in [1 .. N -> S]
    BY <2>1, <2>2
  <2> QED BY <2>1, <2>3, SeqDef
<1> QED BY <1>7, <1>10 DEF Range

-----------------------------------------------------------------------------
\* The direct calls.
CallerOf(p) == Earliest(Holding(p), LAMBDA s : <<s.start, Position(s.name)>>).name
EnteredBy(p) == {s \in symbols : s.start = code[p].to}
CalleeOf(p) == Earliest(EnteredBy(p), LAMBDA s : <<0, -Position(s.name)>>).name
CallPlaces == {p \in Addresses : /\ code[p].kind \in {"call", "tail"} /\ Holding(p) # {} /\ EnteredBy(p) # {}
                                 /\ CallerOf(p) # CalleeOf(p)}

LEMMA CallsAre ==
  direct_calls = {[caller |-> CallerOf(p), callee |-> CalleeOf(p), source |-> p] : p \in CallPlaces}
BY DEF direct_calls, CallerOf, CalleeOf, EnteredBy, CallPlaces

\* A call instruction has one row.
LEMMA RowsAre ==
  ASSUME call_rows = direct_calls
  PROVE  /\ IsFiniteSet(call_rows)
         /\ \A c \in call_rows : /\ c.source \in Addresses /\ c.source \in Nat /\ c.source # 0
                                 /\ c.source \in CallPlaces
                                 /\ c.caller = CallerOf(c.source) /\ c.callee = CalleeOf(c.source)
         /\ \A c, d \in call_rows : c.source = d.source => c = d
<1> DEFINE row(p) == [caller |-> CallerOf(p), callee |-> CalleeOf(p), source |-> p]
<1>0. CallPlaces \in SUBSET Addresses
  BY DEF CallPlaces
<1>1. call_rows = {row(p) : p \in CallPlaces}
  BY CallsAre
<1>2. IsFiniteSet(CallPlaces)
  BY <1>0, AddressesFinite, FS_Subset
<1>3. IsFiniteSet(call_rows)
  <2> DEFINE f == [p \in CallPlaces |-> row(p)]
  <2>1. f \in Surjection(CallPlaces, call_rows)
    BY <1>1 DEF Surjection
  <2> HIDE DEF f
  <2> QED BY <1>2, <2>1, FS_Surjection
<1>4. ASSUME NEW c \in call_rows
      PROVE  /\ c.source \in Addresses /\ c.source \in Nat /\ c.source # 0
             /\ c.source \in CallPlaces
             /\ c.caller = CallerOf(c.source) /\ c.callee = CalleeOf(c.source)
             /\ c = row(c.source)
  <2>1. PICK p \in CallPlaces : c = row(p)
    BY <1>1
  <2>2. p \in Addresses /\ p \in Nat /\ p # 0
    BY <1>0, FlameAssumption, IntervalFunctions
  <2> QED BY <2>1, <2>2
<1> HIDE DEF row
<1> QED BY <1>3, <1>4

-----------------------------------------------------------------------------
\* The nodes of the tree, by what they are anchored at.
RootName == root(ToSet(symbol_at))
CallAnchor(c) == IF c.source \in DOMAIN inline_at_pc /\ inline_at_pc[c.source] # 0
                 THEN <<"fi", inline_at_pc[c.source]>> ELSE <<"fn", c.caller>>
InlineIds == {instances[i].id : i \in Ids("inlined")}
AllNames == {RootName} \cup {c.callee : c \in call_rows}
Anchors == {<<"fn", n>> : n \in AllNames} \cup {<<"fi", id>> : id \in InlineIds}

ChildrenOf(id) == {instances[i].id : i \in {j \in Ids("inlined") : instances[j].parent = id}}
InstanceAt(a) == IF a[1] = "fi" THEN a[2] ELSE concrete_for_name(a[2])
OwnerOf(a) == IF InstanceAt(a) = 0 THEN <<"fn", Named(a[2]).start>> ELSE <<"fi", InstanceAt(a)>>
SelfOf(a) == IF a[1] = "fi" THEN {p \in DOMAIN inline_at_pc : inline_at_pc[p] = a[2]}
             ELSE {p \in DOMAIN symbol_at : symbol_at[p] = a[2] /\ inline_at_pc[p] = 0}

\* What is below a node.
BodyInlines(a) == IF InstanceAt(a) = 0 THEN {} ELSE ChildrenOf(InstanceAt(a))
BodyCalls(a) == {c \in call_rows : {c.caller, c.callee} \subseteq reachable /\ CallAnchor(c) = a}

LEMMA InlinesAre ==
  ASSUME InstancesOk
  PROVE  /\ InlineIds \in SUBSET (1 .. Len(dies)) /\ Len(dies) \in Nat
         /\ \A id : ChildrenOf(id) \in SUBSET InlineIds
<1>1. Len(dies) \in Nat
  BY DieIs DEF InstancesOk
<1>2. \A i \in Inst : instances[i].id \in 1 .. Len(dies)
  BY InstanceIs DEF Id
<1>3. \A kind : Ids(kind) \in SUBSET Inst
  BY DEF Ids, Inst
<1> QED BY <1>1, <1>2, <1>3 DEF InlineIds, ChildrenOf

\* What is inlined in an instance, by first address, none left out.
LEMMA ChildrenAre ==
  ASSUME InstancesOk, NEW id
  PROVE  /\ inline_children(id) \in Seq(ChildrenOf(id))
         /\ Range(inline_children(id)) = ChildrenOf(id)
<1> DEFINE S == ChildrenOf(id)
           key == [k \in S |-> <<Lowest(ById(k).pcs), k>>]
           s == inline_children(id)
           A(x) == Cardinality({y \in S : Earlier(<<Lowest(ById(y).pcs), y>>, <<Lowest(ById(x).pcs), x>>)})
           B(x) == Cardinality({y \in S : Earlier(key[y], key[x])})
<1>1. s = [n \in 1 .. Cardinality(S) |-> CHOOSE x \in S : A(x) = n - 1]
  BY DEF inline_children, InOrder, ChildrenOf
<1>2. \A x \in S : A(x) = B(x)
  <2> SUFFICES ASSUME NEW x \in S PROVE A(x) = B(x)
    OBVIOUS
  <2>1. {y \in S : Earlier(<<Lowest(ById(y).pcs), y>>, <<Lowest(ById(x).pcs), x>>)}
          = {y \in S : Earlier(key[y], key[x])}
    OBVIOUS
  <2> QED BY <2>1
<1>3. S \in SUBSET (1 .. Len(dies)) /\ Len(dies) \in Nat
  BY InlinesAre
<1>4. IsFiniteSet(S)
  <2>1. IsFiniteSet(1 .. Len(dies))
    BY <1>3, FS_Interval
  <2> QED BY <1>3, <2>1, FS_Subset
<1>5. KeysDiffer(key, S)
  <2>1. ASSUME NEW k \in S PROVE Lowest(ById(k).pcs) \in Nat /\ k \in Nat
    <3>1. \E i \in Inst : instances[i].id = k
      BY DEF ChildrenOf, Ids, Inst
    <3> DEFINE i == CHOOSE j \in Inst : instances[j].id = k
    <3>2. i \in Inst /\ ById(k) = instances[i]
      BY <3>1 DEF ById, Inst
    <3> HIDE DEF i
    <3>3. instances[i].pcs \in SUBSET Nat /\ instances[i].pcs # {}
      BY <3>2, InstanceIs DEF Pcs
    <3> QED BY <1>3, <3>2, <3>3, LowestIs
  <2> HIDE DEF S
  <2> QED BY <2>1 DEF KeysDiffer
<1> HIDE DEF S, key, A
<1>6. s = [n \in 1 .. Cardinality(S) |-> CHOOSE x \in S : B(x) = n - 1]
  <2> HIDE DEF B, s
  <2>1. \A n : (CHOOSE x \in S : A(x) = n - 1) = (CHOOSE x \in S : B(x) = n - 1)
    <3> SUFFICES ASSUME NEW n
                 PROVE  (CHOOSE x \in S : A(x) = n - 1) = (CHOOSE x \in S : B(x) = n - 1)
      OBVIOUS
    <3>1. \A x : (x \in S /\ A(x) = n - 1) <=> (x \in S /\ B(x) = n - 1)
      BY <1>2
    <3> QED BY <3>1
  <2> QED BY <1>1, <2>1
<1> HIDE DEF s
<1>7. s = ByKeys(key, S)
  BY <1>6 DEF ByKeys
<1>8. s \in Seq(S) /\ Range(s) = S
  BY <1>4, <1>5, <1>7, OrderedIs
<1> QED BY <1>8 DEF s, S

\* The calls of a node, by address, none left out.
LEMMA CallsInOrder ==
  ASSUME call_rows = direct_calls, NEW a
  PROVE  /\ anchored_calls(a) \in Seq(BodyCalls(a))
         /\ Range(anchored_calls(a)) = BodyCalls(a)
<1> DEFINE S == BodyCalls(a)
           key == [c \in S |-> <<0, c.source>>]
           s == anchored_calls(a)
           A(x) == Cardinality({y \in S : Earlier(<<0, y.source>>, <<0, x.source>>)})
           B(x) == Cardinality({y \in S : Earlier(key[y], key[x])})
<1>1. s = [n \in 1 .. Cardinality(S) |-> CHOOSE x \in S : A(x) = n - 1]
  BY DEF anchored_calls, InOrder, BodyCalls, CallAnchor
<1>2. \A x \in S : A(x) = B(x)
  <2> SUFFICES ASSUME NEW x \in S PROVE A(x) = B(x)
    OBVIOUS
  <2>1. {y \in S : Earlier(<<0, y.source>>, <<0, x.source>>)} = {y \in S : Earlier(key[y], key[x])}
    OBVIOUS
  <2> QED BY <2>1
<1>3. S \in SUBSET call_rows
  BY DEF BodyCalls
<1>4. IsFiniteSet(S)
  BY <1>3, RowsAre, FS_Subset
<1>5. KeysDiffer(key, S)
  <2>1. \A c \in S : c.source \in Nat
    BY <1>3, RowsAre
  <2>2. \A c, d \in S : c.source = d.source => c = d
    BY <1>3, RowsAre
  <2> HIDE DEF S
  <2> QED BY <2>1, <2>2 DEF KeysDiffer
<1> HIDE DEF S, key, A
<1>6. s = [n \in 1 .. Cardinality(S) |-> CHOOSE x \in S : B(x) = n - 1]
  <2> HIDE DEF B, s
  <2>1. \A n : (CHOOSE x \in S : A(x) = n - 1) = (CHOOSE x \in S : B(x) = n - 1)
    <3> SUFFICES ASSUME NEW n
                 PROVE  (CHOOSE x \in S : A(x) = n - 1) = (CHOOSE x \in S : B(x) = n - 1)
      OBVIOUS
    <3>1. \A x : (x \in S /\ A(x) = n - 1) <=> (x \in S /\ B(x) = n - 1)
      BY <1>2
    <3> QED BY <3>1
  <2> QED BY <1>1, <2>1
<1> HIDE DEF s
<1>7. s = ByKeys(key, S)
  BY <1>6 DEF ByKeys
<1>8. s \in Seq(S) /\ Range(s) = S
  BY <1>4, <1>5, <1>7, OrderedIs
<1> QED BY <1>8 DEF s, S

\* A frame shows what it is anchored at, and some of what is below it.
FrameSet ==
  [anchor : Anchors, site : Nat, cycle : BOOLEAN, active : SUBSET AllNames,
   machineOwner : {OwnerOf(a) : a \in Anchors}, self : {SelfOf(a) : a \in Anchors},
   inlines : Seq(InlineIds), calls : Seq(call_rows)]
FrameOk(f) ==
  /\ f \in FrameSet
  /\ f.machineOwner = OwnerOf(f.anchor) /\ f.self = SelfOf(f.anchor)
  /\ Range(f.calls) \subseteq BodyCalls(f.anchor)

\* What node() opens: below a function that is not open yet is all of its body.
LEMMA FunctionFrameIs ==
  ASSUME InstancesOk, call_rows = direct_calls,
         NEW name \in AllNames, NEW site \in Nat, NEW active \in SUBSET AllNames
  PROVE  LET f == FunctionFrame(name, site, active) IN
         /\ FrameOk(f)
         /\ f.anchor = <<"fn", name>> /\ f.site = site /\ f.active = active \cup {name}
         /\ name \notin active => /\ BodyInlines(f.anchor) \subseteq Range(f.inlines)
                                 /\ BodyCalls(f.anchor) \subseteq Range(f.calls)
<1> DEFINE f == FunctionFrame(name, site, active)
           id == concrete_for_name(name)
           a == <<"fn", name>>
           cycle == name \in active
           inlines == IF id = 0 \/ cycle THEN <<>> ELSE inline_children(id)
           calls_ == IF cycle THEN <<>> ELSE anchored_calls(a)
<1>1. a \in Anchors /\ InstanceAt(a) = id /\ a[1] = "fn" /\ a[2] = name
  BY DEF Anchors, InstanceAt
<1>2. /\ inlines \in Seq(InlineIds)
      /\ ~cycle => BodyInlines(a) \subseteq Range(inlines)
  <2>1. /\ inline_children(id) \in Seq(ChildrenOf(id)) /\ Range(inline_children(id)) = ChildrenOf(id)
        /\ ChildrenOf(id) \in SUBSET InlineIds
    BY ChildrenAre, InlinesAre
  <2>2. inline_children(id) \in Seq(InlineIds)
    <3> HIDE DEF id
    <3> QED BY <2>1
  <2>3. <<>> \in Seq(InlineIds)
    OBVIOUS
  <2>4. BodyInlines(a) = IF id = 0 THEN {} ELSE ChildrenOf(id)
    BY <1>1 DEF BodyInlines
  <2> HIDE DEF id, a, cycle
  <2> QED BY <2>1, <2>2, <2>3, <2>4
<1>3. /\ calls_ \in Seq(call_rows) /\ Range(calls_) \subseteq BodyCalls(a)
      /\ ~cycle => BodyCalls(a) \subseteq Range(calls_)
  <2>1. /\ anchored_calls(a) \in Seq(BodyCalls(a)) /\ Range(anchored_calls(a)) = BodyCalls(a)
        /\ BodyCalls(a) \in SUBSET call_rows
    BY CallsInOrder DEF BodyCalls
  <2> HIDE DEF a, cycle
  <2>2. anchored_calls(a) \in Seq(call_rows)
    BY <2>1
  <2>3. <<>> \in Seq(call_rows) /\ Range(<<>>) = {}
    BY DEF Range
  <2> QED BY <2>1, <2>2, <2>3
<1>4. OwnerOf(a) = IF id = 0 THEN <<"fn", Named(name).start>> ELSE <<"fi", id>>
  BY <1>1 DEF OwnerOf
<1>5. SelfOf(a) = {p \in DOMAIN symbol_at : symbol_at[p] = name /\ inline_at_pc[p] = 0}
  BY <1>1 DEF SelfOf
<1>6. f = [anchor |-> a, site |-> site, cycle |-> cycle, active |-> active \cup {name},
           machineOwner |-> OwnerOf(a), self |-> SelfOf(a), inlines |-> inlines, calls |-> calls_]
  BY <1>4, <1>5 DEF FunctionFrame
<1> HIDE DEF f
<1>7. cycle \in BOOLEAN /\ active \cup {name} \in SUBSET AllNames
  OBVIOUS
<1>8. f \in FrameSet
  <2> HIDE DEF a, cycle, inlines, calls_
  <2> QED BY <1>1, <1>2, <1>3, <1>6, <1>7 DEF FrameSet
<1> HIDE DEF cycle, inlines, calls_
<1>9. FrameOk(f)
  BY <1>3, <1>6, <1>8 DEF FrameOk
<1>10. /\ f.anchor = a /\ f.site = site /\ f.active = active \cup {name}
       /\ f.inlines = inlines /\ f.calls = calls_
  <2> HIDE DEF a
  <2> QED BY <1>6
<1>11. name \notin active => /\ BodyInlines(a) \subseteq Range(inlines)
                            /\ BodyCalls(a) \subseteq Range(calls_)
  <2> HIDE DEF a
  <2> QED BY <1>2, <1>3 DEF cycle
<1> QED BY <1>9, <1>10, <1>11 DEF f

\* What inline_node() opens: below the first occurrence is all of its body.
LEMMA InlineFrameIs ==
  ASSUME InstancesOk, call_rows = direct_calls,
         NEW id \in InlineIds, NEW active \in SUBSET AllNames
  PROVE  LET f == InlineFrame(id, active) IN
         /\ FrameOk(f)
         /\ f.anchor = <<"fi", id>> /\ f.site = 0 /\ f.active = active
         /\ id \notin expanded_inline => /\ BodyInlines(f.anchor) \subseteq Range(f.inlines)
                                        /\ BodyCalls(f.anchor) \subseteq Range(f.calls)
<1> DEFINE f == InlineFrame(id, active)
           a == <<"fi", id>>
           first == id \notin expanded_inline
           inlines == IF first THEN inline_children(id) ELSE <<>>
           calls_ == IF first THEN anchored_calls(a) ELSE <<>>
<1>1. a \in Anchors /\ InstanceAt(a) = id /\ a[1] = "fi" /\ a[2] = id
  BY DEF Anchors, InstanceAt
<1>2. /\ inlines \in Seq(InlineIds)
      /\ first => BodyInlines(a) \subseteq Range(inlines)
  <2>1. /\ inline_children(id) \in Seq(ChildrenOf(id)) /\ Range(inline_children(id)) = ChildrenOf(id)
        /\ ChildrenOf(id) \in SUBSET InlineIds
    BY ChildrenAre, InlinesAre
  <2>2. inline_children(id) \in Seq(InlineIds)
    BY <2>1
  <2>3. <<>> \in Seq(InlineIds)
    OBVIOUS
  <2>4. BodyInlines(a) \subseteq ChildrenOf(id)
    BY <1>1 DEF BodyInlines
  <2> HIDE DEF a, first
  <2> QED BY <2>1, <2>2, <2>3, <2>4
<1>3. /\ calls_ \in Seq(call_rows) /\ Range(calls_) \subseteq BodyCalls(a)
      /\ first => BodyCalls(a) \subseteq Range(calls_)
  <2>1. /\ anchored_calls(a) \in Seq(BodyCalls(a)) /\ Range(anchored_calls(a)) = BodyCalls(a)
        /\ BodyCalls(a) \in SUBSET call_rows
    BY CallsInOrder DEF BodyCalls
  <2> HIDE DEF a, first
  <2>2. anchored_calls(a) \in Seq(call_rows)
    BY <2>1
  <2>3. <<>> \in Seq(call_rows) /\ Range(<<>>) = {}
    BY DEF Range
  <2> QED BY <2>1, <2>2, <2>3
<1>4. OwnerOf(a) = <<"fi", id>>
  <2>1. id # 0
    BY InlinesAre
  <2> QED BY <1>1, <2>1 DEF OwnerOf
<1>5. SelfOf(a) = {p \in DOMAIN inline_at_pc : inline_at_pc[p] = id}
  BY <1>1 DEF SelfOf
<1>6. f = [anchor |-> a, site |-> 0, cycle |-> FALSE, active |-> active,
           machineOwner |-> OwnerOf(a), self |-> SelfOf(a), inlines |-> inlines, calls |-> calls_]
  BY <1>4, <1>5 DEF InlineFrame
<1> HIDE DEF f
<1>7. f \in FrameSet
  <2> HIDE DEF a, inlines, calls_
  <2> QED BY <1>1, <1>2, <1>3, <1>6 DEF FrameSet
<1> HIDE DEF first, inlines, calls_
<1>8. FrameOk(f)
  BY <1>3, <1>6, <1>7 DEF FrameOk
<1>9. /\ f.anchor = a /\ f.site = 0 /\ f.active = active
      /\ f.inlines = inlines /\ f.calls = calls_
  <2> HIDE DEF a
  <2> QED BY <1>6
<1>10. id \notin expanded_inline => /\ BodyInlines(a) \subseteq Range(inlines)
                                   /\ BodyCalls(a) \subseteq Range(calls_)
  <2> HIDE DEF a
  <2> QED BY <1>2, <1>3 DEF first
<1> QED BY <1>8, <1>9, <1>10 DEF f

-----------------------------------------------------------------------------
\* Beginnings of a sequence.
Beginnings(s) == {SubSeq(s, 1, k) : k \in 1 .. Len(s)}

LEMMA BeginningsOfAppend ==
  ASSUME NEW S, NEW s \in Seq(S), NEW x \in S
  PROVE  LET t == Append(s, x) IN
         /\ t \in Seq(S) /\ t # <<>> /\ Front(t) = s /\ Last(t) = x
         /\ Beginnings(t) = Beginnings(s) \cup {t}
<1> DEFINE t == Append(s, x)
<1>1. /\ t \in Seq(S) /\ Len(t) = Len(s) + 1 /\ Len(s) \in Nat /\ t[Len(t)] = x
      /\ \A k \in 1 .. Len(s) : t[k] = s[k]
  OBVIOUS
<1> HIDE DEF t
<1>2. \A k \in 0 .. Len(s) : SubSeq(t, 1, k) = SubSeq(s, 1, k)
  <2> SUFFICES ASSUME NEW k \in 0 .. Len(s) PROVE SubSeq(t, 1, k) = SubSeq(s, 1, k)
    OBVIOUS
  <2>1. SubSeq(t, 1, k) = [i \in 1 .. k |-> t[i]] /\ SubSeq(s, 1, k) = [i \in 1 .. k |-> s[i]]
    BY <1>1
  <2>2. \A i \in 1 .. k : t[i] = s[i]
    BY <1>1
  <2> QED BY <2>1, <2>2
<1>3. SubSeq(s, 1, Len(s)) = s /\ SubSeq(t, 1, Len(t)) = t
  BY <1>1
<1>4. Front(t) = s
  <2>1. Len(t) - 1 = Len(s)
    BY <1>1
  <2> QED BY <1>1, <1>2, <1>3, <2>1 DEF Front
<1>5. Beginnings(t) = Beginnings(s) \cup {t}
  <2>1. 1 .. Len(t) = (1 .. Len(s)) \cup {Len(t)}
    BY <1>1
  <2>2. \A k \in 1 .. Len(s) : SubSeq(t, 1, k) = SubSeq(s, 1, k)
    BY <1>2
  <2> QED BY <1>3, <2>1, <2>2 DEF Beginnings
<1>6. t # <<>> /\ Last(t) = x
  BY <1>1 DEF Last
<1> QED BY <1>1, <1>4, <1>5, <1>6 DEF t

LEMMA BeginningsOfFront ==
  ASSUME NEW S, NEW s \in Seq(S), s # <<>>
  PROVE  /\ Front(s) \in Seq(S) /\ Len(Front(s)) = Len(s) - 1 /\ Last(s) \in S
         /\ \A k \in 1 .. Len(s) - 1 : Front(s)[k] = s[k]
         /\ Beginnings(s) = Beginnings(Front(s)) \cup {s}
<1>1. Len(s) \in Nat /\ Len(s) # 0
  OBVIOUS
<1>2. /\ Front(s) \in Seq(S) /\ Len(Front(s)) = Len(s) - 1 /\ Last(s) \in S
      /\ \A k \in 1 .. Len(s) - 1 : Front(s)[k] = s[k]
  <2> DEFINE n == Len(s) - 1
  <2>1. n \in Nat /\ n <= Len(s) /\ \A i \in 1 .. n : s[i] \in S
    BY <1>1
  <2>2. Front(s) = [i \in 1 .. n |-> s[i]]
    BY <1>1, <2>1 DEF Front
  <2>3. Last(s) \in S
    BY <1>1 DEF Last
  <2> HIDE DEF n
  <2>4. Front(s) \in [1 .. n -> S]
    BY <2>1, <2>2
  <2>5. Front(s) \in Seq(S) /\ Len(Front(s)) = n
    BY <2>1, <2>2, <2>4
  <2> QED BY <2>2, <2>3, <2>5 DEF n
<1>3. s = Append(Front(s), Last(s))
  <2> DEFINE t == Append(Front(s), Last(s))
  <2>1. t \in Seq(S) /\ Len(t) = Len(s) /\ \A k \in 1 .. Len(s) : t[k] = s[k]
    BY <1>1, <1>2 DEF Last
  <2> HIDE DEF t
  <2>2. t = s
    BY <2>1
  <2> QED BY <2>2 DEF t
<1>4. Beginnings(s) = Beginnings(Front(s)) \cup {s}
  <2> DEFINE t == Front(s)
             x == Last(s)
  <2>1. t \in Seq(S) /\ x \in S /\ s = Append(t, x)
    BY <1>2, <1>3
  <2> HIDE DEF t, x
  <2>2. Beginnings(s) = Beginnings(t) \cup {s}
    BY <2>1, BeginningsOfAppend
  <2> QED BY <2>2 DEF t
<1> QED BY <1>2, <1>4

-----------------------------------------------------------------------------
\* The tree so far: its nodes are the ones on the chain and the ones with meta data.
NodeSet == Anchors \X Nat
Nodes == [k \in DOMAIN frames |-> <<frames[k].anchor, frames[k].site>>]
Keys == Beginnings(Nodes) \cup {m.key : m \in meta}

BodyNames == (IF frames = <<>> /\ meta = {} THEN {} ELSE {RootName})
             \cup {c.callee : c \in {d \in call_rows : d.source \in expanded_calls}}
Bodies == {<<"fn", n>> : n \in BodyNames} \cup {<<"fi", id>> : id \in expanded_inline}

FramesOk ==
  /\ frames \in Seq(FrameSet)
  /\ \A f \in Range(frames) : FrameOk(f) /\ f.active \subseteq BodyNames
KeysOk == \A x \in Keys : x \in Seq(NodeSet) /\ x # <<>>
MetaOk ==
  \A m \in meta : /\ m.machineOwner = OwnerOf(Last(m.key)[1]) /\ m.self = SelfOf(Last(m.key)[1])
                  /\ m.callsitePc = Last(m.key)[2]

\* What was expanded has a node, a call site not more than one, below one that
\* the call is in; what is not, and is below a node, is yet to come.
Shown ==
  /\ \A a \in Bodies : \E x \in Keys : Last(x)[1] = a
  /\ \A p \in expanded_calls : \E x \in Keys : Last(x)[2] = p
Once ==
  /\ \A x \in Keys : Last(x)[2] # 0 => Last(x)[2] \in expanded_calls
  /\ \A j, k \in DOMAIN Nodes : Nodes[j][2] = Nodes[k][2] /\ Nodes[k][2] # 0 => j = k
  /\ \A k \in DOMAIN Nodes : \A m \in meta : Nodes[k][2] # 0 => m.callsitePc # Nodes[k][2]
  /\ \A m, o \in meta : m.callsitePc = o.callsitePc /\ o.callsitePc # 0 => m = o
Placed ==
  \A x \in Keys : Last(x)[2] # 0 =>
    Front(x) \in Keys /\ \E c \in call_rows : c.source = Last(x)[2] /\ Last(Front(x))[1] = CallAnchor(c)
Waits ==
  \A a \in Bodies :
    /\ \A id \in BodyInlines(a) :
         id \in expanded_inline \/ \E k \in DOMAIN frames : id \in Range(frames[k].inlines)
    /\ \A c \in BodyCalls(a) :
         c.source \in expanded_calls \/ \E k \in DOMAIN frames : c \in Range(frames[k].calls)

NodesInv == KeysOk /\ MetaOk /\ Shown /\ Once /\ Placed

SameInputs == UNCHANGED <<symbols, dies, instances, call_rows, symbol_at, inline_at_pc, reachable>>

\* What is said of the tree depends on nothing that the walk changes.
LEMMA SameTree ==
  ASSUME SameInputs
  PROVE  /\ Anchors' = Anchors /\ AllNames' = AllNames /\ RootName' = RootName
         /\ InlineIds' = InlineIds /\ NodeSet' = NodeSet
         /\ \A a : /\ OwnerOf(a)' = OwnerOf(a) /\ SelfOf(a)' = SelfOf(a)
                  /\ BodyInlines(a)' = BodyInlines(a) /\ BodyCalls(a)' = BodyCalls(a)
         /\ \A c : CallAnchor(c)' = CallAnchor(c)
         /\ FrameSet' = FrameSet /\ \A f : FrameOk(f)' = FrameOk(f)
         /\ expected_instances' = expected_instances
<1>1. RootName' = RootName
  BY DEF SameInputs, RootName
<1>2. \A c : CallAnchor(c)' = CallAnchor(c)
  BY DEF SameInputs, CallAnchor
<1>3. InlineIds' = InlineIds /\ \A id : ChildrenOf(id)' = ChildrenOf(id)
  BY DEF SameInputs, InlineIds, ChildrenOf, Ids
<1>4. AllNames' = AllNames
  BY <1>1 DEF SameInputs, AllNames
<1>5. Anchors' = Anchors
  BY <1>3, <1>4 DEF Anchors
<1>6. NodeSet' = NodeSet
  BY <1>5 DEF NodeSet
<1>7. \A d : SymbolsOf(d)' = SymbolsOf(d)
  BY SameOwners DEF SameInputs
<1>8. \A n : concrete_for_name(n)' = concrete_for_name(n)
  <2> SUFFICES ASSUME NEW n PROVE concrete_for_name(n)' = concrete_for_name(n)
    OBVIOUS
  <2> DEFINE mine == {i \in Ids("concrete") : SymbolsOf(instances[i].id) = {n}}
             last == CHOOSE i \in mine : \A k \in mine : k <= i
  <2>1. mine' = mine
    BY <1>7 DEF SameInputs, Ids
  <2>2. last' = last
    <3> HIDE DEF mine
    <3> QED BY <2>1
  <2>3. concrete_for_name(n) = IF mine = {} THEN 0 ELSE instances[last].id
    BY DEF concrete_for_name
  <2>4. concrete_for_name(n)' = IF mine' = {} THEN 0 ELSE instances'[last'].id
    BY DEF concrete_for_name
  <2> HIDE DEF mine, last
  <2> QED BY <2>1, <2>2, <2>3, <2>4 DEF SameInputs
<1>9. \A a : InstanceAt(a)' = InstanceAt(a)
  BY <1>8 DEF InstanceAt
<1>10. \A n : Named(n)' = Named(n)
  BY DEF SameInputs, Named
<1>11. \A a : OwnerOf(a)' = OwnerOf(a)
  BY <1>9, <1>10 DEF OwnerOf
<1>12. \A a : SelfOf(a)' = SelfOf(a)
  BY DEF SameInputs, SelfOf
<1>13. \A a : BodyInlines(a)' = BodyInlines(a)
  BY <1>3, <1>9 DEF BodyInlines
<1>14. \A a : BodyCalls(a)' = BodyCalls(a)
  BY <1>2 DEF SameInputs, BodyCalls
<1>15. FrameSet' = FrameSet
  BY <1>3, <1>4, <1>5, <1>11, <1>12 DEF SameInputs, FrameSet
<1>16. \A f : FrameOk(f)' = FrameOk(f)
  BY <1>11, <1>12, <1>14, <1>15 DEF FrameOk
<1>17. expected_instances' = expected_instances
  BY <1>7, <1>8, <1>10 DEF SameInputs, expected_instances
<1> QED BY <1>1, <1>2, <1>3, <1>4, <1>5, <1>6, <1>11, <1>12, <1>13, <1>14, <1>15, <1>16, <1>17

\* The nodes of the chain are those of its frames.
LEMMA NodesAre ==
  ASSUME frames \in Seq(FrameSet)
  PROVE  /\ Nodes \in Seq(NodeSet) /\ Len(Nodes) = Len(frames) /\ DOMAIN Nodes = DOMAIN frames
         /\ DOMAIN frames = 1 .. Len(frames) /\ Len(frames) \in Nat
         /\ \A k \in DOMAIN frames : Nodes[k] = <<frames[k].anchor, frames[k].site>>
         /\ frames # <<>> => Nodes # <<>> /\ Last(Nodes) = <<Top.anchor, Top.site>>
<1>1. DOMAIN frames = 1 .. Len(frames) /\ Len(frames) \in Nat
  OBVIOUS
<1>2. \A k \in DOMAIN frames : Nodes[k] = <<frames[k].anchor, frames[k].site>>
  BY DEF Nodes
<1>3. ASSUME NEW k \in DOMAIN frames PROVE Nodes[k] \in NodeSet
  <2>1. frames[k] \in FrameSet
    OBVIOUS
  <2>2. frames[k].anchor \in Anchors /\ frames[k].site \in Nat
    BY <2>1 DEF FrameSet
  <2>3. Nodes[k] = <<frames[k].anchor, frames[k].site>>
    BY <1>2
  <2> HIDE DEF Nodes
  <2> QED BY <2>2, <2>3 DEF NodeSet
<1>4. Nodes \in [1 .. Len(frames) -> NodeSet]
  BY <1>1, <1>3 DEF Nodes
<1>5. Nodes \in Seq(NodeSet) /\ Len(Nodes) = Len(frames)
  BY <1>1, <1>4, SeqDef
<1>6. frames # <<>> => Len(frames) \in DOMAIN frames /\ Nodes # <<>>
  BY <1>1, <1>5
<1> QED BY <1>1, <1>2, <1>4, <1>5, <1>6 DEF Top, Last

\* Nothing about the nodes changes.
LEMMA NodesStay ==
  ASSUME NodesInv, SameInputs, Nodes' = Nodes, meta' = meta, Bodies' = Bodies,
         expanded_calls' = expanded_calls
  PROVE  NodesInv'
<1>1. Keys' = Keys
  BY DEF Keys
<1>2. KeysOk'
  BY <1>1, SameTree DEF NodesInv, KeysOk
<1>3. MetaOk'
  BY SameTree DEF NodesInv, MetaOk
<1>4. Shown'
  BY <1>1 DEF NodesInv, Shown
<1>5. Once'
  BY <1>1 DEF NodesInv, Once
<1>6. Placed'
  <2>1. call_rows' = call_rows /\ \A c : CallAnchor(c)' = CallAnchor(c)
    BY SameTree DEF SameInputs
  <2> QED BY <1>1, <2>1 DEF NodesInv, Placed
<1> QED BY <1>2, <1>3, <1>4, <1>5, <1>6 DEF NodesInv

\* A node is opened, for the call site p or for none.
LEMMA NodeOpened ==
  ASSUME NodesInv, SameInputs, Nodes \in Seq(NodeSet), NEW a \in Anchors, NEW p \in Nat,
         Nodes' = Append(Nodes, <<a, p>>), meta' = meta, Bodies' = Bodies \cup {a},
         \/ p = 0 /\ expanded_calls' = expanded_calls
         \/ /\ p \notin expanded_calls /\ expanded_calls' = expanded_calls \cup {p}
            /\ Nodes # <<>> /\ \E c \in call_rows : c.source = p /\ Last(Nodes)[1] = CallAnchor(c)
  PROVE  NodesInv'
<1> DEFINE x == Append(Nodes, <<a, p>>)
<1>1. <<a, p>> \in NodeSet
  BY DEF NodeSet
<1>2. /\ x \in Seq(NodeSet) /\ x # <<>> /\ Front(x) = Nodes /\ Last(x) = <<a, p>>
      /\ Beginnings(x) = Beginnings(Nodes) \cup {x}
  BY <1>1, BeginningsOfAppend
<1>3. /\ Len(x) = Len(Nodes) + 1 /\ Len(Nodes) \in Nat /\ DOMAIN Nodes = 1 .. Len(Nodes)
      /\ DOMAIN x = 1 .. Len(Nodes) + 1
      /\ \A k \in 1 .. Len(Nodes) : x[k] = Nodes[k]
      /\ x[Len(Nodes) + 1] = <<a, p>>
  BY <1>1
<1> HIDE DEF x
<1>0. Nodes' = x
  BY DEF x
<1>4. Keys' = Keys \cup {x}
  BY <1>0, <1>2 DEF Keys
<1>5. expanded_calls \subseteq expanded_calls' /\ expanded_calls' \subseteq expanded_calls \cup {p}
      /\ (p # 0 => p \in expanded_calls' /\ p \notin expanded_calls)
  OBVIOUS
<1>6. KeysOk'
  BY <1>2, <1>4, SameTree DEF NodesInv, KeysOk
<1>7. MetaOk'
  BY SameTree DEF NodesInv, MetaOk
<1>8. Shown'
  <2>1. \A b \in Bodies' : \E y \in Keys' : Last(y)[1] = b
    BY <1>2, <1>4 DEF NodesInv, Shown
  <2>2. \A q \in expanded_calls' : \E y \in Keys' : Last(y)[2] = q
    BY <1>2, <1>4, <1>5 DEF NodesInv, Shown
  <2> QED BY <2>1, <2>2 DEF Shown
<1>9. Once'
  <2>1. \A y \in Keys : Last(y)[2] # 0 => Last(y)[2] \in expanded_calls
    BY DEF NodesInv, Once
  <2>2. ASSUME NEW k \in DOMAIN Nodes, Nodes[k][2] # 0 PROVE Nodes[k][2] \in expanded_calls
    <3> DEFINE y == SubSeq(Nodes, 1, k)
    <3>1. y \in Keys
      BY <1>3 DEF Keys, Beginnings
    <3>2. Last(y) = Nodes[k]
      <4>1. k \in 1 .. Len(Nodes) /\ k \in Nat
        BY <1>3
      <4>2. Len(y) = k /\ y[k] = Nodes[k]
        BY <1>3, <4>1
      <4> QED BY <4>2 DEF Last
    <3> HIDE DEF y
    <3> QED BY <2>1, <2>2, <3>1, <3>2
  <2>3. \A m \in meta : m.callsitePc # 0 => m.callsitePc \in expanded_calls
    <3> SUFFICES ASSUME NEW m \in meta, m.callsitePc # 0 PROVE m.callsitePc \in expanded_calls
      OBVIOUS
    <3>1. m.key \in Keys /\ Last(m.key)[2] = m.callsitePc
      BY DEF NodesInv, MetaOk, Keys
    <3> QED BY <2>1, <3>1
  <2>4. \A y \in Keys' : Last(y)[2] # 0 => Last(y)[2] \in expanded_calls'
    BY <1>2, <1>4, <1>5, <2>1
  <2>5. ASSUME NEW j \in DOMAIN x, NEW k \in DOMAIN x, x[j][2] = x[k][2], x[k][2] # 0 PROVE j = k
    <3>1. CASE j \in DOMAIN Nodes /\ k \in DOMAIN Nodes
      BY <1>3, <2>5, <3>1 DEF NodesInv, Once
    <3>2. CASE j = Len(Nodes) + 1 /\ k \in DOMAIN Nodes
      BY <1>3, <1>5, <2>2, <2>5, <3>2
    <3>3. CASE j \in DOMAIN Nodes /\ k = Len(Nodes) + 1
      BY <1>3, <1>5, <2>2, <2>5, <3>3
    <3>4. CASE j = Len(Nodes) + 1 /\ k = Len(Nodes) + 1
      BY <3>4
    <3> QED BY <1>3, <3>1, <3>2, <3>3, <3>4
  <2>6. \A k \in DOMAIN x : \A m \in meta : x[k][2] # 0 => m.callsitePc # x[k][2]
    <3> SUFFICES ASSUME NEW k \in DOMAIN x, NEW m \in meta, x[k][2] # 0
                 PROVE  m.callsitePc # x[k][2]
      OBVIOUS
    <3>1. CASE k \in DOMAIN Nodes
      BY <1>3, <3>1 DEF NodesInv, Once
    <3>2. CASE k = Len(Nodes) + 1
      BY <1>3, <1>5, <2>3, <3>2
    <3> QED BY <1>3, <3>1, <3>2
  <2>7. \A m, o \in meta : m.callsitePc = o.callsitePc /\ o.callsitePc # 0 => m = o
    BY DEF NodesInv, Once
  <2> QED BY <1>0, <2>4, <2>5, <2>6, <2>7 DEF Once
<1>10. Placed'
  <2>1. call_rows' = call_rows /\ \A c : CallAnchor(c)' = CallAnchor(c)
    BY SameTree DEF SameInputs
  <2>2. ASSUME p # 0
        PROVE  Nodes \in Keys /\ \E c \in call_rows : c.source = p /\ Last(Nodes)[1] = CallAnchor(c)
    <3>1. Beginnings(Nodes) = Beginnings(Front(Nodes)) \cup {Nodes}
      BY <2>2, BeginningsOfFront
    <3> QED BY <2>2, <3>1 DEF Keys
  <2> QED BY <1>2, <1>4, <2>1, <2>2 DEF NodesInv, Placed
<1> QED BY <1>6, <1>7, <1>8, <1>9, <1>10 DEF NodesInv

\* The last node of the chain gets its meta data.
LEMMA NodeClosed ==
  ASSUME NodesInv, SameInputs, Nodes \in Seq(NodeSet), Nodes # <<>>, Nodes' = Front(Nodes),
         NEW m, meta' = meta \cup {m}, m.key = Nodes,
         m.machineOwner = OwnerOf(Last(Nodes)[1]), m.self = SelfOf(Last(Nodes)[1]),
         m.callsitePc = Last(Nodes)[2],
         Bodies' = Bodies, expanded_calls' = expanded_calls
  PROVE  NodesInv'
<1>1. /\ Front(Nodes) \in Seq(NodeSet) /\ Len(Front(Nodes)) = Len(Nodes) - 1
      /\ \A k \in 1 .. Len(Nodes) - 1 : Front(Nodes)[k] = Nodes[k]
      /\ Beginnings(Nodes) = Beginnings(Front(Nodes)) \cup {Nodes}
  BY BeginningsOfFront
<1>2. Keys' = Keys
  BY <1>1 DEF Keys
<1>3. KeysOk'
  BY <1>2, SameTree DEF NodesInv, KeysOk
<1>4. MetaOk'
  BY SameTree DEF NodesInv, MetaOk
<1>5. Shown'
  BY <1>2 DEF NodesInv, Shown
<1>6. Once'
  <2>1. /\ Len(Nodes) \in Nat /\ Len(Nodes) \in DOMAIN Nodes /\ DOMAIN Nodes = 1 .. Len(Nodes)
        /\ DOMAIN Front(Nodes) = 1 .. Len(Nodes) - 1 /\ Last(Nodes) = Nodes[Len(Nodes)]
    BY <1>1 DEF Last
  <2>2. \A y \in Keys' : Last(y)[2] # 0 => Last(y)[2] \in expanded_calls'
    BY <1>2 DEF NodesInv, Once
  <2>3. \A k \in DOMAIN Front(Nodes) : k \in DOMAIN Nodes /\ Front(Nodes)[k] = Nodes[k] /\ k # Len(Nodes)
    BY <1>1, <2>1
  <2>4. \A j, k \in DOMAIN Nodes' : Nodes'[j][2] = Nodes'[k][2] /\ Nodes'[k][2] # 0 => j = k
    BY <2>3 DEF NodesInv, Once
  <2>5. \A k \in DOMAIN Nodes' : \A o \in meta' : Nodes'[k][2] # 0 => o.callsitePc # Nodes'[k][2]
    BY <2>1, <2>3 DEF NodesInv, Once
  <2>6. \A n, o \in meta' : n.callsitePc = o.callsitePc /\ o.callsitePc # 0 => n = o
    BY <2>1 DEF NodesInv, Once
  <2> QED BY <2>2, <2>4, <2>5, <2>6 DEF Once
<1>7. Placed'
  <2>1. call_rows' = call_rows /\ \A c : CallAnchor(c)' = CallAnchor(c)
    BY SameTree DEF SameInputs
  <2> QED BY <1>2, <2>1 DEF NodesInv, Placed
<1> QED BY <1>3, <1>4, <1>5, <1>6, <1>7 DEF NodesInv

-----------------------------------------------------------------------------
\* The frames with all that they have to show but the items of ids and rows.
Passes(t, ids, rows) ==
  /\ t \in Seq(FrameSet) /\ Len(t) = Len(frames)
  /\ \A k \in DOMAIN frames :
       /\ FrameOk(t[k]) /\ t[k].active = frames[k].active
       /\ t[k].anchor = frames[k].anchor /\ t[k].site = frames[k].site
       /\ Range(frames[k].inlines) \subseteq Range(t[k].inlines) \cup ids
       /\ Range(frames[k].calls) \subseteq Range(t[k].calls) \cup rows

LEMMA TailHas ==
  ASSUME NEW S, NEW s \in Seq(S), s # <<>>
  PROVE  /\ Head(s) \in S /\ Head(s) \in Range(s) /\ Tail(s) \in Seq(S)
         /\ Range(s) \subseteq Range(Tail(s)) \cup {Head(s)} /\ Range(Tail(s)) \subseteq Range(s)
<1>1. /\ Len(s) \in Nat /\ Len(s) # 0 /\ DOMAIN s = 1 .. Len(s)
      /\ Head(s) = s[1] /\ Tail(s) \in Seq(S) /\ Len(Tail(s)) = Len(s) - 1
      /\ DOMAIN Tail(s) = 1 .. Len(s) - 1
      /\ \A k \in 1 .. Len(s) - 1 : Tail(s)[k] = s[k + 1]
  BY HeadTailProperties
<1>2. Head(s) \in S /\ Head(s) \in Range(s)
  BY <1>1 DEF Range
<1>3. ASSUME NEW k \in DOMAIN s PROVE s[k] \in Range(Tail(s)) \cup {Head(s)}
  <2>1. CASE k = 1
    BY <1>1, <2>1
  <2>2. CASE k # 1
    <3>1. k - 1 \in DOMAIN Tail(s) /\ Tail(s)[k - 1] = s[k]
      BY <1>1, <2>2
    <3> QED BY <3>1 DEF Range
  <2> QED BY <2>1, <2>2
<1>4. ASSUME NEW k \in DOMAIN Tail(s) PROVE Tail(s)[k] \in Range(s)
  <2>1. k + 1 \in DOMAIN s /\ Tail(s)[k] = s[k + 1]
    BY <1>1
  <2> QED BY <2>1 DEF Range
<1> QED BY <1>1, <1>2, <1>3, <1>4 DEF Range

\* The last frame loses the inlined call that is looked at, and nothing else.
LEMMA TurnsInlines ==
  ASSUME FramesOk, frames # <<>>, Top.inlines # <<>>
  PROVE  /\ Passes(AfterInline, {Head(Top.inlines)}, {})
         /\ Head(Top.inlines) \in InlineIds
<1> DEFINE n == Len(frames)
           f == [Top EXCEPT !.inlines = Tail(@)]
           t == AfterInline
<1>1. n \in DOMAIN frames /\ DOMAIN frames = 1 .. n /\ Top = frames[n] /\ n \in Nat
  BY DEF FramesOk, Top, Last
<1>2. FrameOk(Top) /\ Top \in FrameSet
  BY <1>1 DEF FramesOk, FrameOk, Range
<1>3. /\ Top.inlines \in Seq(InlineIds)
      /\ DOMAIN Top = {"anchor", "site", "cycle", "active", "machineOwner", "self", "inlines", "calls"}
  BY <1>2 DEF FrameSet
<1>4. /\ Head(Top.inlines) \in InlineIds /\ Tail(Top.inlines) \in Seq(InlineIds)
      /\ Range(Top.inlines) \subseteq Range(Tail(Top.inlines)) \cup {Head(Top.inlines)}
  BY <1>3, TailHas
<1>5. /\ f \in FrameSet /\ f.inlines = Tail(Top.inlines) /\ f.calls = Top.calls
      /\ f.anchor = Top.anchor /\ f.site = Top.site /\ f.active = Top.active
      /\ f.machineOwner = Top.machineOwner /\ f.self = Top.self
  BY <1>2, <1>3, <1>4 DEF FrameSet
<1>6. t = [frames EXCEPT ![n] = f]
  BY <1>1 DEF AfterInline, Top, Last
<1> HIDE DEF f, t, n
<1>7. FrameOk(f)
  BY <1>2, <1>5 DEF FrameOk
<1>8. /\ t \in Seq(FrameSet) /\ Len(t) = n
      /\ t[n] = f /\ \A k \in DOMAIN frames : k # n => t[k] = frames[k]
  BY <1>1, <1>5, <1>6 DEF FramesOk, n
<1>9. ASSUME NEW k \in DOMAIN frames
      PROVE  /\ FrameOk(t[k]) /\ t[k].active = frames[k].active
             /\ t[k].anchor = frames[k].anchor /\ t[k].site = frames[k].site
             /\ Range(frames[k].inlines) \subseteq Range(t[k].inlines) \cup {Head(Top.inlines)}
             /\ Range(frames[k].calls) \subseteq Range(t[k].calls) \cup {}
  <2>1. CASE k = n
    BY <1>1, <1>4, <1>5, <1>7, <1>8, <2>1
  <2>2. CASE k # n
    BY <1>8, <2>2 DEF FramesOk, Range
  <2> QED BY <2>1, <2>2
<1> QED BY <1>4, <1>8, <1>9 DEF Passes, t, n

\* The same for a call.
LEMMA TurnsCalls ==
  ASSUME FramesOk, frames # <<>>, Top.calls # <<>>
  PROVE  /\ Passes(AfterCall, {}, {Head(Top.calls)})
         /\ Head(Top.calls) \in BodyCalls(Top.anchor)
<1> DEFINE n == Len(frames)
           f == [Top EXCEPT !.calls = Tail(@)]
           t == AfterCall
<1>1. n \in DOMAIN frames /\ DOMAIN frames = 1 .. n /\ Top = frames[n] /\ n \in Nat
  BY DEF FramesOk, Top, Last
<1>2. FrameOk(Top) /\ Top \in FrameSet /\ Range(Top.calls) \subseteq BodyCalls(Top.anchor)
  BY <1>1 DEF FramesOk, FrameOk, Range
<1>3. /\ Top.calls \in Seq(call_rows)
      /\ DOMAIN Top = {"anchor", "site", "cycle", "active", "machineOwner", "self", "inlines", "calls"}
  BY <1>2 DEF FrameSet
<1>4. /\ Head(Top.calls) \in Range(Top.calls) /\ Tail(Top.calls) \in Seq(call_rows)
      /\ Range(Top.calls) \subseteq Range(Tail(Top.calls)) \cup {Head(Top.calls)}
      /\ Range(Tail(Top.calls)) \subseteq Range(Top.calls)
  BY <1>3, TailHas
<1>5. /\ f \in FrameSet /\ f.calls = Tail(Top.calls) /\ f.inlines = Top.inlines
      /\ f.anchor = Top.anchor /\ f.site = Top.site /\ f.active = Top.active
      /\ f.machineOwner = Top.machineOwner /\ f.self = Top.self
  BY <1>2, <1>3, <1>4 DEF FrameSet
<1>6. t = [frames EXCEPT ![n] = f]
  BY <1>1 DEF AfterCall, Top, Last
<1> HIDE DEF f, t, n
<1>7. FrameOk(f)
  BY <1>2, <1>4, <1>5 DEF FrameOk
<1>8. /\ t \in Seq(FrameSet) /\ Len(t) = n
      /\ t[n] = f /\ \A k \in DOMAIN frames : k # n => t[k] = frames[k]
  BY <1>1, <1>5, <1>6 DEF FramesOk, n
<1>9. ASSUME NEW k \in DOMAIN frames
      PROVE  /\ FrameOk(t[k]) /\ t[k].active = frames[k].active
             /\ t[k].anchor = frames[k].anchor /\ t[k].site = frames[k].site
             /\ Range(frames[k].inlines) \subseteq Range(t[k].inlines) \cup {}
             /\ Range(frames[k].calls) \subseteq Range(t[k].calls) \cup {Head(Top.calls)}
  <2>1. CASE k = n
    BY <1>1, <1>4, <1>5, <1>7, <1>8, <2>1
  <2>2. CASE k # n
    BY <1>8, <2>2 DEF FramesOk, Range
  <2> QED BY <2>1, <2>2
<1> QED BY <1>2, <1>4, <1>8, <1>9 DEF Passes, t, n

\* What is not shown any more has been expanded, what is new is shown.
LEMMA FramePushed ==
  ASSUME FramesOk, Waits, SameInputs, NEW t, NEW ids, NEW rows, Passes(t, ids, rows),
         NEW f, FrameOk(f), f.active \subseteq BodyNames', frames' = Append(t, f),
         BodyNames \subseteq BodyNames', Bodies' = Bodies \cup {f.anchor},
         expanded_inline \cup ids \subseteq expanded_inline',
         expanded_calls \cup {c.source : c \in rows} \subseteq expanded_calls',
         f.anchor \notin Bodies => /\ BodyInlines(f.anchor) \subseteq Range(f.inlines)
                                   /\ BodyCalls(f.anchor) \subseteq Range(f.calls)
  PROVE  FramesOk' /\ Waits' /\ Nodes' = Append(Nodes, <<f.anchor, f.site>>)
<1> DEFINE n == Len(frames)
<1>1. n \in Nat /\ DOMAIN frames = 1 .. n
  BY DEF FramesOk
<1>2. f \in FrameSet /\ t \in Seq(FrameSet) /\ Len(t) = n
  BY DEF FrameOk, Passes
<1> HIDE DEF n
<1>3. /\ frames' \in Seq(FrameSet) /\ Len(frames') = n + 1 /\ DOMAIN frames' = 1 .. n + 1
      /\ frames'[n + 1] = f /\ \A k \in 1 .. n : frames'[k] = t[k]
  BY <1>1, <1>2
<1>4. FrameSet' = FrameSet /\ \A g : FrameOk(g)' = FrameOk(g)
  BY SameTree
<1>5. FramesOk'
  <2>1. ASSUME NEW k \in DOMAIN frames'
        PROVE  FrameOk(frames'[k]) /\ frames'[k].active \subseteq BodyNames'
    <3>1. CASE k \in 1 .. n
      <4>1. k \in DOMAIN frames /\ frames'[k] = t[k]
        BY <1>1, <1>3, <3>1
      <4>2. FrameOk(t[k]) /\ t[k].active = frames[k].active
        BY <4>1 DEF Passes
      <4>3. frames[k].active \subseteq BodyNames
        BY <4>1 DEF FramesOk, Range
      <4> QED BY <4>1, <4>2, <4>3
    <3>2. CASE k = n + 1
      BY <1>3, <3>2
    <3> QED BY <1>1, <1>3, <3>1, <3>2
  <2>2. \A g \in Range(frames') : FrameOk(g) /\ g.active \subseteq BodyNames'
    BY <2>1 DEF Range
  <2> QED BY <1>3, <1>4, <2>2 DEF FramesOk
<1>6. Waits'
  <2>1. ASSUME NEW a \in Bodies', NEW id \in BodyInlines(a)
        PROVE  id \in expanded_inline' \/ \E k \in DOMAIN frames' : id \in Range(frames'[k].inlines)
    <3>1. CASE a \in Bodies
      <4>1. CASE id \in expanded_inline
        BY <4>1
      <4>2. CASE id \notin expanded_inline
        <5>1. PICK k \in DOMAIN frames : id \in Range(frames[k].inlines)
          BY <3>1, <4>2 DEF Waits
        <5>2. id \in Range(t[k].inlines) \cup ids /\ frames'[k] = t[k] /\ k \in DOMAIN frames'
          BY <1>1, <1>3, <5>1 DEF Passes
        <5> QED BY <5>2
      <4> QED BY <4>1, <4>2
    <3>2. CASE a \notin Bodies
      <4>1. a = f.anchor /\ id \in Range(f.inlines)
        BY <2>1, <3>2
      <4>2. n + 1 \in DOMAIN frames'
        BY <1>1, <1>3
      <4> QED BY <1>3, <4>1, <4>2
    <3> QED BY <3>1, <3>2
  <2>2. ASSUME NEW a \in Bodies', NEW c \in BodyCalls(a)
        PROVE  c.source \in expanded_calls' \/ \E k \in DOMAIN frames' : c \in Range(frames'[k].calls)
    <3>1. CASE a \in Bodies
      <4>1. CASE c.source \in expanded_calls
        BY <4>1
      <4>2. CASE c.source \notin expanded_calls
        <5>1. PICK k \in DOMAIN frames : c \in Range(frames[k].calls)
          BY <3>1, <4>2 DEF Waits
        <5>2. c \in Range(t[k].calls) \cup rows /\ frames'[k] = t[k] /\ k \in DOMAIN frames'
          BY <1>1, <1>3, <5>1 DEF Passes
        <5> QED BY <5>2
      <4> QED BY <4>1, <4>2
    <3>2. CASE a \notin Bodies
      <4>1. a = f.anchor /\ c \in Range(f.calls)
        BY <2>2, <3>2
      <4>2. n + 1 \in DOMAIN frames'
        BY <1>1, <1>3
      <4> QED BY <1>3, <4>1, <4>2
    <3> QED BY <3>1, <3>2
  <2>3. \A a : BodyInlines(a)' = BodyInlines(a) /\ BodyCalls(a)' = BodyCalls(a)
    BY SameTree
  <2> QED BY <2>1, <2>2, <2>3 DEF Waits
<1>7. Nodes' = Append(Nodes, <<f.anchor, f.site>>)
  <2> DEFINE x == <<f.anchor, f.site>>
             s == Append(Nodes, x)
  <2>1. /\ Nodes \in Seq(NodeSet) /\ Len(Nodes) = n
        /\ \A k \in 1 .. n : Nodes[k] = <<frames[k].anchor, frames[k].site>>
    BY <1>1, NodesAre DEF FramesOk, n
  <2>2. Nodes' = [k \in 1 .. n + 1 |-> <<frames'[k].anchor, frames'[k].site>>]
    BY <1>3 DEF Nodes
  <2>3. \A k \in 1 .. n : <<frames'[k].anchor, frames'[k].site>> = Nodes[k]
    BY <1>1, <1>3, <2>1 DEF Passes
  <2>4. s = [k \in 1 .. n + 1 |-> IF k = n + 1 THEN x ELSE Nodes[k]]
    <3>1. x \in NodeSet
      BY <1>2 DEF FrameSet, NodeSet
    <3> HIDE DEF x
    <3>2. /\ s \in Seq(NodeSet) /\ Len(s) = n + 1
          /\ \A k \in 1 .. n + 1 : s[k] = IF k = n + 1 THEN x ELSE Nodes[k]
      BY <1>1, <2>1, <3>1
    <3> HIDE DEF s
    <3>3. s = [k \in 1 .. n + 1 |-> s[k]]
      BY <1>1, <3>2
    <3> QED BY <3>2, <3>3
  <2> HIDE DEF s
  <2>5. \A k \in 1 .. n + 1 :
          <<frames'[k].anchor, frames'[k].site>> = IF k = n + 1 THEN x ELSE Nodes[k]
    BY <1>1, <1>3, <2>3
  <2> HIDE DEF x
  <2>6. Nodes' = s
    BY <2>2, <2>4, <2>5
  <2> QED BY <2>6 DEF s, x
<1> QED BY <1>5, <1>6, <1>7

\* A call that has been expanded is passed over.
LEMMA FrameTurned ==
  ASSUME FramesOk, Waits, SameInputs, NEW rows, Passes(frames', {}, rows),
         BodyNames' = BodyNames, Bodies' = Bodies,
         expanded_inline' = expanded_inline, expanded_calls' = expanded_calls,
         {c.source : c \in rows} \subseteq expanded_calls
  PROVE  FramesOk' /\ Waits' /\ Nodes' = Nodes
<1> DEFINE n == Len(frames)
<1>1. n \in Nat /\ DOMAIN frames = 1 .. n
  BY DEF FramesOk
<1>2. frames' \in Seq(FrameSet) /\ Len(frames') = n
  BY DEF Passes
<1> HIDE DEF n
<1>3. DOMAIN frames' = 1 .. n
  BY <1>1, <1>2
<1>4. FrameSet' = FrameSet /\ \A g : FrameOk(g)' = FrameOk(g)
  BY SameTree
<1>5. FramesOk'
  <2>1. ASSUME NEW k \in DOMAIN frames'
        PROVE  FrameOk(frames'[k]) /\ frames'[k].active \subseteq BodyNames
    <3>1. FrameOk(frames'[k]) /\ frames'[k].active = frames[k].active /\ k \in DOMAIN frames
      BY <1>1, <1>3 DEF Passes
    <3> QED BY <3>1 DEF FramesOk, Range
  <2>2. \A g \in Range(frames') : FrameOk(g) /\ g.active \subseteq BodyNames
    BY <2>1 DEF Range
  <2> QED BY <1>2, <1>4, <2>2 DEF FramesOk
<1>6. Waits'
  <2>1. \A k \in DOMAIN frames :
          /\ Range(frames[k].inlines) \subseteq Range(frames'[k].inlines)
          /\ Range(frames[k].calls) \subseteq Range(frames'[k].calls) \cup rows
    BY DEF Passes
  <2>2. ASSUME NEW a \in Bodies, NEW id \in BodyInlines(a)
        PROVE  id \in expanded_inline \/ \E k \in DOMAIN frames' : id \in Range(frames'[k].inlines)
    BY <1>1, <1>3, <2>1 DEF Waits
  <2>3. ASSUME NEW a \in Bodies, NEW c \in BodyCalls(a)
        PROVE  c.source \in expanded_calls \/ \E k \in DOMAIN frames' : c \in Range(frames'[k].calls)
    BY <1>1, <1>3, <2>1 DEF Waits
  <2>4. \A a : BodyInlines(a)' = BodyInlines(a) /\ BodyCalls(a)' = BodyCalls(a)
    BY SameTree
  <2> QED BY <2>2, <2>3, <2>4 DEF Waits
<1>7. Nodes' = Nodes
  <2>1. \A k \in 1 .. n : frames'[k].anchor = frames[k].anchor /\ frames'[k].site = frames[k].site
    BY <1>1 DEF Passes
  <2> QED BY <1>1, <1>3, <2>1 DEF Nodes
<1> QED BY <1>5, <1>6, <1>7

\* A frame with nothing left to show is closed.
LEMMA FrameClosed ==
  ASSUME FramesOk, Waits, SameInputs, frames # <<>>, Top.inlines = <<>>, Top.calls = <<>>,
         frames' = Front(frames), BodyNames' = BodyNames, Bodies' = Bodies,
         expanded_inline' = expanded_inline, expanded_calls' = expanded_calls
  PROVE  FramesOk' /\ Waits' /\ Nodes' = Front(Nodes)
<1> DEFINE n == Len(frames)
<1>1. /\ n \in Nat /\ n # 0 /\ DOMAIN frames = 1 .. n /\ frames \in Seq(FrameSet)
      /\ Top = frames[n]
  BY DEF FramesOk, Top, Last
<1>2. /\ Front(frames) \in Seq(FrameSet) /\ Len(Front(frames)) = n - 1
      /\ \A k \in 1 .. n - 1 : Front(frames)[k] = frames[k]
  BY <1>1, BeginningsOfFront
<1>3. /\ frames' \in Seq(FrameSet) /\ DOMAIN frames' = 1 .. n - 1 /\ Len(frames') = n - 1
      /\ \A k \in 1 .. n - 1 : frames'[k] = frames[k]
  BY <1>1, <1>2
<1>4. FrameSet' = FrameSet /\ \A g : FrameOk(g)' = FrameOk(g)
  BY SameTree
<1>5. FramesOk'
  <2>1. Range(frames') \subseteq Range(frames)
    BY <1>1, <1>3 DEF Range
  <2> QED BY <1>3, <1>4, <2>1 DEF FramesOk
<1>6. Waits'
  <2>1. Range(frames[n].inlines) = {} /\ Range(frames[n].calls) = {}
    BY <1>1 DEF Range
  <2>2. \A k \in DOMAIN frames : k = n \/ (k \in DOMAIN frames' /\ frames'[k] = frames[k])
    BY <1>1, <1>3
  <2>3. ASSUME NEW a \in Bodies, NEW id \in BodyInlines(a)
        PROVE  id \in expanded_inline \/ \E k \in DOMAIN frames' : id \in Range(frames'[k].inlines)
    BY <2>1, <2>2 DEF Waits
  <2>4. ASSUME NEW a \in Bodies, NEW c \in BodyCalls(a)
        PROVE  c.source \in expanded_calls \/ \E k \in DOMAIN frames' : c \in Range(frames'[k].calls)
    BY <2>1, <2>2 DEF Waits
  <2>5. \A a : BodyInlines(a)' = BodyInlines(a) /\ BodyCalls(a)' = BodyCalls(a)
    BY SameTree
  <2> QED BY <2>3, <2>4, <2>5 DEF Waits
<1>7. Nodes' = Front(Nodes)
  <2>1. /\ Nodes \in Seq(NodeSet) /\ Nodes # <<>> /\ Len(Nodes) = n
        /\ \A k \in 1 .. n : Nodes[k] = <<frames[k].anchor, frames[k].site>>
    BY <1>1, NodesAre
  <2>2. /\ Front(Nodes) \in Seq(NodeSet) /\ Len(Front(Nodes)) = n - 1
        /\ \A k \in 1 .. n - 1 : Front(Nodes)[k] = Nodes[k]
    BY <2>1, BeginningsOfFront
  <2>3. Front(Nodes) = [k \in 1 .. n - 1 |-> Front(Nodes)[k]]
    BY <2>2
  <2>4. Nodes' = [k \in 1 .. n - 1 |-> <<frames'[k].anchor, frames'[k].site>>]
    BY <1>3 DEF Nodes
  <2>5. ASSUME NEW k \in 1 .. n - 1 PROVE Front(Nodes)[k] = <<frames'[k].anchor, frames'[k].site>>
    <3>1. k \in 1 .. n
      BY <1>1
    <3>2. Nodes[k] = <<frames[k].anchor, frames[k].site>>
      BY <2>1, <3>1
    <3>3. Front(Nodes)[k] = Nodes[k] /\ frames'[k] = frames[k]
      BY <1>3, <2>2
    <3> QED BY <3>2, <3>3
  <2> QED BY <2>3, <2>4, <2>5
<1> QED BY <1>5, <1>6, <1>7

-----------------------------------------------------------------------------
\* The steps of the walk.
TreeOk == FramesOk /\ NodesInv /\ Waits
Readings == InstancesOk /\ call_rows = direct_calls

\* Before the walk, and after a step to there.
LEMMA EmptyTree ==
  ASSUME frames = <<>>, meta = {}, expanded_calls = {}, expanded_inline = {}
  PROVE  TreeOk /\ Keys = {} /\ Bodies = {} /\ Nodes = <<>>
<1>1. Nodes = <<>>
  BY DEF Nodes
<1>2. Beginnings(<<>>) = {}
  BY DEF Beginnings
<1>3. Keys = {}
  BY <1>1, <1>2 DEF Keys
<1>4. BodyNames = {} /\ Bodies = {}
  BY DEF BodyNames, Bodies
<1>5. FramesOk /\ Waits
  BY <1>4 DEF FramesOk, Waits, Range
<1>6. DOMAIN Nodes = {}
  BY <1>1
<1>7. NodesInv
  BY <1>3, <1>4, <1>6 DEF NodesInv, KeysOk, MetaOk, Shown, Once, Placed
<1> QED BY <1>1, <1>3, <1>4, <1>5, <1>7 DEF TreeOk

LEMMA EmptyTreeNext ==
  ASSUME frames' = <<>>, meta' = {}, expanded_calls' = {}, expanded_inline' = {}
  PROVE  TreeOk'
<1>1. Nodes' = <<>>
  BY DEF Nodes
<1>2. Beginnings(<<>>) = {}
  BY DEF Beginnings
<1>3. Keys' = {}
  BY <1>1, <1>2 DEF Keys
<1>4. BodyNames' = {} /\ Bodies' = {}
  BY DEF BodyNames, Bodies
<1>5. FramesOk' /\ Waits'
  BY <1>4 DEF FramesOk, Waits, Range
<1>6. DOMAIN Nodes' = {}
  BY <1>1
<1>7. NodesInv'
  BY <1>3, <1>4, <1>6 DEF NodesInv, KeysOk, MetaOk, Shown, Once, Placed
<1> QED BY <1>5, <1>7 DEF TreeOk

\* The steps of the walk.
LEMMA OpenRootKept ==
  ASSUME TreeOk, Readings, OpenRoot, expanded_calls = {}, expanded_inline = {}
  PROVE  TreeOk'
<1> DEFINE f == FunctionFrame(RootName, 0, {})
           a == <<"fn", RootName>>
<1>1. /\ frames = <<>> /\ meta = {} /\ frames' = <<f>>
      /\ SameInputs /\ meta' = meta /\ expanded_calls' = {} /\ expanded_inline' = {}
  BY DEF OpenRoot, RootName, SameInputs, inputVars, ownVars
<1>2. /\ FrameOk(f) /\ f.anchor = a /\ f.site = 0 /\ f.active = {RootName}
      /\ BodyInlines(f.anchor) \subseteq Range(f.inlines)
      /\ BodyCalls(f.anchor) \subseteq Range(f.calls)
  <2>1. RootName \in AllNames /\ {} \in SUBSET AllNames /\ 0 \in Nat /\ RootName \notin {}
    BY DEF AllNames
  <2> HIDE DEF f
  <2>2. /\ FrameOk(f) /\ f.anchor = a /\ f.site = 0 /\ f.active = {} \cup {RootName}
        /\ BodyInlines(f.anchor) \subseteq Range(f.inlines)
        /\ BodyCalls(f.anchor) \subseteq Range(f.calls)
    <3>1. InstancesOk /\ call_rows = direct_calls
      BY DEF Readings
    <3> DEFINE g == FunctionFrame(RootName, 0, {})
    <3>2. FrameOk(g)
      BY <2>1, <3>1, FunctionFrameIs
    <3>3. g.anchor = <<"fn", RootName>>
      BY <2>1, <3>1, FunctionFrameIs
    <3>4. g.site = 0
      BY <2>1, <3>1, FunctionFrameIs
    <3>5. g.active = {} \cup {RootName}
      BY <2>1, <3>1, FunctionFrameIs
    <3>6. BodyInlines(g.anchor) \subseteq Range(g.inlines) /\ BodyCalls(g.anchor) \subseteq Range(g.calls)
      BY <2>1, <3>1, FunctionFrameIs
    <3> HIDE DEF g
    <3> QED BY <3>2, <3>3, <3>4, <3>5, <3>6 DEF f, g
  <2> QED BY <2>2
<1> HIDE DEF f
<1>3. Keys = {} /\ Bodies = {} /\ Nodes = <<>> /\ BodyNames = {}
  BY <1>1, EmptyTree DEF BodyNames
<1>4. BodyNames' = {RootName} /\ Bodies' = Bodies \cup {a}
  <2>1. frames' # <<>> /\ RootName' = RootName
    BY <1>1, SameTree
  <2>2. BodyNames' = {RootName}
    BY <1>1, <2>1 DEF BodyNames
  <2> QED BY <1>1, <1>3, <2>2 DEF Bodies
<1>5. Passes(frames, {}, {}) /\ frames' = Append(frames, f)
  BY <1>1 DEF Passes
<1>6. FramesOk' /\ Waits' /\ Nodes' = Append(Nodes, <<f.anchor, f.site>>)
  BY <1>1, <1>2, <1>3, <1>4, <1>5, FramePushed DEF TreeOk
<1>7. NodesInv'
  <2>1. a \in Anchors
    BY DEF Anchors, AllNames
  <2>2. Nodes' = Append(Nodes, <<a, 0>>) /\ Nodes \in Seq(NodeSet)
    BY <1>2, <1>3, <1>6
  <2> HIDE DEF a
  <2> QED BY <1>1, <1>4, <2>1, <2>2, NodeOpened DEF TreeOk
<1> QED BY <1>6, <1>7 DEF TreeOk

\* The frame on top.
LEMMA TopIs ==
  ASSUME FramesOk, frames # <<>>
  PROVE  /\ FrameOk(Top) /\ Top \in FrameSet /\ Top.active \in SUBSET AllNames
         /\ Top.active \subseteq BodyNames /\ frames \in Seq(FrameSet)
<1>1. Top \in Range(frames) /\ frames \in Seq(FrameSet)
  BY DEF FramesOk, Top, Last, Range
<1>2. FrameOk(Top) /\ Top.active \subseteq BodyNames
  BY <1>1 DEF FramesOk
<1>3. Top \in FrameSet
  BY <1>2 DEF FrameOk
<1> QED BY <1>1, <1>2, <1>3 DEF FrameSet

LEMMA OpenInlineKept ==
  ASSUME TreeOk, Readings, OpenInline
  PROVE  TreeOk'
<1> DEFINE id == Head(Top.inlines)
           f == InlineFrame(id, Top.active)
           t == AfterInline
           a == <<"fi", id>>
<1>1. /\ frames # <<>> /\ Top.inlines # <<>> /\ frames' = Append(t, f)
      /\ expanded_inline' = expanded_inline \cup {id}
      /\ SameInputs /\ meta' = meta /\ expanded_calls' = expanded_calls
  BY DEF OpenInline, SameInputs, inputVars, ownVars
<1>2. Passes(t, {id}, {}) /\ id \in InlineIds
  BY <1>1, TurnsInlines DEF TreeOk
<1>3. Top.active \in SUBSET AllNames /\ Top.active \subseteq BodyNames /\ frames \in Seq(FrameSet)
  BY <1>1, TopIs DEF TreeOk
<1>4. /\ FrameOk(f) /\ f.anchor = a /\ f.site = 0 /\ f.active = Top.active
      /\ id \notin expanded_inline => /\ BodyInlines(f.anchor) \subseteq Range(f.inlines)
                                     /\ BodyCalls(f.anchor) \subseteq Range(f.calls)
  <2>0. InstancesOk /\ call_rows = direct_calls
    BY DEF Readings
  <2>1. FrameOk(f)
    BY <1>2, <1>3, <2>0, InlineFrameIs
  <2>2. f.anchor = a
    BY <1>2, <1>3, <2>0, InlineFrameIs
  <2>3. f.site = 0
    BY <1>2, <1>3, <2>0, InlineFrameIs
  <2>4. f.active = Top.active
    BY <1>2, <1>3, <2>0, InlineFrameIs
  <2>5. id \notin expanded_inline => /\ BodyInlines(f.anchor) \subseteq Range(f.inlines)
                                    /\ BodyCalls(f.anchor) \subseteq Range(f.calls)
    BY <1>2, <1>3, <2>0, InlineFrameIs
  <2> HIDE DEF f, a, id
  <2> QED BY <2>1, <2>2, <2>3, <2>4, <2>5
<1> HIDE DEF f, t
<1>5. BodyNames' = BodyNames /\ Bodies' = Bodies \cup {a}
  <2>1. frames' # <<>> /\ RootName' = RootName /\ call_rows' = call_rows
    <3>1. t \in Seq(FrameSet) /\ f \in FrameSet
      BY <1>2, <1>4 DEF Passes, FrameOk
    <3> QED BY <1>1, <3>1, SameTree DEF SameInputs
  <2>2. BodyNames' = BodyNames
    BY <1>1, <2>1 DEF BodyNames
  <2> HIDE DEF id
  <2> QED BY <1>1, <2>2 DEF Bodies
<1>6. a \notin Bodies => id \notin expanded_inline
  BY DEF Bodies
<1> HIDE DEF a, id
<1>7. FramesOk' /\ Waits' /\ Nodes' = Append(Nodes, <<f.anchor, f.site>>)
  <2> DEFINE ids == {id}
             rows == {}
  <2>1. /\ Passes(t, ids, rows) /\ expanded_inline \cup ids \subseteq expanded_inline'
        /\ expanded_calls \cup {c.source : c \in rows} \subseteq expanded_calls'
        /\ FramesOk /\ Waits /\ f.active \subseteq BodyNames' /\ BodyNames \subseteq BodyNames'
        /\ Bodies' = Bodies \cup {f.anchor}
        /\ f.anchor \notin Bodies => /\ BodyInlines(f.anchor) \subseteq Range(f.inlines)
                                     /\ BodyCalls(f.anchor) \subseteq Range(f.calls)
    BY <1>1, <1>2, <1>3, <1>4, <1>5, <1>6 DEF TreeOk
  <2> HIDE DEF ids, rows
  <2> QED BY <1>1, <1>4, <2>1, FramePushed
<1>8. NodesInv'
  <2>1. a \in Anchors
    BY <1>2 DEF Anchors, a
  <2>2. Nodes' = Append(Nodes, <<a, 0>>) /\ Nodes \in Seq(NodeSet)
    BY <1>3, <1>4, <1>7, NodesAre
  <2> QED BY <1>1, <1>5, <2>1, <2>2, NodeOpened DEF TreeOk
<1> QED BY <1>7, <1>8 DEF TreeOk

LEMMA OpenCallKept ==
  ASSUME TreeOk, Readings, OpenCall
  PROVE  TreeOk'
<1> DEFINE c == Head(Top.calls)
           p == c.source
           name == c.callee
           f == FunctionFrame(name, p, Top.active)
           t == AfterCall
           a == <<"fn", name>>
<1>1. /\ frames # <<>> /\ Top.calls # <<>>
      /\ IF p \notin expanded_calls
         THEN expanded_calls' = expanded_calls \cup {p} /\ frames' = Append(t, f)
         ELSE frames' = t /\ UNCHANGED expanded_calls
      /\ SameInputs /\ meta' = meta /\ expanded_inline' = expanded_inline
  BY DEF OpenCall, NotExpanded, SameInputs, inputVars, ownVars
<1>2. Passes(t, {}, {c}) /\ c \in BodyCalls(Top.anchor)
  BY <1>1, TurnsCalls DEF TreeOk
<1>3. c \in call_rows /\ CallAnchor(c) = Top.anchor
  BY <1>2 DEF BodyCalls
<1>4. p \in Nat /\ p # 0 /\ name \in AllNames /\ \A d \in call_rows : d.source = p => d = c
  BY <1>3, RowsAre DEF Readings, AllNames
<1>5. Top.active \in SUBSET AllNames /\ Top.active \subseteq BodyNames /\ frames \in Seq(FrameSet)
  BY <1>1, TopIs DEF TreeOk
<1>6. t \in Seq(FrameSet) /\ t # <<>>
  <2>1. Len(t) = Len(frames) /\ t \in Seq(FrameSet)
    BY <1>2 DEF Passes
  <2> HIDE DEF t
  <2> QED BY <1>1, <1>5, <2>1
<1>7. RootName' = RootName /\ call_rows' = call_rows
  BY <1>1, SameTree DEF SameInputs
<1>8. CASE p \in expanded_calls
  <2>1. frames' = t /\ expanded_calls' = expanded_calls
    BY <1>1, <1>8
  <2> HIDE DEF t
  <2>2. BodyNames' = BodyNames /\ Bodies' = Bodies
    <3>1. BodyNames' = BodyNames
      BY <1>1, <1>6, <1>7, <2>1 DEF BodyNames
    <3> QED BY <1>1, <3>1 DEF Bodies
  <2>3. FramesOk' /\ Waits' /\ Nodes' = Nodes
    <3> DEFINE rows == {c}
    <3>1. {d.source : d \in rows} \subseteq expanded_calls /\ Passes(frames', {}, rows)
      BY <1>2, <1>8, <2>1
    <3> HIDE DEF rows
    <3> QED BY <1>1, <2>1, <2>2, <3>1, FrameTurned DEF TreeOk
  <2>4. NodesInv'
    BY <1>1, <2>1, <2>2, <2>3, NodesStay DEF TreeOk
  <2> QED BY <2>3, <2>4 DEF TreeOk
<1>9. CASE p \notin expanded_calls
  <2>1. frames' = Append(t, f) /\ expanded_calls' = expanded_calls \cup {p}
    BY <1>1, <1>9
  <2>2. /\ FrameOk(f) /\ f.anchor = a /\ f.site = p /\ f.active = Top.active \cup {name}
        /\ name \notin Top.active => /\ BodyInlines(f.anchor) \subseteq Range(f.inlines)
                                    /\ BodyCalls(f.anchor) \subseteq Range(f.calls)
    <3>0. InstancesOk /\ call_rows = direct_calls
      BY DEF Readings
    <3>1. FrameOk(f)
      BY <1>4, <1>5, <3>0, FunctionFrameIs
    <3>2. f.anchor = a
      BY <1>4, <1>5, <3>0, FunctionFrameIs
    <3>3. f.site = p
      BY <1>4, <1>5, <3>0, FunctionFrameIs
    <3>4. f.active = Top.active \cup {name}
      BY <1>4, <1>5, <3>0, FunctionFrameIs
    <3>5. name \notin Top.active => /\ BodyInlines(f.anchor) \subseteq Range(f.inlines)
                                   /\ BodyCalls(f.anchor) \subseteq Range(f.calls)
      BY <1>4, <1>5, <3>0, FunctionFrameIs
    <3> HIDE DEF f, a, name, p
    <3> QED BY <3>1, <3>2, <3>3, <3>4, <3>5
  <2> HIDE DEF f, t
  <2>3. BodyNames' = BodyNames \cup {name} /\ Bodies' = Bodies \cup {a}
    <3>1. frames' # <<>>
      <4>1. f \in FrameSet
        BY <2>2 DEF FrameOk
      <4> QED BY <1>6, <2>1, <4>1
    <3>2. {d.callee : d \in {e \in call_rows : e.source \in expanded_calls \cup {p}}}
            = {d.callee : d \in {e \in call_rows : e.source \in expanded_calls}} \cup {name}
      BY <1>3, <1>4
    <3>3. BodyNames' = BodyNames \cup {name}
      <4> HIDE DEF p, name
      <4> QED BY <1>1, <1>7, <2>1, <3>1, <3>2 DEF BodyNames
    <3> HIDE DEF name
    <3> QED BY <1>1, <3>3 DEF Bodies
  <2>4. a \notin Bodies => name \notin Top.active
    BY <1>5 DEF Bodies
  <2>5. a \in Anchors
    BY <1>4 DEF Anchors
  <2> HIDE DEF a, name
  <2>6. FramesOk' /\ Waits' /\ Nodes' = Append(Nodes, <<f.anchor, f.site>>)
    <3> DEFINE ids == {}
               rows == {c}
    <3>1. /\ Passes(t, ids, rows) /\ expanded_inline \cup ids \subseteq expanded_inline'
          /\ expanded_calls \cup {d.source : d \in rows} \subseteq expanded_calls'
          /\ FramesOk /\ Waits /\ f.active \subseteq BodyNames' /\ BodyNames \subseteq BodyNames'
          /\ Bodies' = Bodies \cup {f.anchor}
          /\ f.anchor \notin Bodies => /\ BodyInlines(f.anchor) \subseteq Range(f.inlines)
                                       /\ BodyCalls(f.anchor) \subseteq Range(f.calls)
      BY <1>1, <1>2, <1>5, <2>1, <2>2, <2>3, <2>4 DEF TreeOk
    <3> HIDE DEF ids, rows
    <3> QED BY <1>1, <2>1, <2>2, <3>1, FramePushed
  <2>7. NodesInv'
    <3>1. Nodes' = Append(Nodes, <<a, p>>) /\ Nodes \in Seq(NodeSet)
      BY <1>5, <2>2, <2>6, NodesAre
    <3>2. Nodes # <<>> /\ \E d \in call_rows : d.source = p /\ Last(Nodes)[1] = CallAnchor(d)
      BY <1>1, <1>3, <1>5, NodesAre
    <3> HIDE DEF p, c
    <3> QED BY <1>1, <1>4, <1>9, <2>1, <2>3, <2>5, <3>1, <3>2, NodeOpened DEF TreeOk
  <2> QED BY <2>6, <2>7 DEF TreeOk
<1> QED BY <1>8, <1>9

LEMMA CloseNodeKept ==
  ASSUME TreeOk, Readings, CloseNode
  PROVE  TreeOk' /\ meta' # {}
<1> DEFINE m == [key |-> [k \in DOMAIN frames |-> <<frames[k].anchor, frames[k].site>>],
                 machineOwner |-> Top.machineOwner, callsitePc |-> Top.site,
                 cycleTruncated |-> Top.cycle, self |-> Top.self]
<1>1. /\ frames # <<>> /\ Top.inlines = <<>> /\ Top.calls = <<>>
      /\ meta' = meta \cup {m} /\ frames' = Front(frames)
      /\ SameInputs /\ expanded_calls' = expanded_calls /\ expanded_inline' = expanded_inline
  BY DEF CloseNode, SameInputs, inputVars, ownVars
<1>2. /\ m.key = Nodes /\ m.machineOwner = Top.machineOwner /\ m.callsitePc = Top.site
      /\ m.self = Top.self
  BY DEF Nodes
<1> HIDE DEF m
<1>3. frames \in Seq(FrameSet) /\ FrameOk(Top)
  BY <1>1, TopIs DEF TreeOk
<1>4. /\ Nodes \in Seq(NodeSet) /\ Nodes # <<>> /\ Last(Nodes) = <<Top.anchor, Top.site>>
  BY <1>1, <1>3, NodesAre
<1>5. BodyNames' = BodyNames /\ Bodies' = Bodies
  <2>1. RootName' = RootName /\ call_rows' = call_rows /\ meta' # {}
    BY <1>1, SameTree DEF SameInputs
  <2>2. BodyNames' = BodyNames
    BY <1>1, <2>1 DEF BodyNames
  <2> QED BY <1>1, <2>2 DEF Bodies
<1>6. FramesOk' /\ Waits' /\ Nodes' = Front(Nodes)
  BY <1>1, <1>5, FrameClosed DEF TreeOk
<1>7. m.machineOwner = OwnerOf(Top.anchor) /\ m.self = SelfOf(Top.anchor)
  BY <1>2, <1>3 DEF FrameOk
<1>8. /\ m.machineOwner = OwnerOf(Last(Nodes)[1]) /\ m.self = SelfOf(Last(Nodes)[1])
      /\ m.callsitePc = Last(Nodes)[2]
  BY <1>2, <1>4, <1>7
<1>9. NodesInv'
  BY <1>1, <1>2, <1>4, <1>5, <1>6, <1>8, NodeClosed DEF TreeOk
<1> QED BY <1>1, <1>6, <1>9 DEF TreeOk

LEMMA TreeStays ==
  ASSUME TreeOk, SameInputs, UNCHANGED treeVars
  PROVE  TreeOk'
<1>1. /\ frames' = frames /\ meta' = meta /\ expanded_calls' = expanded_calls
      /\ expanded_inline' = expanded_inline /\ call_rows' = call_rows
  BY DEF treeVars, SameInputs
<1>2. BodyNames' = BodyNames
  BY <1>1, SameTree DEF BodyNames
<1>3. Bodies' = Bodies /\ Nodes' = Nodes
  BY <1>1, <1>2 DEF Bodies, Nodes
<1>4. FramesOk'
  BY <1>1, <1>2, SameTree DEF TreeOk, FramesOk
<1>5. Waits'
  BY <1>1, <1>3, SameTree DEF TreeOk, Waits
<1>6. NodesInv'
  BY <1>1, <1>3, NodesStay DEF TreeOk
<1> QED BY <1>4, <1>5, <1>6 DEF TreeOk

-----------------------------------------------------------------------------
\* What holds of both tools, whatever the symbols and the entries are.
SymbolNames == {s.name : s \in symbols}
Called == [n \in SymbolNames |-> {c.callee : c \in {d \in call_rows : d.caller = n}}]
CalledFromRoot == ReachedFrom({root(ToSet(assigned_pcs))}, Called, SymbolNames)

FlameInv ==
  /\ built \notin {"idle", "extract"} => call_rows = direct_calls
  /\ built \notin {"idle", "extract", "own"} => reachable = CalledFromRoot
  /\ TreeOk
  /\ built \in {"idle", "extract", "own"} => frames = <<>> /\ meta = {}
  /\ frames = <<>> /\ meta = {} => expanded_calls = {} /\ expanded_inline = {}
  /\ built \in {"done", "missing"} => frames = <<>> /\ meta # {}
  /\ built = "missing" => ~(expected_instances \subseteq {m.machineOwner : m \in meta})

LEMMA FlameInitially == AnalyzeInit \/ FlameInit => FlameInv
<1> SUFFICES ASSUME AnalyzeInit \/ FlameInit PROVE FlameInv
  OBVIOUS
<1>1. /\ built \in {"idle", "extract"}
      /\ frames = <<>> /\ meta = {} /\ expanded_calls = {} /\ expanded_inline = {}
  BY DEF AnalyzeInit, FlameInit, NoFlame
<1> QED BY <1>1, EmptyTree DEF FlameInv

\* What the tools read depends on their inputs only.
LEMMA SameCalls ==
  ASSUME UNCHANGED <<code, symbols>>
  PROVE  direct_calls' = direct_calls
<1>1. \A p : Holding(p)' = Holding(p) /\ EnteredBy(p)' = EnteredBy(p)
  BY DEF Holding, EnteredBy
<1>2. \A p : CallerOf(p)' = CallerOf(p)
  <2> SUFFICES ASSUME NEW p PROVE CallerOf(p)' = CallerOf(p)
    OBVIOUS
  <2>1. Holding(p)' = Holding(p)
    BY <1>1
  <2> QED BY <2>1 DEF CallerOf, Earliest
<1>3. \A p : CalleeOf(p)' = CalleeOf(p)
  <2> SUFFICES ASSUME NEW p PROVE CalleeOf(p)' = CalleeOf(p)
    OBVIOUS
  <2>1. EnteredBy(p)' = EnteredBy(p)
    BY <1>1
  <2> QED BY <2>1 DEF CalleeOf, Earliest
<1>4. CallPlaces' = CallPlaces
  BY <1>1, <1>2, <1>3 DEF CallPlaces
<1>5. direct_calls = {[caller |-> CallerOf(p), callee |-> CalleeOf(p), source |-> p] : p \in CallPlaces}
  BY CallsAre
<1>6. direct_calls' =
        {[caller |-> CallerOf(p)', callee |-> CalleeOf(p)', source |-> p] : p \in CallPlaces'}
  BY DEF direct_calls, CallerOf, CalleeOf, EnteredBy, CallPlaces
<1> QED BY <1>2, <1>3, <1>4, <1>5, <1>6

LEMMA SameReached ==
  ASSUME UNCHANGED <<symbols, dies, instances, call_rows>>
  PROVE  CalledFromRoot' = CalledFromRoot
<1>1. assigned_pcs' = assigned_pcs
  BY SameOwners
<1>2. SymbolNames' = SymbolNames /\ Called' = Called
  BY DEF SymbolNames, Called
<1> QED BY <1>1, <1>2 DEF CalledFromRoot

LEMMA ReadingsHold ==
  ASSUME ToolsInv, FlameInv, built \notin {"idle", "extract"}
  PROVE  Readings
<1>1. PICK input \in FlameInputs : dies = input.dies
  BY DEF ToolsInv
<1>2. DiesAre /\ instances = function_instances
  BY <1>1, FlameAssumption DEF DiesAre, ToolsInv
<1> QED BY <1>2, InstancesFollow DEF Readings, FlameInv

LEMMA FlameStays ==
  ASSUME FlameInv, code' = code, built' = built, SameInputs, UNCHANGED treeVars
  PROVE  FlameInv'
<1>1. direct_calls' = direct_calls /\ CalledFromRoot' = CalledFromRoot
      /\ expected_instances' = expected_instances
      /\ call_rows' = call_rows /\ reachable' = reachable
  BY SameCalls, SameReached, SameTree DEF SameInputs
<1>2. TreeOk'
  BY TreeStays DEF FlameInv
<1>3. /\ frames' = frames /\ meta' = meta /\ expanded_calls' = expanded_calls
      /\ expanded_inline' = expanded_inline
  BY DEF treeVars
<1> QED BY <1>1, <1>2, <1>3 DEF FlameInv

LEMMA WalkStays ==
  ASSUME FlameInv, code' = code, built' = built, SameInputs, TreeOk',
         built \notin {"idle", "extract", "own", "done", "missing"},
         frames' # <<>> \/ meta' # {}
  PROVE  FlameInv'
<1>1. direct_calls' = direct_calls /\ CalledFromRoot' = CalledFromRoot
      /\ call_rows' = call_rows /\ reachable' = reachable
  BY SameCalls, SameReached DEF SameInputs
<1> QED BY <1>1 DEF FlameInv

\* The chain does not become empty when a call or an inlined call is looked at.
LEMMA NeverEmpty ==
  ASSUME FramesOk, frames # <<>>, OpenInline \/ OpenCall
  PROVE  frames' # <<>>
<1>1. \A f, t : t # <<>> /\ t \in Seq(FrameSet) => Append(t, f) # <<>>
  OBVIOUS
<1>2. ASSUME OpenInline PROVE frames' # <<>>
  <2>1. Passes(AfterInline, {Head(Top.inlines)}, {}) /\ \E f : frames' = Append(AfterInline, f)
    BY <1>2, TurnsInlines DEF OpenInline
  <2> QED BY <2>1, <1>1 DEF Passes, FramesOk
<1>3. ASSUME OpenCall PROVE frames' # <<>>
  <2>1. /\ Passes(AfterCall, {}, {Head(Top.calls)})
        /\ frames' = AfterCall \/ \E f : frames' = Append(AfterCall, f)
    BY <1>3, TurnsCalls DEF OpenCall
  <2> QED BY <2>1, <1>1 DEF Passes, FramesOk
<1> QED BY <1>2, <1>3

LEMMA FlameKept ==
  ToolsInv /\ FlameInv /\ [Analyze \/ Flame]_<<flowVars, flameVars>> => FlameInv'
<1> SUFFICES ASSUME ToolsInv, FlameInv, [Analyze \/ Flame]_<<flowVars, flameVars>> PROVE FlameInv'
  OBVIOUS
<1>1. CASE Analyze
  <2>1. built' = built /\ SameInputs /\ UNCHANGED treeVars
    BY <1>1 DEF Analyze, flameVars, inputVars, ownVars, SameInputs
  <2>2. code' = code
    BY <1>1 DEF Analyze, FlowNext, flowVars, graphVars, reachVars, searchVars, Partition, MakeGraph,
                Reach, BeginLoops, VisitRoot, VisitNext, SeenBefore, VisitReturns, BeginDepth, EndDepth
  <2> QED BY <2>1, <2>2, FlameStays
<1>2. CASE Flame
  <2>0. code' = code
    BY <1>2 DEF Flame, flowVars
  <2>a. frames # <<>> => built \notin {"idle", "extract", "own", "done", "missing"} /\ Readings
    BY ReadingsHold DEF FlameInv
  <2>1. CASE Extract
    <3>1. /\ built = "extract" /\ built' = "own" /\ UNCHANGED <<symbols, dies>>
          /\ call_rows' = direct_calls /\ UNCHANGED treeVars
      BY <2>1 DEF Extract, inputVars
    <3>2. direct_calls' = direct_calls
      BY <2>0, <3>1, SameCalls
    <3>3. /\ frames' = <<>> /\ meta' = {} /\ expanded_calls' = {} /\ expanded_inline' = {}
      BY <3>1 DEF FlameInv, treeVars
    <3>4. TreeOk'
      BY <3>3, EmptyTreeNext
    <3> QED BY <3>1, <3>2, <3>3, <3>4 DEF FlameInv
  <2>2. CASE Own
    <3>1. /\ built = "own" /\ built' = "tree" /\ UNCHANGED <<symbols, dies, instances, call_rows>>
          /\ reachable' = CalledFromRoot /\ UNCHANGED treeVars
      BY <2>2 DEF Own, inputVars, CalledFromRoot, Called, SymbolNames
    <3>2. direct_calls' = direct_calls /\ CalledFromRoot' = CalledFromRoot
      BY <2>0, <3>1, SameCalls, SameReached
    <3>3. /\ frames' = <<>> /\ meta' = {} /\ expanded_calls' = {} /\ expanded_inline' = {}
      BY <3>1 DEF FlameInv, treeVars
    <3>4. TreeOk'
      BY <3>3, EmptyTreeNext
    <3> QED BY <3>1, <3>2, <3>3, <3>4 DEF FlameInv
  <2>3. CASE OpenRoot
    <3>1. /\ built = "tree" /\ built' = built /\ frames = <<>> /\ meta = {} /\ frames' # <<>>
          /\ SameInputs
      BY <2>3 DEF OpenRoot, SameInputs, inputVars, ownVars
    <3>2. Readings /\ expanded_calls = {} /\ expanded_inline = {} /\ TreeOk
      BY <3>1, ReadingsHold DEF FlameInv
    <3>3. TreeOk'
      BY <2>3, <3>2, OpenRootKept
    <3> QED BY <2>0, <3>1, <3>3, WalkStays
  <2>4. CASE OpenInline
    <3>1. frames # <<>> /\ built' = built /\ SameInputs
      BY <2>4 DEF OpenInline, SameInputs, inputVars, ownVars
    <3>2. TreeOk'
      BY <2>4, <2>a, <3>1, OpenInlineKept DEF FlameInv
    <3>3. frames' # <<>>
      BY <3>1, <2>4, NeverEmpty DEF FlameInv, TreeOk
    <3> QED BY <2>0, <2>a, <3>1, <3>2, <3>3, WalkStays
  <2>5. CASE OpenCall
    <3>1. frames # <<>> /\ built' = built /\ SameInputs
      BY <2>5 DEF OpenCall, SameInputs, inputVars, ownVars
    <3>2. TreeOk'
      BY <2>5, <2>a, <3>1, OpenCallKept DEF FlameInv
    <3>3. frames' # <<>>
      BY <3>1, <2>5, NeverEmpty DEF FlameInv, TreeOk
    <3> QED BY <2>0, <2>a, <3>1, <3>2, <3>3, WalkStays
  <2>6. CASE CloseNode
    <3>1. frames # <<>> /\ built' = built /\ SameInputs
      BY <2>6 DEF CloseNode, SameInputs, inputVars, ownVars
    <3>2. TreeOk' /\ meta' # {}
      BY <2>6, <2>a, <3>1, CloseNodeKept DEF FlameInv
    <3> QED BY <2>0, <2>a, <3>1, <3>2, WalkStays
  <2>7. CASE Verify
    <3>1. /\ built = "tree" /\ frames = <<>> /\ meta # {} /\ SameInputs /\ UNCHANGED treeVars
          /\ built' = IF expected_instances \subseteq {m.machineOwner : m \in meta}
                      THEN "done" ELSE "missing"
      BY <2>7 DEF Verify, SameInputs, inputVars, ownVars
    <3>2. direct_calls' = direct_calls /\ CalledFromRoot' = CalledFromRoot
          /\ expected_instances' = expected_instances
          /\ call_rows' = call_rows /\ reachable' = reachable
      BY <2>0, <3>1, SameCalls, SameReached, SameTree DEF SameInputs
    <3>3. TreeOk'
      BY <3>1, TreeStays DEF FlameInv
    <3>4. frames' = frames /\ meta' = meta
      BY <3>1 DEF treeVars
    <3> QED BY <3>1, <3>2, <3>3, <3>4 DEF FlameInv
  <2> QED BY <1>2, <2>1, <2>2, <2>3, <2>4, <2>5, <2>6, <2>7 DEF Flame, FlameNext
<1>3. CASE UNCHANGED <<flowVars, flameVars>>
  <2>1. built' = built /\ SameInputs /\ UNCHANGED treeVars /\ code' = code
    BY <1>3 DEF flameVars, inputVars, ownVars, SameInputs, flowVars
  <2> QED BY <2>1, FlameStays
<1> QED BY <1>1, <1>2, <1>3
-----------------------------------------------------------------------------
\* What the finished tree shows.
Finished ==
  /\ Readings /\ TreeOk /\ frames = <<>> /\ meta # {}
  /\ symbol_at = assigned_pcs
  /\ inline_at_pc = [p \in DOMAIN assigned_pcs |-> InlineAt(p)]
  /\ reachable = CalledFromRoot
  /\ IsFiniteSet(symbols) /\ \A s \in symbols : s.start \in Nat /\ s.size \in Nat \ {0}
  /\ CallsOnly /\ OneRootEach

\* An address is of one symbol, a name too.
LEMMA SymbolIs ==
  ASSUME Finished
  PROVE  /\ \A s, t \in symbols : s.name = t.name => s = t
         /\ \A s \in symbols : s.start \in Extent(s)
         /\ \A s \in symbols : \A p \in Extent(s) :
              /\ p \in Addresses /\ Holding(p) = {s} /\ Narrowest(p) = s.name /\ CallerOf(p) = s.name
              /\ p \in DOMAIN symbol_at /\ symbol_at[p] = s.name
              /\ p \in DOMAIN inline_at_pc /\ inline_at_pc[p] = InlineAt(p)
         /\ \A p \in DOMAIN symbol_at : \E s \in symbols : p \in Extent(s)
<1>1. \A s, t \in symbols : s # t => s.name # t.name /\ Extent(s) \cap Extent(t) = {}
  BY DEF Finished, CallsOnly
<1>2. \A s \in symbols : s.start \in Extent(s)
  <2> SUFFICES ASSUME NEW s \in symbols PROVE s.start \in Extent(s)
    OBVIOUS
  <2>1. s.start \in Nat /\ s.size \in Nat \ {0}
    BY DEF Finished
  <2> QED BY <2>1 DEF Extent
<1>3. /\ DOMAIN symbol_at = {p \in Addresses : Holding(p) # {}}
      /\ \A p \in DOMAIN symbol_at : symbol_at[p] = Narrowest(p)
      /\ DOMAIN inline_at_pc = DOMAIN symbol_at
      /\ \A p \in DOMAIN symbol_at : inline_at_pc[p] = InlineAt(p)
  BY DEF Finished, assigned_pcs
<1>4. ASSUME NEW s \in symbols, NEW p \in Extent(s)
      PROVE  p \in Addresses /\ Holding(p) = {s} /\ Narrowest(p) = s.name /\ CallerOf(p) = s.name
  <2>1. p \in Addresses
    BY DEF Finished, CallsOnly
  <2>2. Holding(p) = {s}
    BY <1>1 DEF Holding
  <2>3. Narrowest(p) = s.name
    BY <2>2 DEF Narrowest, Earliest
  <2>4. CallerOf(p) = s.name
    BY <2>2 DEF CallerOf, Earliest
  <2> QED BY <2>1, <2>2, <2>3, <2>4
<1>5. \A p \in DOMAIN symbol_at : \E s \in symbols : p \in Extent(s)
  BY <1>3 DEF Holding
<1>6. ASSUME NEW s \in symbols, NEW p \in Extent(s)
      PROVE  /\ p \in DOMAIN symbol_at /\ symbol_at[p] = s.name
             /\ p \in DOMAIN inline_at_pc /\ inline_at_pc[p] = InlineAt(p)
  <2>1. p \in Addresses /\ Holding(p) # {} /\ Narrowest(p) = s.name
    BY <1>4
  <2>2. p \in DOMAIN symbol_at
    BY <1>3, <2>1
  <2> QED BY <1>3, <2>1, <2>2
<1>7. \A s, t \in symbols : s.name = t.name => s = t
  BY <1>1
<1> QED BY <1>2, <1>4, <1>5, <1>6, <1>7

\* The direct calls are the calls from one symbol to another one.
LEMMA RowIs ==
  ASSUME Finished
  PROVE  /\ \A s, t \in symbols : \A p \in Extent(s) :
              code[p].kind \in {"call", "tail"} /\ code[p].to = t.start /\ s # t =>
                \E c \in call_rows : c.source = p /\ c.caller = s.name /\ c.callee = t.name
         /\ \A c \in call_rows : /\ c.source # 0
                                 /\ \E s \in symbols : c.source \in Extent(s) /\ c.caller = s.name
                                 /\ \E t \in symbols : c.callee = t.name
<1>1. call_rows = direct_calls
  BY DEF Finished, Readings
<1>2. ASSUME NEW p, NEW t \in symbols, code[p].to = t.start PROVE EnteredBy(p) = {t} /\ CalleeOf(p) = t.name
  <2>1. \A s \in symbols : s.start = t.start => s = t
    BY SymbolIs
  <2>2. EnteredBy(p) = {t}
    BY <1>2, <2>1 DEF EnteredBy
  <2> QED BY <2>2 DEF CalleeOf, Earliest
<1>3. ASSUME NEW s \in symbols, NEW t \in symbols, NEW p \in Extent(s),
             code[p].kind \in {"call", "tail"}, code[p].to = t.start, s # t
      PROVE  \E c \in call_rows : c.source = p /\ c.caller = s.name /\ c.callee = t.name
  <2>1. /\ p \in Addresses /\ Holding(p) = {s} /\ CallerOf(p) = s.name
        /\ EnteredBy(p) = {t} /\ CalleeOf(p) = t.name /\ s.name # t.name
    BY <1>2, <1>3, SymbolIs
  <2>2. p \in CallPlaces
    BY <1>3, <2>1 DEF CallPlaces
  <2>3. [caller |-> CallerOf(p), callee |-> CalleeOf(p), source |-> p] \in call_rows
    BY <1>1, <2>2, CallsAre
  <2> QED BY <2>1, <2>3
<1>4. ASSUME NEW c \in call_rows
      PROVE  /\ c.source # 0
             /\ \E s \in symbols : c.source \in Extent(s) /\ c.caller = s.name
             /\ \E t \in symbols : c.callee = t.name
  <2>1. /\ c.source # 0 /\ c.source \in CallPlaces
        /\ c.caller = CallerOf(c.source) /\ c.callee = CalleeOf(c.source)
    BY <1>1, RowsAre
  <2>2. Holding(c.source) # {} /\ EnteredBy(c.source) # {}
    BY <2>1 DEF CallPlaces
  <2>3. PICK s \in symbols : c.source \in Extent(s)
    BY <2>2 DEF Holding
  <2>4. PICK t \in symbols : code[c.source].to = t.start
    BY <2>2 DEF EnteredBy
  <2>5. c.caller = s.name
    BY <2>1, <2>3, SymbolIs
  <2>6. c.callee = t.name
    BY <1>2, <2>1, <2>4
  <2> QED BY <2>1, <2>3, <2>5, <2>6
<1> QED BY <1>3, <1>4

\* The names called from the root are the least such set.
LEMMA ReachableIs ==
  ASSUME Finished
  PROVE  /\ RootName \in reachable
         /\ \A c \in call_rows : c.caller \in reachable => c.callee \in reachable
         /\ \A T : RootName \in T /\ (\A c \in call_rows : c.caller \in T => c.callee \in T)
                     => reachable \subseteq T
<1>1. IsFiniteSet(SymbolNames)
  <2> DEFINE f == [s \in symbols |-> s.name]
  <2>1. f \in Surjection(symbols, SymbolNames)
    BY DEF Surjection, SymbolNames
  <2> HIDE DEF f
  <2> QED BY <2>1, FS_Surjection DEF Finished
<1> DEFINE R == ReachedFrom({RootName}, Called, SymbolNames)
<1>2. reachable = R
  BY DEF Finished, CalledFromRoot, RootName
<1>3. /\ {RootName} \subseteq R /\ ClosedUnder(R, Called, SymbolNames)
      /\ \A T : {RootName} \subseteq T /\ ClosedUnder(T, Called, SymbolNames) => R \subseteq T
  BY <1>1, ReachedIsLeast
<1> HIDE DEF R
<1>4. \A n \in SymbolNames : Called[n] = {c.callee : c \in {d \in call_rows : d.caller = n}}
  BY DEF Called
<1>5. \A c \in call_rows : c.caller \in SymbolNames
  BY RowIs DEF SymbolNames
<1>6. \A T : ClosedUnder(T, Called, SymbolNames)
               <=> \A c \in call_rows : c.caller \in T => c.callee \in T
  BY <1>4, <1>5 DEF ClosedUnder
<1> QED BY <1>2, <1>3, <1>6

\* What is inlined has the symbol of what it is inlined into.
LEMMA SymbolOfInstance ==
  ASSUME InstancesOk
  PROVE  /\ \A id : \A n \in SymbolsOf(id) : SymbolsOf(id) = {n}
         /\ \A i \in Ids("inlined") :
              SymbolsOf(Id(i)) # {} => /\ instances[i].parent # 0
                                       /\ SymbolsOf(Id(Up(i))) = SymbolsOf(Id(i))
<1> DEFINE entries(id) == IF ConcreteOf[id] = 0 THEN {} ELSE {Lowest(dies[ConcreteOf[id]].pcs)}
<1>1. \A id : SymbolsOf(id) = {Narrowest(p) : p \in {q \in entries(id) : Holding(q) # {}}}
  BY DEF SymbolsOf, ConcreteOf
<1>2. \A id : \A p, q \in entries(id) : p = q
  OBVIOUS
<1>3. \A id : \A n \in SymbolsOf(id) : SymbolsOf(id) = {n}
  <2> HIDE DEF entries
  <2> QED BY <1>1, <1>2
<1>4. \A d, e : ConcreteOf[d] = ConcreteOf[e] => SymbolsOf(d) = SymbolsOf(e)
  BY <1>1
<1>5. \A d : ConcreteOf[d] = 0 => SymbolsOf(d) = {}
  BY <1>1
<1>6. ASSUME NEW i \in Ids("inlined"), SymbolsOf(Id(i)) # {}
      PROVE  instances[i].parent # 0 /\ SymbolsOf(Id(Up(i))) = SymbolsOf(Id(i))
  <2>1. i \in Inst /\ instances[i].kind = "inlined"
    BY DEF Ids, Inst
  <2>2. /\ Len(dies) \in Nat /\ Id(i) \in 1 .. Len(dies) /\ dies[Id(i)].tag = "inlined"
        /\ instances[i].parent = Nearest[dies[Id(i)].parent]
        /\ instances[i].parent # 0 => Up(i) \in Inst /\ Id(Up(i)) = instances[i].parent
    BY <2>1, InstanceIs
  <2>3. Id(i) \in 0 .. Len(dies) /\ Id(i) # 0 /\ 0 \in 0 .. Len(dies)
    BY <2>2
  <2>4. ConcreteOf[Id(i)] = ConcreteOf[instances[i].parent] /\ ConcreteOf[0] = 0
    BY <2>2, <2>3, ConcreteIs DEF InstancesOk
  <2>5. instances[i].parent # 0
    BY <1>5, <1>6, <2>4
  <2> QED BY <1>4, <2>2, <2>4, <2>5
<1> QED BY <1>3, <1>6

\* An instance that has an address is of the symbol that the address is in.
LEMMA InlineAtIs ==
  ASSUME InstancesOk, NEW p, InlineAt(p) # 0
  PROVE  \E j \in Ids("inlined") : InlineAt(p) = Id(j) /\ SymbolsOf(Id(j)) = {Narrowest(p)}
<1> DEFINE J == {j \in Ids("inlined") : p \in instances[j].pcs /\ SymbolsOf(instances[j].id) = {Narrowest(p)}}
           C == {instances[j] : j \in J}
           N == Len(dies)
           Key(x) == <<Cardinality(x.pcs), -x.id>>
           First(x) == x \in C /\ \A y \in C : x = y \/ Earlier(Key(x), Key(y))
<1>1. InlineAt(p) = IF C = {} THEN 0 ELSE Deepest(C).id
  BY DEF InlineAt
<1>2. C # {} /\ InlineAt(p) = Deepest(C).id
  <2> HIDE DEF C
  <2> QED BY <1>1
<1>3. N \in Nat /\ \A x \in C : x.id \in 1 .. N /\ Cardinality(x.pcs) \in Nat
  <2> SUFFICES ASSUME NEW j \in Inst
               PROVE  N \in Nat /\ Id(j) \in 1 .. N /\ Cardinality(Pcs(j)) \in Nat
    BY <1>2 DEF Ids, Inst, Id, Pcs
  <2>1. Len(dies) \in Nat /\ Id(j) \in 1 .. Len(dies) /\ IsFiniteSet(Pcs(j))
    BY InstanceIs
  <2> QED BY <2>1, FS_CardinalityType
<1>4. \A x, y \in C : x.id = y.id => x = y
  <2>1. \A i, k \in Inst : Id(i) = Id(k) => i = k
    BY DEF InstancesOk
  <2> QED BY <2>1 DEF Ids, Inst, Id
<1>5. \E x : First(x)
  <2> HIDE DEF C, N
  <2> DEFINE S == {Cardinality(x.pcs) : x \in C}
  <2>1. S \in SUBSET Nat /\ S # {}
    BY <1>2, <1>3
  <2>2. PICK n \in S : \A k \in S : n <= k
    <3> HIDE DEF S
    <3> QED BY <2>1, Least
  <2> DEFINE D == {x \in C : Cardinality(x.pcs) = n}
             L == {N - x.id : x \in D}
  <2>3. L \in SUBSET Nat /\ L # {}
    BY <1>3, <2>2
  <2>4. PICK l \in L : \A k \in L : l <= k
    <3> HIDE DEF L
    <3> QED BY <2>3, Least
  <2>5. PICK x \in C : Cardinality(x.pcs) = n /\ N - x.id = l
    BY <2>4
  <2>6. ASSUME NEW y \in C, y # x PROVE Earlier(Key(x), Key(y))
    <3>1. /\ x.id \in Int /\ y.id \in Int /\ N \in Int /\ x.id # y.id
          /\ Cardinality(x.pcs) \in Int /\ Cardinality(y.pcs) \in Int
      BY <1>3, <1>4, <2>6
    <3>2. Cardinality(x.pcs) <= Cardinality(y.pcs)
      BY <2>2, <2>5
    <3>3. Cardinality(x.pcs) = Cardinality(y.pcs) => N - x.id <= N - y.id
      BY <2>4, <2>5
    <3>4. Cardinality(x.pcs) = Cardinality(y.pcs) => -x.id < -y.id
      BY <3>1, <3>3
    <3>5. Cardinality(x.pcs) < Cardinality(y.pcs) \/ Cardinality(x.pcs) = Cardinality(y.pcs)
      BY <3>1, <3>2
    <3> QED BY <3>4, <3>5 DEF Earlier
  <2> QED BY <2>6
<1>6. Deepest(C) = CHOOSE x : First(x)
  BY DEF Deepest, Earliest
<1>7. Deepest(C) \in C
  <2>1. First(Deepest(C))
    <3> HIDE DEF First, C
    <3> QED BY <1>5, <1>6
  <2> QED BY <2>1
<1>8. PICK j \in J : Deepest(C) = instances[j]
  BY <1>7
<1> QED BY <1>2, <1>8 DEF Id

\* Nothing waits any more.
LEMMA BodiesAreShown ==
  ASSUME Finished
  PROVE  /\ \A a \in Bodies : BodyInlines(a) \subseteq expanded_inline
         /\ \A a \in Bodies : \A c \in BodyCalls(a) : c.source \in expanded_calls
         /\ RootName \in BodyNames
         /\ \A c \in call_rows : c.source \in expanded_calls => c.callee \in BodyNames
<1>1. DOMAIN frames = {}
  BY DEF Finished
<1> QED BY <1>1 DEF Finished, TreeOk, Waits, BodyNames

\* The instance of a name, when no other function begins in its symbol.
LEMMA FunctionOfName ==
  ASSUME Finished, NEW i \in Ids("concrete"), NEW n, SymbolsOf(Id(i)) = {n}
  PROVE  concrete_for_name(n) = Id(i) /\ Id(i) # 0 /\ InstanceAt(<<"fn", n>>) = Id(i)
<1> DEFINE mine == {k \in Ids("concrete") : SymbolsOf(instances[k].id) = {n}}
<1>1. \A k \in Ids("concrete") : SymbolsOf(instances[k].id) = {n} => k = i
  BY DEF Finished, OneRootEach, Id
<1>2. mine = {i}
  BY <1>1 DEF Id
<1>3. i \in Inst /\ Id(i) # 0 /\ i \in Nat
  <2>1. i \in Inst
    BY DEF Ids, Inst
  <2>2. Id(i) \in 1 .. Len(dies) /\ i \in Nat
    BY <2>1, InstanceIs DEF Finished, Readings, InstancesOk
  <2> QED BY <2>1, <2>2
<1>4. concrete_for_name(n) = IF mine = {} THEN 0 ELSE Id(CHOOSE k \in mine : \A l \in mine : l <= k)
  BY DEF concrete_for_name, Id
<1>5. (CHOOSE k \in mine : \A l \in mine : l <= k) = i
  <2> HIDE DEF mine
  <2>1. i \in mine /\ (\A l \in mine : l <= i) /\ \A k \in mine : k = i
    BY <1>2, <1>3
  <2> QED BY <2>1
<1> HIDE DEF mine
<1>6. concrete_for_name(n) = Id(i)
  BY <1>2, <1>4, <1>5
<1> QED BY <1>3, <1>6 DEF InstanceAt

\* What is inlined into a function that is shown, at any depth, is shown.
LEMMA InlinesAreShown ==
  ASSUME Finished
  PROVE  \A i \in Ids("inlined") : \A n \in BodyNames :
           SymbolsOf(Id(i)) = {n} => Id(i) \in expanded_inline
<1> DEFINE Seen(i) == \A n \in BodyNames : SymbolsOf(Id(i)) = {n} => Id(i) \in expanded_inline
           T == {n \in Nat : \A i \in Ids("inlined") : Id(i) <= n => Seen(i)}
<1>0. InstancesOk /\ \A i \in Ids("inlined") : i \in Inst /\ Id(i) \in Nat /\ Id(i) # 0
  <2>1. InstancesOk
    BY DEF Finished, Readings
  <2>2. \A i \in Inst : Id(i) \in 1 .. Len(dies)
    BY <2>1, InstanceIs
  <2> QED BY <2>1, <2>2 DEF Ids, Inst
<1>1. 0 \in T
  <2>1. \A i \in Ids("inlined") : ~(Id(i) <= 0)
    BY <1>0
  <2> QED BY <2>1
<1>2. ASSUME NEW m \in T PROVE m + 1 \in T
  <2> SUFFICES ASSUME NEW i \in Ids("inlined"), Id(i) <= m + 1, NEW n \in BodyNames, SymbolsOf(Id(i)) = {n}
               PROVE  Id(i) \in expanded_inline
    OBVIOUS
  <2>1. i \in Inst /\ instances[i].parent # 0 /\ SymbolsOf(Id(Up(i))) = {n}
    BY <1>0, SymbolOfInstance
  <2>2. /\ Up(i) \in Inst /\ Id(Up(i)) = instances[i].parent /\ Id(Up(i)) < Id(i)
        /\ Len(dies) \in Nat /\ Id(Up(i)) \in 1 .. Len(dies) /\ instances[Up(i)].kind \in {"concrete", "inlined"}
    <3>1. Up(i) \in Inst /\ Id(Up(i)) = instances[i].parent /\ Id(Up(i)) < Id(i)
      BY <1>0, <2>1, InstanceIs
    <3> QED BY <1>0, <3>1, InstanceIs
  <2>3. Id(i) \in ChildrenOf(Id(Up(i)))
    BY <2>2 DEF ChildrenOf, Id
  <2> DEFINE a == IF instances[Up(i)].kind = "inlined" THEN <<"fi", Id(Up(i))>> ELSE <<"fn", n>>
  <2>4. a \in Bodies /\ InstanceAt(a) = Id(Up(i))
    <3>1. CASE instances[Up(i)].kind = "inlined"
      <4>1. Up(i) \in Ids("inlined")
        BY <2>2, <3>1 DEF Ids, Inst
      <4>2. Id(Up(i)) <= m
        <5>1. Id(i) \in Nat /\ Id(Up(i)) \in Nat /\ m \in Nat
          BY <1>0, <2>2
        <5> HIDE DEF T
        <5> QED BY <2>2, <5>1
      <4>3. Id(Up(i)) \in expanded_inline
        BY <2>1, <4>1, <4>2
      <4> QED BY <3>1, <4>3 DEF Bodies, InstanceAt
    <3>2. CASE instances[Up(i)].kind = "concrete"
      <4>1. Up(i) \in Ids("concrete")
        BY <2>2, <3>2 DEF Ids, Inst
      <4>2. InstanceAt(<<"fn", n>>) = Id(Up(i))
        BY <2>1, <4>1, FunctionOfName
      <4> QED BY <3>2, <4>2 DEF Bodies
    <3> QED BY <2>2, <3>1, <3>2
  <2> HIDE DEF a
  <2>5. Id(i) \in BodyInlines(a)
    BY <2>2, <2>3, <2>4 DEF BodyInlines
  <2> QED BY <2>4, <2>5, BodiesAreShown
<1>3. T = Nat
  <2> HIDE DEF T
  <2>1. T \in SUBSET Nat
    BY DEF T
  <2> QED BY <1>1, <1>2, <2>1, SetInduction
<1>4. ASSUME NEW i \in Ids("inlined") PROVE Seen(i)
  <2>1. Id(i) \in T /\ Id(i) <= Id(i)
    BY <1>0, <1>3
  <2> QED BY <2>1
<1> QED BY <1>4

\* What an address of a function that is shown belongs to is shown.
LEMMA AddressIsShown ==
  ASSUME Finished, NEW s \in symbols, NEW p \in Extent(s), s.name \in BodyNames
  PROVE  \E a \in Bodies : /\ p \in SelfOf(a)
                           /\ \A c \in call_rows : c.source = p /\ c.caller = s.name => CallAnchor(c) = a
<1>1. /\ p \in DOMAIN symbol_at /\ symbol_at[p] = s.name /\ Narrowest(p) = s.name
      /\ p \in DOMAIN inline_at_pc /\ inline_at_pc[p] = InlineAt(p)
  BY SymbolIs
<1>2. CASE inline_at_pc[p] = 0
  <2>1. <<"fn", s.name>> \in Bodies
    BY DEF Bodies
  <2>2. p \in SelfOf(<<"fn", s.name>>)
    BY <1>1, <1>2 DEF SelfOf
  <2>3. \A c \in call_rows : c.source = p /\ c.caller = s.name => CallAnchor(c) = <<"fn", s.name>>
    BY <1>1, <1>2 DEF CallAnchor
  <2> QED BY <2>1, <2>2, <2>3
<1>3. CASE inline_at_pc[p] # 0
  <2>1. PICK j \in Ids("inlined") : InlineAt(p) = Id(j) /\ SymbolsOf(Id(j)) = {s.name}
    BY <1>1, <1>3, InlineAtIs DEF Finished, Readings
  <2>2. Id(j) \in expanded_inline
    BY <2>1, InlinesAreShown
  <2>3. <<"fi", Id(j)>> \in Bodies
    BY <2>2 DEF Bodies
  <2>4. p \in SelfOf(<<"fi", Id(j)>>)
    BY <1>1, <2>1 DEF SelfOf
  <2>5. \A c \in call_rows : c.source = p => CallAnchor(c) = <<"fi", Id(j)>>
    BY <1>1, <1>3, <2>1 DEF CallAnchor
  <2> QED BY <2>3, <2>4, <2>5
<1> QED BY <1>2, <1>3

\* Every function that is called from the root is shown, and every call of it.
LEMMA ReachedIsShown ==
  ASSUME Finished
  PROVE  /\ reachable \subseteq BodyNames
         /\ \A c \in call_rows : c.caller \in reachable => c.source \in expanded_calls
<1>1. ASSUME NEW c \in call_rows, c.caller \in reachable, c.caller \in BodyNames
      PROVE  c.source \in expanded_calls
  <2>1. PICK s \in symbols : c.source \in Extent(s) /\ c.caller = s.name
    BY RowIs
  <2>2. PICK a \in Bodies : CallAnchor(c) = a
    BY <1>1, <2>1, AddressIsShown
  <2>3. c.callee \in reachable
    BY <1>1, ReachableIs
  <2>4. c \in BodyCalls(a)
    BY <1>1, <2>2, <2>3 DEF BodyCalls
  <2> QED BY <2>4, BodiesAreShown
<1> DEFINE T == BodyNames \cap reachable
<1>2. RootName \in T
  BY ReachableIs, BodiesAreShown
<1>3. \A c \in call_rows : c.caller \in T => c.callee \in T
  BY <1>1, ReachableIs, BodiesAreShown
<1>4. reachable \subseteq T
  <2> HIDE DEF T
  <2> QED BY <1>2, <1>3, ReachableIs
<1> QED BY <1>1, <1>4

\* What is shown has meta data.
LEMMA ShownIs ==
  ASSUME Finished
  PROVE  /\ Keys = {m.key : m \in meta}
         /\ \A a \in Bodies : \E m \in meta : m.machineOwner = OwnerOf(a) /\ m.self = SelfOf(a)
         /\ \A p \in expanded_calls : \E m \in meta : m.callsitePc = p
<1>1. Keys = {m.key : m \in meta}
  <2>1. Beginnings(Nodes) = {}
    BY DEF Finished, Nodes, Beginnings
  <2> QED BY <2>1 DEF Keys
<1>2. MetaOk /\ Shown
  BY DEF Finished, TreeOk, NodesInv
<1>3. ASSUME NEW a \in Bodies PROVE \E m \in meta : m.machineOwner = OwnerOf(a) /\ m.self = SelfOf(a)
  <2>1. PICK m \in meta : Last(m.key)[1] = a
    BY <1>1, <1>2 DEF Shown
  <2> QED BY <1>2, <2>1 DEF MetaOk
<1>4. ASSUME NEW p \in expanded_calls PROVE \E m \in meta : m.callsitePc = p
  <2>1. PICK m \in meta : Last(m.key)[2] = p
    BY <1>1, <1>2 DEF Shown
  <2> QED BY <1>2, <2>1 DEF MetaOk
<1> QED BY <1>1, <1>3, <1>4

\* The check after the walk does not fail.
LEMMA NoneIsMissing ==
  ASSUME Finished
  PROVE  expected_instances \subseteq {m.machineOwner : m \in meta}
<1>1. ASSUME NEW n \in reachable, concrete_for_name(n) = 0
      PROVE  \E m \in meta : m.machineOwner = <<"fn", Named(n).start>>
  <2>1. <<"fn", n>> \in Bodies
    BY ReachedIsShown DEF Bodies
  <2>2. OwnerOf(<<"fn", n>>) = <<"fn", Named(n).start>>
    BY <1>1 DEF OwnerOf, InstanceAt
  <2> QED BY <2>1, <2>2, ShownIs
<1>2. ASSUME NEW i \in Inst, SymbolsOf(Id(i)) \cap reachable # {}
      PROVE  \E m \in meta : m.machineOwner = <<"fi", Id(i)>>
  <2>0. InstancesOk
    BY DEF Finished, Readings
  <2>1. PICK n \in reachable : SymbolsOf(Id(i)) = {n}
    BY <1>2, <2>0, SymbolOfInstance
  <2>2. n \in BodyNames
    BY ReachedIsShown
  <2>3. /\ Id(i) # 0 /\ instances[i].kind \in {"concrete", "inlined"}
    <3>1. Id(i) \in 1 .. Len(dies) /\ instances[i].kind \in {"concrete", "inlined"}
      BY <2>0, InstanceIs
    <3> QED BY <3>1
  <2>4. CASE instances[i].kind = "inlined"
    <3>1. i \in Ids("inlined")
      BY <2>4 DEF Ids, Inst
    <3>2. <<"fi", Id(i)>> \in Bodies
      BY <2>1, <2>2, <3>1, InlinesAreShown DEF Bodies
    <3>3. OwnerOf(<<"fi", Id(i)>>) = <<"fi", Id(i)>>
      BY <2>3 DEF OwnerOf, InstanceAt
    <3> QED BY <3>2, <3>3, ShownIs
  <2>5. CASE instances[i].kind = "concrete"
    <3>1. i \in Ids("concrete")
      BY <2>5 DEF Ids, Inst
    <3>2. InstanceAt(<<"fn", n>>) = Id(i)
      BY <2>1, <3>1, FunctionOfName
    <3>3. <<"fn", n>> \in Bodies
      BY <2>2 DEF Bodies
    <3>4. OwnerOf(<<"fn", n>>) = <<"fi", Id(i)>>
      BY <2>3, <3>2 DEF OwnerOf
    <3> QED BY <3>3, <3>4, ShownIs
  <2> QED BY <2>3, <2>4, <2>5
<1>3. ASSUME NEW e \in expected_instances PROVE \E m \in meta : e = m.machineOwner
  BY <1>1, <1>2 DEF expected_instances, Inst, Id
<1> QED BY <1>3

\* What direct control flow reaches is in a function that is called from the root.
LEMMA ReachedAreOwned ==
  ASSUME Finished
  PROVE  \A p \in DirectlyReached : \E s \in symbols : p \in Extent(s) /\ s.name \in reachable
<1> DEFINE T == {p \in DOMAIN symbol_at : symbol_at[p] \in reachable}
           Direct == [p \in Addresses |-> Follow(p)]
<1>1. \A p \in T : \E s \in symbols : p \in Extent(s) /\ s.name \in reachable
  BY SymbolIs
<1>2. \A s \in symbols : s.name \in reachable => Extent(s) \subseteq T
  BY SymbolIs
<1>3. Start(Entry) \in T
  <2>1. PICK s \in symbols : s.name = RootName /\ s.start = Start(Entry)
    BY DEF Finished, OneRootEach, RootName
  <2>2. s.start \in Extent(s) /\ s.name \in reachable
    BY <2>1, SymbolIs, ReachableIs
  <2> QED BY <1>2, <2>1, <2>2
<1>4. ASSUME NEW p \in T PROVE Follow(p) \subseteq T
  <2>1. PICK s \in symbols : p \in Extent(s) /\ s.name \in reachable
    BY <1>1
  <2>2. p \in Addresses /\ s \in Holding(p)
    BY <2>1, SymbolIs
  <2>3. ASSUME NEW q \in Follow(p), q \notin Extent(s) PROVE q \in T
    <3>1. code[p].kind \in {"call", "tail"} /\ q = code[p].to /\ \E t \in symbols : q = t.start
      BY <2>2, <2>3 DEF Finished, CallsOnly
    <3>2. PICK t \in symbols : q = t.start
      BY <3>1
    <3>3. s # t /\ q \in Extent(t)
      BY <2>3, <3>2, SymbolIs
    <3>4. \E c \in call_rows : c.source = p /\ c.caller = s.name /\ c.callee = t.name
      <4>1. code[p].kind \in {"call", "tail"} /\ code[p].to = t.start /\ p \in Extent(s)
        BY <2>1, <3>1, <3>2
      <4> QED BY <3>3, <4>1, RowIs
    <3>5. t.name \in reachable
      BY <2>1, <3>4, ReachableIs
    <3> QED BY <1>2, <3>3, <3>5
  <2> QED BY <1>2, <2>1, <2>3
<1>5. DirectlyReached \subseteq T
  <2> DEFINE R == ReachedFrom({Start(Entry)}, Direct, Addresses)
  <2>1. DirectlyReached = R
    BY DEF DirectlyReached
  <2>2. \A S : {Start(Entry)} \subseteq S /\ ClosedUnder(S, Direct, Addresses) => R \subseteq S
    BY AddressesFinite, ReachedIsLeast
  <2> HIDE DEF R, T
  <2>3. ClosedUnder(T, Direct, Addresses)
    BY <1>4 DEF ClosedUnder
  <2> QED BY <1>3, <2>1, <2>2, <2>3
<1> QED BY <1>1, <1>5

\* Two anchors have nothing in common.
LEMMA OwnersAreApart ==
  ASSUME InstancesOk, NEW a \in Anchors, NEW b \in Anchors, a # b
  PROVE  SelfOf(a) \cap SelfOf(b) = {}
<1>1. \A id \in InlineIds : id # 0
  BY InlinesAre
<1>2. \A x \in Anchors : \/ x[1] = "fn" /\ x = <<"fn", x[2]>>
                         \/ x[1] = "fi" /\ x = <<"fi", x[2]>> /\ x[2] # 0
  BY <1>1 DEF Anchors
<1>3. CASE a[1] = "fn" /\ b[1] = "fn"
  BY <1>2, <1>3 DEF SelfOf
<1>4. CASE a[1] = "fi" /\ b[1] = "fi"
  BY <1>2, <1>4 DEF SelfOf
<1>5. CASE a[1] = "fn" /\ b[1] = "fi"
  BY <1>2, <1>5 DEF SelfOf
<1>6. CASE a[1] = "fi" /\ b[1] = "fn"
  BY <1>2, <1>6 DEF SelfOf
<1> QED BY <1>2, <1>3, <1>4, <1>5, <1>6

LEMMA FinishedSuffices ==
  ASSUME Finished
  PROVE  /\ expected_instances \subseteq {m.machineOwner : m \in meta}
         /\ DirectlyReached \subseteq UNION {m.self : m \in meta}
         /\ \A m, o \in meta : m.machineOwner # o.machineOwner => m.self \cap o.self = {}
         /\ \A p \in Sites : Cardinality({m \in meta : m.callsitePc = p}) = 1
         /\ \A m \in meta : m.callsitePc # 0 =>
              \E o \in meta : o.key = Front(m.key) /\ m.callsitePc \in o.self
<1>0. KeysOk /\ MetaOk /\ Once /\ Placed /\ InstancesOk
  BY DEF Finished, TreeOk, NodesInv, Readings
<1>1. ASSUME NEW p \in DirectlyReached PROVE p \in UNION {m.self : m \in meta}
  <2>1. PICK s \in symbols : p \in Extent(s) /\ s.name \in reachable
    BY ReachedAreOwned
  <2>2. PICK a \in Bodies : p \in SelfOf(a)
    BY <2>1, AddressIsShown, ReachedIsShown
  <2> QED BY <2>2, ShownIs
<1>2. ASSUME NEW m \in meta
      PROVE  /\ m.key \in Keys /\ m.key \in Seq(NodeSet) /\ m.key # <<>>
             /\ m.machineOwner = OwnerOf(Last(m.key)[1]) /\ m.self = SelfOf(Last(m.key)[1])
             /\ m.callsitePc = Last(m.key)[2] /\ Last(m.key)[1] \in Anchors
  <2>1. m.key \in Keys
    BY ShownIs
  <2>2. m.key \in Seq(NodeSet) /\ m.key # <<>>
    BY <1>0, <2>1 DEF KeysOk
  <2>3. Last(m.key) \in NodeSet
    BY <2>2, BeginningsOfFront
  <2>4. Last(m.key)[1] \in Anchors
    BY <2>3 DEF NodeSet
  <2> QED BY <1>0, <2>1, <2>2, <2>4 DEF MetaOk
<1>3. ASSUME NEW m \in meta, NEW o \in meta, m.machineOwner # o.machineOwner
      PROVE  m.self \cap o.self = {}
  <2>1. Last(m.key)[1] # Last(o.key)[1]
    BY <1>2, <1>3
  <2> QED BY <1>0, <1>2, <2>1, OwnersAreApart
<1>4. ASSUME NEW p \in Sites PROVE Cardinality({m \in meta : m.callsitePc = p}) = 1
  <2>1. /\ p \in DirectlyReached /\ code[p].kind \in {"call", "tail"}
        /\ code[p].to \notin UNION {Extent(s) : s \in Holding(p)}
    BY DEF Sites
  <2>2. PICK s \in symbols : p \in Extent(s) /\ s.name \in reachable
    BY <2>1, ReachedAreOwned
  <2>3. p \in Addresses /\ s \in Holding(p) /\ p # 0
    BY <2>2, SymbolIs, FlameAssumption
  <2>4. code[p].to \in Follow(p) /\ code[p].to \notin Extent(s)
    BY <2>1, <2>3 DEF Follow
  <2>5. PICK t \in symbols : code[p].to = t.start
    BY <2>3, <2>4 DEF Finished, CallsOnly
  <2>6. s # t
    BY <2>4, <2>5, SymbolIs
  <2>7. PICK c \in call_rows : c.source = p /\ c.caller = s.name
    BY <2>1, <2>2, <2>5, <2>6, RowIs
  <2>8. p \in expanded_calls
    BY <2>2, <2>7, ReachedIsShown
  <2>9. PICK m \in meta : m.callsitePc = p
    BY <2>8, ShownIs
  <2>10. {o \in meta : o.callsitePc = p} = {m}
    BY <1>0, <2>3, <2>9 DEF Once
  <2> QED BY <2>10, FS_Singleton
<1>5. ASSUME NEW m \in meta, m.callsitePc # 0
      PROVE  \E o \in meta : o.key = Front(m.key) /\ m.callsitePc \in o.self
  <2>1. /\ Front(m.key) \in Keys
        /\ \E c \in call_rows : c.source = m.callsitePc /\ Last(Front(m.key))[1] = CallAnchor(c)
    BY <1>0, <1>2, <1>5 DEF Placed
  <2>2. PICK o \in meta : o.key = Front(m.key)
    BY <2>1, ShownIs
  <2>3. PICK c \in call_rows : c.source = m.callsitePc /\ Last(o.key)[1] = CallAnchor(c)
    BY <2>1, <2>2
  <2>4. PICK s \in symbols : c.source \in Extent(s) /\ c.caller = s.name
    BY RowIs
  <2>5. /\ c.source \in DOMAIN symbol_at /\ symbol_at[c.source] = c.caller
        /\ c.source \in DOMAIN inline_at_pc
    BY <2>4, SymbolIs
  <2>6. c.source \in SelfOf(CallAnchor(c))
    <3>1. CASE inline_at_pc[c.source] = 0
      BY <2>5, <3>1 DEF CallAnchor, SelfOf
    <3>2. CASE inline_at_pc[c.source] # 0
      BY <2>5, <3>2 DEF CallAnchor, SelfOf
    <3> QED BY <3>1, <3>2
  <2> QED BY <1>2, <2>2, <2>3, <2>6
<1> QED BY <1>1, <1>3, <1>4, <1>5, NoneIsMissing

LEMMA FlameSuffices == ToolsInv /\ FlameInv => FlameIsComplete
<1> SUFFICES ASSUME ToolsInv, FlameInv, built \in {"done", "missing"}, CallsOnly, OneRootEach
             PROVE  /\ built = "done"
                    /\ DirectlyReached \subseteq UNION {m.self : m \in meta}
                    /\ \A m, o \in meta : m.machineOwner # o.machineOwner => m.self \cap o.self = {}
                    /\ \A p \in Sites : Cardinality({m \in meta : m.callsitePc = p}) = 1
                    /\ \A m \in meta : m.callsitePc # 0 =>
                         \E o \in meta : o.key = Front(m.key) /\ m.callsitePc \in o.self
  BY DEF FlameIsComplete
<1>1. PICK input \in FlameInputs : symbols = input.symbols
  BY DEF ToolsInv
<1>2. IsFiniteSet(symbols) /\ \A s \in symbols : s.start \in Nat /\ s.size \in Nat \ {0}
  BY <1>1, FlameAssumption
<1>3. Finished
  BY <1>2, ReadingsHold DEF Finished, ToolsInv, FlameInv
<1> QED BY <1>3, FinishedSuffices DEF FlameInv

\* For all code, symbols and entries of a program that leaves its functions only
\* by calls, returns, traps and registers: the tree shows every instruction that is reached, in one
\* owner, and every call that is reached once, below what the call is in; no
\* instance that is called from the root is missing.
THEOREM FlameTheorem == BinarySpec => []FlameIsComplete
BY ToolsInitially, ToolsKept, FlameInitially, FlameKept, FlameSuffices, PTL DEF BinarySpec
=============================================================================
