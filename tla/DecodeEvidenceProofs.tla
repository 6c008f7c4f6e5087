-------------------------- MODULE DecodeEvidenceProofs --------------------------
(***************************************************************************)
(* The occurrences that reduce_trace makes are the visits, with the writes *)
(* of their own instructions, and it refuses a trace exactly if a visit    *)
(* ends badly; the run of decodeInput that is reported is the one that     *)
(* happened: proofs for every manifest and traces of every length.         *)
(***************************************************************************)
EXTENDS DecodeEvidence, FiniteSetTheorems, SequenceLemmas

Row == [entry : Pcs, extent : SUBSET Pcs, exits : SUBSET Pcs]
Execution == [pc : Pcs, registers : {"none", "full", "part"}]

Pairs(i) == {<<occurrences[i][j].first, occurrences[i][j].last>> : j \in DOMAIN occurrences[i]}

InOrder(i) ==
  \A j \in 2 .. Len(occurrences[i]) : occurrences[i][j - 1].last < occurrences[i][j].first

VisitsBefore(i, k) == {p \in Numbers \X Numbers : Visit(Instances[i], p[1], p[2]) /\ p[2] < k}

\* e is an entry from which control has not left the extent before k.
Open(i, e, k) == EntryAt(Instances[i], e) /\ Within(Instances[i], e, k)

ReductionTypeOK ==
  /\ executions \in Seq(Execution)
  /\ verdict \in {"recording", "reducing", "reduced"} \cup (Refusals \ {"left"})
  /\ instance \in 1 .. Len(Instances) + 1
  /\ index \in 1 .. Len(executions) + 1
  /\ start \in 0 .. index - 1
  /\ DOMAIN occurrences = DOMAIN Instances
  /\ \A i \in DOMAIN Instances : \E S : occurrences[i] \in Seq(S)

\* A pass that has ended.
Finished(i) ==
  /\ Pairs(i) = VisitsBefore(i, Len(executions) + 1)
  /\ InOrder(i)
  /\ \A a, b \in Numbers :
       Visit(Instances[i], a, b) => Proper(Instances[i], b) /\ executions[a].registers = "full"

(* The pass that is under way: the visits that end before index are found, *)
(* and an occurrence is active exactly where a visit goes on.              *)
Partial(i) ==
  /\ Pairs(i) = VisitsBefore(i, index)
  /\ InOrder(i)
  /\ \A j \in DOMAIN occurrences[i] :
       /\ occurrences[i][j].last < (IF start = None THEN index ELSE start)
       /\ Proper(Instances[i], occurrences[i][j].last)
  /\ start = None /\ index <= Len(executions) => \A e \in 1 .. index - 1 : ~Open(i, e, index)
  /\ start # None =>
       /\ index <= Len(executions)
       /\ Open(i, start, index)
       /\ \A e \in 1 .. start - 1 : ~Open(i, e, start)

Begun ==
  verdict = "recording" =>
    /\ instance = 1 /\ index = 1 /\ start = None
    /\ \A i \in DOMAIN Instances : occurrences[i] = <<>>

Passes ==
  verdict = "reducing" =>
    /\ \A i \in 1 .. instance - 1 : Finished(i)
    /\ \A i \in instance + 1 .. Len(Instances) : occurrences[i] = <<>>
    /\ instance <= Len(Instances) => Partial(instance)

Ended ==
  /\ verdict = "reduced" => \A i \in DOMAIN Instances : Finished(i)
  /\ verdict \in Refusals =>
       \E i \in DOMAIN Instances :
         \/ \E a, b \in Numbers : Visit(Instances[i], a, b) /\ ~Proper(Instances[i], b)
         \/ \E a \in Numbers : executions[a].pc = Instances[i].entry
                                 /\ executions[a].registers = "part"

ReductionInv == ReductionTypeOK /\ Begun /\ Passes /\ Ended

-------------------------------------------------------------------------------
(* Visits.                                                                   *)

\* No two visits of an instance end at the same instruction.
LEMMA OneVisitEnds ==
  ASSUME NEW inst, NEW a \in Int, NEW b \in Int, NEW c \in Int,
         1 <= a, 1 <= c, Visit(inst, a, b), Visit(inst, c, b)
  PROVE  a = c
<1>1. ASSUME NEW d \in Int, NEW e \in Int, 1 <= d, d < e, Visit(inst, d, b), Visit(inst, e, b)
      PROVE  FALSE
  <2>1. EntryAt(inst, d) /\ Within(inst, d, e)
    BY <1>1 DEF Visit, Within
  <2> QED
    BY <1>1, <2>1 DEF Visit
<1> QED
  BY <1>1

\* Nothing that has been recorded so far depends on more than the trace.
LEMMA SameTrace ==
  ASSUME executions' = executions
  PROVE  /\ Numbers' = Numbers
         /\ \A i, a, b : Visit(Instances[i], a, b)' <=> Visit(Instances[i], a, b)
         /\ \A i, b : Proper(Instances[i], b)' <=> Proper(Instances[i], b)
         /\ \A i, k : VisitsBefore(i, k)' = VisitsBefore(i, k)
         /\ \A i, e, k : Open(i, e, k)' <=> Open(i, e, k)
BY DEF Visit, Proper, EntryAt, Within, Numbers, VisitsBefore, Open

-------------------------------------------------------------------------------
(* What the instruction at index does to the visits of an instance.          *)

\* No occurrence is active and none begins here: no visit is open.
LEMMA SkipFact ==
  ASSUME ReductionTypeOK, instance \in DOMAIN Instances, Partial(instance),
         index <= Len(executions), start = None, ~Activates
  PROVE  /\ \A a \in Numbers : ~Visit(This, a, index)
         /\ \A e \in 1 .. index : ~Open(instance, e, index + 1)
<1>1. \A e \in 1 .. index - 1 : ~Open(instance, e, index)
  BY DEF Partial
<1>2. ~EntryAt(This, index)
  BY DEF Activates, EntryAt, Current
<1>3. index \in Nat /\ Numbers = 1 .. Len(executions) /\ Len(executions) \in Nat
  BY DEF ReductionTypeOK, Numbers
<1>4. ASSUME NEW a \in Numbers, Visit(This, a, index) PROVE FALSE
  <2>1. a \in Nat /\ 1 <= a /\ a <= index /\ EntryAt(This, a) /\ Within(This, a, index)
    BY <1>3, <1>4 DEF Visit
  <2>2. a # index
    BY <1>2, <2>1
  <2> QED
    BY <1>1, <1>3, <2>1, <2>2 DEF Open, This
<1>5. ASSUME NEW e \in 1 .. index, Open(instance, e, index + 1) PROVE FALSE
  <2>1. e # index
    BY <1>2, <1>5 DEF Open, This
  <2>2. Within(Instances[instance], e, index)
    BY <1>3, <1>5 DEF Open, Within
  <2> QED
    BY <1>1, <1>3, <1>5, <2>1, <2>2 DEF Open
<1> QED
  BY <1>4, <1>5

\* An occurrence is active or begins here: a visit is open, since FirstOf.
LEMMA FirstFact ==
  ASSUME ReductionTypeOK, instance \in DOMAIN Instances, Partial(instance),
         index <= Len(executions), FirstOf # None
  PROVE  /\ FirstOf \in 1 .. index
         /\ Open(instance, FirstOf, index)
         /\ \A e \in 1 .. FirstOf - 1 : ~Open(instance, e, FirstOf)
         /\ \A j \in DOMAIN occurrences[instance] : occurrences[instance][j].last < FirstOf
         /\ Current.pc \in This.extent
<1>3. index \in Nat /\ 1 <= index /\ start \in Nat /\ start < index
  BY DEF ReductionTypeOK
<1>1. CASE Activates
  <2>1. FirstOf = index /\ start = None
    BY <1>1 DEF FirstOf, Activates
  <2>2. Current.pc \in This.extent
    BY <1>1, InstancesAssumption DEF Activates, This
  <2>3. Open(instance, index, index)
    BY <1>1, <1>3, <2>2 DEF Open, EntryAt, Within, Activates, Current, This
  <2> QED
    BY <1>3, <2>1, <2>2, <2>3 DEF Partial
<1>2. CASE ~Activates
  <2>1. FirstOf = start /\ start # None
    BY <1>2 DEF FirstOf
  <2>2. Open(instance, start, index)
    BY <2>1 DEF Partial
  <2>3. Current.pc \in This.extent
    BY <1>3, <2>2 DEF Open, Within, Current, This
  <2> QED
    BY <1>3, <2>1, <2>2, <2>3 DEF Partial, None
<1> QED
  BY <1>1, <1>2

\* Control stays inside: the visit goes on.
LEMMA ContinueFact ==
  ASSUME ReductionTypeOK, instance \in DOMAIN Instances, Partial(instance),
         index < Len(executions), FirstOf # None, ~Leaves
  PROVE  /\ \A a \in Numbers : ~Visit(This, a, index)
         /\ Open(instance, FirstOf, index + 1)
<1>1. index \in Nat /\ executions[index + 1].pc \in This.extent
  BY DEF Leaves, Next1, ReductionTypeOK
<1>2. index # Len(executions)
  BY <1>1
<1>3. \A a \in Numbers : ~Visit(This, a, index)
  BY <1>1, <1>2 DEF Visit
<1>7. index <= Len(executions)
  BY <1>1 DEF ReductionTypeOK
<1>4. Open(instance, FirstOf, index)
  BY <1>7, FirstFact
<1>5. FirstOf \in Nat
  BY <1>1, <1>7, FirstFact
<1>6. Open(instance, FirstOf, index + 1)
  BY <1>1, <1>4, <1>5 DEF Open, Within, This
<1> QED
  BY <1>3, <1>6

\* Control leaves, or the trace ends: this is the end of the one visit.
LEMMA CloseFact ==
  ASSUME ReductionTypeOK, instance \in DOMAIN Instances, Partial(instance),
         index <= Len(executions), FirstOf # None, index = Len(executions) \/ Leaves
  PROVE  /\ Visit(This, FirstOf, index)
         /\ \A a \in Numbers : Visit(This, a, index) => a = FirstOf
         /\ index + 1 <= Len(executions) => \A e \in 1 .. index : ~Open(instance, e, index + 1)
<1>1. index \in Nat /\ Numbers = 1 .. Len(executions) /\ Len(executions) \in Nat
  BY DEF ReductionTypeOK, Numbers
<1>2. /\ FirstOf \in 1 .. index
      /\ Open(instance, FirstOf, index)
      /\ \A e \in 1 .. FirstOf - 1 : ~Open(instance, e, FirstOf)
  BY FirstFact
<1>3. index = Len(executions) \/ executions[index + 1].pc \notin This.extent
  BY DEF Leaves, Next1
<1>4. Visit(This, FirstOf, index)
  BY <1>1, <1>2, <1>3 DEF Visit, Open, This
<1>5. \A a \in Numbers : Visit(This, a, index) => a = FirstOf
  BY <1>1, <1>2, <1>4, OneVisitEnds
<1>6. ASSUME index + 1 <= Len(executions), NEW e \in 1 .. index PROVE ~Open(instance, e, index + 1)
  BY <1>1, <1>3, <1>6 DEF Open, Within, This
<1> QED
  BY <1>4, <1>5, <1>6

LEMMA OccurrencesInTrace ==
  ASSUME ReductionTypeOK, NEW i, NEW k, Pairs(i) = VisitsBefore(i, k), NEW j \in DOMAIN occurrences[i]
  PROVE  occurrences[i][j].first \in Nat /\ occurrences[i][j].last \in Nat
<1>1. <<occurrences[i][j].first, occurrences[i][j].last>> \in Pairs(i)
  BY DEF Pairs
<1>2. Numbers = 1 .. Len(executions) /\ Len(executions) \in Nat
  BY DEF ReductionTypeOK, Numbers
<1>3. occurrences[i][j].first \in Numbers /\ occurrences[i][j].last \in Numbers
  BY <1>1 DEF VisitsBefore
<1> QED
  BY <1>2, <1>3

\* An instruction at which no visit ends adds none to those that have ended.
LEMMA NoneMore ==
  ASSUME ReductionTypeOK, instance \in DOMAIN Instances, index <= Len(executions),
         \A a \in Numbers : ~Visit(This, a, index)
  PROVE  VisitsBefore(instance, index + 1) = VisitsBefore(instance, index)
<1>1. index \in Nat /\ Numbers = 1 .. Len(executions) /\ Len(executions) \in Nat
  BY DEF ReductionTypeOK, Numbers
<1>2. ASSUME NEW p \in Numbers \X Numbers, Visit(Instances[instance], p[1], p[2])
      PROVE  p[2] < index + 1 <=> p[2] < index
  <2>1. p[2] # index
    BY <1>2 DEF This
  <2> QED
    BY <1>1, <2>1
<1> QED
  BY <1>2 DEF VisitsBefore

\* One that ends a visit adds this one.
LEMMA OneMore ==
  ASSUME ReductionTypeOK, instance \in DOMAIN Instances, index <= Len(executions),
         NEW first \in 1 .. index, Visit(This, first, index),
         \A a \in Numbers : Visit(This, a, index) => a = first
  PROVE  VisitsBefore(instance, index + 1) = VisitsBefore(instance, index) \cup {<<first, index>>}
<1>1. index \in Nat /\ 1 <= index /\ Numbers = 1 .. Len(executions) /\ Len(executions) \in Nat
  BY DEF ReductionTypeOK, Numbers
<1>2. ASSUME NEW p \in Numbers \X Numbers, Visit(Instances[instance], p[1], p[2])
      PROVE  p[2] < index + 1 <=> p[2] < index \/ p = <<first, index>>
  <2>1. p = <<p[1], p[2]>>
    OBVIOUS
  <2>2. p[2] = index => p[1] = first
    BY <1>2 DEF This
  <2>3. p[2] \in Int
    BY <1>1
  <2> QED
    BY <1>1, <2>1, <2>2, <2>3
<1>3. <<first, index>> \in Numbers \X Numbers
  BY <1>1
<1>4. <<first, index>> \in VisitsBefore(instance, index + 1)
  BY <1>1, <1>3 DEF VisitsBefore, This
<1> QED
  BY <1>2, <1>4 DEF VisitsBefore

-------------------------------------------------------------------------------
(* The actions keep the invariant.                                           *)

LEMMA KeptByRecording ==
  ASSUME ReductionInv, NEW pc \in Pcs, NEW registers \in {"none", "full", "part"},
         Record(pc, registers)
  PROVE  ReductionInv'
<1>1. verdict = "recording" /\ verdict' = "recording"
  BY DEF Record
<1>2. executions' \in Seq(Execution) /\ Len(executions') = Len(executions) + 1
      /\ Len(executions) \in Nat
  BY DEF Record, Execution, ReductionInv, ReductionTypeOK
<1>3. /\ instance' = instance /\ index' = index /\ start' = start
      /\ occurrences' = occurrences
  BY DEF Record
<1>4. ReductionTypeOK'
  BY <1>1, <1>2, <1>3 DEF ReductionInv, ReductionTypeOK
<1>5. Begun'
  BY <1>1, <1>3 DEF ReductionInv, Begun
<1> QED
  BY <1>1, <1>4, <1>5 DEF ReductionInv, Passes, Ended, Refusals

\* A pass that begins.
LEMMA NewPass ==
  ASSUME ReductionTypeOK', NEW i \in DOMAIN Instances, index' = 1, start' = None,
         occurrences'[i] = <<>>
  PROVE  Partial(i)'
<1>1. DOMAIN occurrences'[i] = {} /\ Len(occurrences'[i]) = 0
  OBVIOUS
<1>2. VisitsBefore(i, 1)' = {}
  <2>1. Numbers' = 1 .. Len(executions') /\ Len(executions') \in Nat
    BY DEF ReductionTypeOK, Numbers
  <2>2. \A p \in Numbers' \X Numbers' : ~(p[2] < 1)
    BY <2>1
  <2> QED
    BY <2>2 DEF VisitsBefore
<1>3. VisitsBefore(i, index)' = {}
  BY <1>2 DEF VisitsBefore
<1>4. Pairs(i)' = {} /\ InOrder(i)'
  BY <1>1 DEF Pairs, InOrder
<1> QED
  BY <1>1, <1>3, <1>4 DEF Partial, None

LEMMA KeptByEndRecord == ReductionInv /\ EndRecord => ReductionInv'
<1> SUFFICES ASSUME ReductionInv, EndRecord PROVE ReductionInv'
  OBVIOUS
<1>1. /\ verdict = "recording" /\ verdict' = "reducing"
      /\ executions' = executions /\ instance' = instance /\ index' = index
      /\ start' = start /\ occurrences' = occurrences
  BY DEF EndRecord, inputVars
<1>2. ReductionTypeOK'
  BY <1>1 DEF ReductionInv, ReductionTypeOK
<1>3. /\ instance' = 1 /\ index' = 1 /\ start' = None
      /\ \A i \in DOMAIN Instances : occurrences'[i] = <<>>
  BY <1>1 DEF ReductionInv, Begun
<1>4. DOMAIN Instances = 1 .. Len(Instances) /\ Len(Instances) \in Nat
  BY InstancesAssumption
<1>5. 1 \in DOMAIN Instances => Partial(1)'
  BY <1>2, <1>3, NewPass
<1>6. Passes'
  BY <1>3, <1>4, <1>5 DEF Passes
<1> QED
  BY <1>1, <1>2, <1>6 DEF ReductionInv, Begun, Ended, Refusals

\* A refusal that names a visit with a bad end, or an entry without registers.
LEMMA KeptByRefusal ==
  ASSUME ReductionInv, instance \in DOMAIN Instances,
         NEW reason \in Refusals \ {"left"}, Refuse(reason),
         \/ \E a, b \in Numbers : Visit(This, a, b) /\ ~Proper(This, b)
         \/ \E a \in Numbers : executions[a].pc = This.entry
                                 /\ executions[a].registers = "part"
  PROVE  ReductionInv'
<1>1. /\ verdict' = reason
      /\ executions' = executions /\ instance' = instance /\ index' = index
      /\ start' = start /\ occurrences' = occurrences
  BY DEF Refuse, inputVars
<1>2. ReductionTypeOK'
  BY <1>1 DEF ReductionInv, ReductionTypeOK
<1>3. \E i \in DOMAIN Instances :
        \/ \E a, b \in Numbers : Visit(Instances[i], a, b) /\ ~Proper(Instances[i], b)
        \/ \E a \in Numbers : executions[a].pc = Instances[i].entry
                                /\ executions[a].registers = "part"
  BY DEF This
<1>4. Ended'
  <2>1. reason # "reduced"
    BY DEF Refusals
  <2> QED
    BY <1>1, <1>3, <2>1, SameTrace DEF Ended
<1> QED
  BY <1>1, <1>2, <1>4 DEF ReductionInv, Begun, Passes, Refusals

LEMMA KeptByRefuseUnavailable == ReductionInv /\ RefuseUnavailable => ReductionInv'
<1> SUFFICES ASSUME ReductionInv, RefuseUnavailable PROVE ReductionInv'
  OBVIOUS
<1>1. instance \in DOMAIN Instances
  BY InstancesAssumption DEF RefuseUnavailable, ReductionInv, ReductionTypeOK
<1>2. \E a \in Numbers : executions[a].pc = This.entry /\ executions[a].registers = "part"
  BY DEF RefuseUnavailable, EntryUnavailable, Numbers
<1>3. Refuse("unavailable") /\ "unavailable" \in Refusals \ {"left"}
  BY DEF RefuseUnavailable, Refusals
<1> QED
  BY <1>1, <1>2, <1>3, KeptByRefusal

LEMMA KeptByRefuseOccurrence == ReductionInv /\ RefuseOccurrence => ReductionInv'
<1> SUFFICES ASSUME ReductionInv, RefuseOccurrence PROVE ReductionInv'
  OBVIOUS
<1>1. /\ instance \in DOMAIN Instances /\ index <= Len(executions) /\ FirstOf # None
      /\ ReductionTypeOK /\ Partial(instance)
  BY InstancesAssumption
     DEF RefuseOccurrence, Passing, ReductionInv, ReductionTypeOK, Passes
<1>2. Current.pc \in This.extent /\ FirstOf \in 1 .. index
  BY <1>1, FirstFact
<1>3. index \in Numbers /\ FirstOf \in Numbers
  BY <1>1, <1>2 DEF ReductionTypeOK, Numbers
<1>4. ASSUME index = Len(executions) \/ Leaves, ~Proper(This, index),
             NEW reason \in Refusals \ {"left"}, Refuse(reason)
      PROVE  ReductionInv'
  <2>1. Visit(This, FirstOf, index)
    BY <1>1, <1>4, CloseFact
  <2> QED
    BY <1>1, <1>3, <1>4, <2>1, KeptByRefusal
<1>5. CASE Current.pc \in This.extent \ This.exits /\ IsLast /\ Refuse("unterminated")
  <2>1. index = Len(executions) /\ ~Proper(This, index)
    BY <1>5 DEF IsLast, Proper, Current
  <2>2. "unterminated" \in Refusals \ {"left"}
    BY DEF Refusals
  <2> QED
    BY <1>4, <1>5, <2>1, <2>2
<1>6. ASSUME ~IsLast, Leaves, Next1.pc \notin This.exits \/ Next1.registers # "full",
             NEW reason \in {"unexpected", "missing"}, Refuse(reason)
      PROVE  ReductionInv'
  <2>1. ~Proper(This, index)
    BY <1>6 DEF IsLast, Proper, Next1
  <2>2. reason \in Refusals \ {"left"}
    BY DEF Refusals
  <2> QED
    BY <1>4, <1>6, <2>1, <2>2
<1> QED
  BY <1>2, <1>5, <1>6 DEF RefuseOccurrence

\* A pass that has ended stays as it is.
LEMMA StaysFinished ==
  ASSUME executions' = executions, NEW i, occurrences'[i] = occurrences[i], Finished(i)
  PROVE  Finished(i)'
<1>1. Pairs(i)' = Pairs(i) /\ (InOrder(i)' <=> InOrder(i))
  BY DEF Pairs, InOrder
<1> QED
  BY <1>1, SameTrace DEF Finished

\* A step inside a pass only has to keep what Partial says of its instance.
LEMMA KeptInPass ==
  ASSUME ReductionInv, verdict = "reducing", instance \in DOMAIN Instances,
         UNCHANGED <<inputVars, verdict, instance>>, ReductionTypeOK',
         \A i \in DOMAIN Instances \ {instance} : occurrences'[i] = occurrences[i],
         Partial(instance)'
  PROVE  ReductionInv'
<1>1. executions' = executions /\ verdict' = verdict /\ instance' = instance
  BY DEF inputVars
<1>2. DOMAIN Instances = 1 .. Len(Instances) /\ Len(Instances) \in Nat /\ instance \in Nat
  BY InstancesAssumption DEF ReductionInv, ReductionTypeOK
<1>3. ASSUME NEW i \in 1 .. instance - 1 PROVE Finished(i)'
  <2>1. Finished(i) /\ occurrences'[i] = occurrences[i]
    BY <1>2 DEF ReductionInv, Passes
  <2> QED
    BY <1>1, <2>1, StaysFinished
<1>4. \A i \in instance + 1 .. Len(Instances) : occurrences'[i] = <<>>
  BY <1>2 DEF ReductionInv, Passes
<1>5. Passes'
  BY <1>1, <1>3, <1>4 DEF Passes
<1> QED
  BY <1>1, <1>5 DEF ReductionInv, Begun, Ended, Refusals

LEMMA KeptBySkip == ReductionInv /\ Skip => ReductionInv'
<1> SUFFICES ASSUME ReductionInv, Skip PROVE ReductionInv'
  OBVIOUS
<1>1. /\ instance \in DOMAIN Instances /\ index <= Len(executions) /\ verdict = "reducing"
      /\ start = None /\ ~Activates /\ ReductionTypeOK /\ Partial(instance)
  BY InstancesAssumption DEF Skip, Passing, ReductionInv, ReductionTypeOK, Passes
<1>2. /\ executions' = executions /\ verdict' = verdict /\ instance' = instance
      /\ index' = index + 1 /\ start' = start /\ occurrences' = occurrences
  BY DEF Skip, inputVars
<1>3. index \in Nat /\ 1 <= index /\ Len(executions) \in Nat
  BY <1>1 DEF ReductionTypeOK
<1>4. ReductionTypeOK'
  BY <1>1, <1>2, <1>3 DEF ReductionTypeOK, None
<1>5. VisitsBefore(instance, index + 1) = VisitsBefore(instance, index)
  BY <1>1, SkipFact, NoneMore
<1>6. Partial(instance)'
  <2>1. Pairs(instance)' = VisitsBefore(instance, index)' /\ InOrder(instance)'
    BY <1>1, <1>2, <1>5, SameTrace DEF Partial, Pairs, InOrder
  <2>2. \A j \in DOMAIN occurrences[instance] :
          /\ occurrences[instance][j].last \in Nat /\ occurrences[instance][j].last < index
          /\ Proper(This, occurrences[instance][j].last)
    BY <1>1, OccurrencesInTrace DEF Partial, This
  <2>3. (\A j \in DOMAIN occurrences[instance] :
           occurrences[instance][j].last < index /\ Proper(This, occurrences[instance][j].last))'
    BY <1>2, <1>3, <2>2 DEF This, Proper
  <2>4. \A e \in 1 .. index : ~Open(instance, e, index + 1)
    BY <1>1, SkipFact
  <2>5. \A e \in 1 .. index' - 1 : ~Open(instance, e, index)'
    BY <1>2, <1>3, <2>4, SameTrace
  <2> QED
    BY <1>1, <1>2, <2>1, <2>3, <2>5 DEF Partial, This
<1> QED
  BY <1>1, <1>2, <1>4, <1>6, KeptInPass DEF Skip

LEMMA KeptByContinue == ReductionInv /\ Continue => ReductionInv'
<1> SUFFICES ASSUME ReductionInv, Continue PROVE ReductionInv'
  OBVIOUS
<1>1. /\ instance \in DOMAIN Instances /\ index < Len(executions) /\ verdict = "reducing"
      /\ FirstOf # None /\ ~Leaves /\ ReductionTypeOK /\ Partial(instance)
  BY InstancesAssumption DEF Continue, Passing, ReductionInv, ReductionTypeOK, Passes
<1>2. /\ executions' = executions /\ verdict' = verdict /\ instance' = instance
      /\ index' = index + 1 /\ start' = FirstOf /\ occurrences' = occurrences
  BY DEF Continue, inputVars
<1>3. index \in Nat /\ 1 <= index /\ Len(executions) \in Nat /\ index <= Len(executions)
  BY <1>1 DEF ReductionTypeOK
<1>4. /\ FirstOf \in 1 .. index
      /\ \A e \in 1 .. FirstOf - 1 : ~Open(instance, e, FirstOf)
      /\ \A j \in DOMAIN occurrences[instance] : occurrences[instance][j].last < FirstOf
  BY <1>1, <1>3, FirstFact
<1>5. ReductionTypeOK'
  BY <1>1, <1>2, <1>3, <1>4 DEF ReductionTypeOK
<1>6. /\ VisitsBefore(instance, index + 1) = VisitsBefore(instance, index)
      /\ Open(instance, FirstOf, index + 1)
  BY <1>1, <1>3, ContinueFact, NoneMore
<1>7. Partial(instance)'
  <2>1. Pairs(instance)' = VisitsBefore(instance, index)' /\ InOrder(instance)'
    BY <1>1, <1>2, <1>6, SameTrace DEF Partial, Pairs, InOrder
  <2>2. \A j \in DOMAIN occurrences[instance] : Proper(This, occurrences[instance][j].last)
    BY <1>1 DEF Partial, This
  <2>3. (\A j \in DOMAIN occurrences[instance] :
           occurrences[instance][j].last < start /\ Proper(This, occurrences[instance][j].last))'
    BY <1>2, <1>4, <2>2 DEF This, Proper
  <2>4. start' # None /\ index' <= Len(executions')
    BY <1>1, <1>2, <1>3
  <2>5. Open(instance, start, index)'
    BY <1>2, <1>6 DEF Open, Within, EntryAt
  <2>6. (\A e \in 1 .. start - 1 : ~Open(instance, e, start))'
    BY <1>2, <1>4 DEF Open, Within, EntryAt
  <2> QED
    BY <2>1, <2>3, <2>4, <2>5, <2>6 DEF Partial, This
<1> QED
  BY <1>1, <1>2, <1>5, <1>7, KeptInPass DEF Continue

-------------------------------------------------------------------------------
(* The end of an occurrence.                                                 *)

LEMMA AppendRecord ==
  ASSUME NEW S, NEW s \in Seq(S), NEW r
  PROVE  /\ Append(s, r) \in Seq(S \cup {r})
         /\ DOMAIN Append(s, r) = DOMAIN s \cup {Len(s) + 1}
         /\ \A j \in DOMAIN s : Append(s, r)[j] = s[j]
         /\ Append(s, r)[Len(s) + 1] = r
         /\ Len(s) \in Nat /\ DOMAIN s = 1 .. Len(s) /\ Len(Append(s, r)) = Len(s) + 1
<1>1. s \in Seq(S \cup {r}) /\ r \in S \cup {r}
  OBVIOUS
<1> QED
  BY <1>1, AppendProperties

LEMMA KeptByClose ==
  ASSUME ReductionInv, verdict = "reducing", instance \in DOMAIN Instances,
         index <= Len(executions), FirstOf # None, index = Len(executions) \/ Leaves,
         Proper(This, index), NEW after, Close(after)
  PROVE  ReductionInv'
<1>1. ReductionTypeOK /\ Partial(instance)
  BY InstancesAssumption DEF ReductionInv, ReductionTypeOK, Passes
<1>2. /\ executions' = executions /\ verdict' = verdict /\ instance' = instance
      /\ index' = index + 1 /\ start' = None
  BY DEF Close, inputVars
<1>3. index \in Nat /\ 1 <= index /\ Len(executions) \in Nat
  BY <1>1 DEF ReductionTypeOK
<1> DEFINE before == occurrences[instance]
           row == [first |-> FirstOf, last |-> index, after |-> after,
                   writes |-> PendingBefore \o ItsWrites, stores |-> StoresOf(FirstOf)]
           now == occurrences'[instance]
<1>4. now = Append(before, row) /\ row.first = FirstOf /\ row.last = index
      /\ DOMAIN occurrences' = DOMAIN Instances
      /\ \A i \in DOMAIN Instances \ {instance} : occurrences'[i] = occurrences[i]
  BY <1>1 DEF Close, ReductionTypeOK
<1>5. PICK S : before \in Seq(S)
  BY <1>1 DEF ReductionTypeOK
<1> HIDE DEF row
<1>6. /\ now \in Seq(S \cup {row})
      /\ DOMAIN now = DOMAIN before \cup {Len(before) + 1}
      /\ \A j \in DOMAIN before : now[j] = before[j]
      /\ now[Len(before) + 1] = row
      /\ Len(before) \in Nat /\ DOMAIN before = 1 .. Len(before) /\ Len(now) = Len(before) + 1
  BY <1>4, <1>5, AppendRecord
<1> HIDE DEF before, now
<1>7. /\ FirstOf \in 1 .. index
      /\ \A j \in DOMAIN before : before[j].last < FirstOf
  BY <1>1, FirstFact DEF before
<1>8. ReductionTypeOK'
  <2>1. \A i \in DOMAIN Instances : \E T : occurrences'[i] \in Seq(T)
    BY <1>1, <1>4, <1>6 DEF ReductionTypeOK, now
  <2> QED
    BY <1>1, <1>2, <1>3, <1>4, <2>1 DEF ReductionTypeOK, None
<1>9. VisitsBefore(instance, index + 1) = VisitsBefore(instance, index) \cup {<<FirstOf, index>>}
  BY <1>1, <1>7, CloseFact, OneMore
<1>10. Pairs(instance)' = VisitsBefore(instance, index)'
  <2>1. Pairs(instance) = {<<before[j].first, before[j].last>> : j \in DOMAIN before}
    BY DEF Pairs, before
  <2>2. Pairs(instance)' = {<<now[j].first, now[j].last>> : j \in DOMAIN now}
    BY <1>2 DEF Pairs, now
  <2>3. {<<now[j].first, now[j].last>> : j \in DOMAIN now}
          = {<<before[j].first, before[j].last>> : j \in DOMAIN before} \cup {<<FirstOf, index>>}
    BY <1>4, <1>6
  <2>4. VisitsBefore(instance, index)' = VisitsBefore(instance, index + 1)
    BY <1>2, SameTrace DEF VisitsBefore
  <2> QED
    BY <1>1, <1>9, <2>1, <2>2, <2>3, <2>4 DEF Partial
<1>11. InOrder(instance)'
  <2>1. \A j \in 2 .. Len(before) : before[j - 1].last < before[j].first
    BY <1>1 DEF Partial, InOrder, before
  <2>2. ASSUME NEW j \in 2 .. Len(now) PROVE now[j - 1].last < now[j].first
    <3>1. CASE j \in 2 .. Len(before)
      BY <1>6, <2>1, <3>1
    <3>2. CASE j = Len(before) + 1
      <4>1. j - 1 \in DOMAIN before /\ now[j] = row
        BY <1>6, <2>2, <3>2
      <4> QED
        BY <1>4, <1>6, <1>7, <4>1
    <3> QED
      BY <1>6, <2>2, <3>1, <3>2
  <2> QED
    BY <1>2, <2>2 DEF InOrder, now
<1>12. \A j \in DOMAIN now : now[j].last < index + 1 /\ Proper(This, now[j].last)
  <2>1. \A j \in DOMAIN before : before[j].last \in Nat /\ Proper(This, before[j].last)
    BY <1>1, OccurrencesInTrace DEF Partial, before, This
  <2>2. ASSUME NEW j \in DOMAIN before PROVE now[j].last < index + 1 /\ Proper(This, now[j].last)
    BY <1>3, <1>6, <1>7, <2>1
  <2>3. now[Len(before) + 1].last < index + 1 /\ Proper(This, now[Len(before) + 1].last)
    BY <1>3, <1>4, <1>6
  <2> QED
    BY <1>6, <2>2, <2>3
<1>13. Partial(instance)'
  <2>1. (\A j \in DOMAIN occurrences[instance] :
           occurrences[instance][j].last < index /\ Proper(This, occurrences[instance][j].last))'
    BY <1>2, <1>12 DEF This, Proper, now
  <2>2. index + 1 <= Len(executions) => \A e \in 1 .. index : ~Open(instance, e, index + 1)
    BY <1>1, CloseFact
  <2>4. index' <= Len(executions)' => (\A e \in 1 .. index - 1 : ~Open(instance, e, index))'
    <3>1. index' - 1 = index
      BY <1>2, <1>3
    <3> QED
      BY <1>2, <2>2, <3>1 DEF Open, Within, EntryAt
  <2> QED
    BY <1>2, <1>10, <1>11, <2>1, <2>4 DEF Partial, This
<1> QED
  BY <1>2, <1>4, <1>8, <1>13, KeptInPass DEF Close

LEMMA KeptByLeave == ReductionInv /\ Leave => ReductionInv'
<1> SUFFICES ASSUME ReductionInv, Leave PROVE ReductionInv'
  OBVIOUS
<1>1. instance \in DOMAIN Instances /\ index <= Len(executions) /\ verdict = "reducing"
  BY InstancesAssumption DEF Leave, Passing, ReductionInv, ReductionTypeOK
<1>2. Proper(This, index)
  <2>1. index # Len(executions)
    BY DEF Leave, ReductionInv, ReductionTypeOK
  <2> QED
    BY <2>1 DEF Leave, Proper, Next1
<1> QED
  BY <1>1, <1>2, KeptByClose DEF Leave

LEMMA KeptByEndInside == ReductionInv /\ EndInside => ReductionInv'
<1> SUFFICES ASSUME ReductionInv, EndInside PROVE ReductionInv'
  OBVIOUS
<1>1. instance \in DOMAIN Instances /\ index <= Len(executions) /\ verdict = "reducing"
  BY InstancesAssumption DEF EndInside, Passing, ReductionInv, ReductionTypeOK
<1>2. Proper(This, index)
  BY DEF EndInside, Proper, Current
<1> QED
  BY <1>1, <1>2, KeptByClose DEF EndInside

-------------------------------------------------------------------------------
(* The end of a pass, and of the reduction.                                  *)

\* At the end of a pass all visits are found, and all of them are good.
LEMMA PassIsFinished ==
  ASSUME ReductionTypeOK, instance \in DOMAIN Instances, Partial(instance),
         index = Len(executions) + 1, ~EntryUnavailable
  PROVE  Finished(instance)
<1>1. Pairs(instance) = VisitsBefore(instance, Len(executions) + 1) /\ InOrder(instance)
  BY DEF Partial
<1>2. ASSUME NEW a \in Numbers, NEW b \in Numbers, Visit(Instances[instance], a, b)
      PROVE  Proper(Instances[instance], b) /\ executions[a].registers = "full"
  <2>1. Numbers = 1 .. Len(executions) /\ Len(executions) \in Nat
    BY DEF ReductionTypeOK, Numbers
  <2>2. <<a, b>> \in VisitsBefore(instance, Len(executions) + 1)
    BY <1>2, <2>1 DEF VisitsBefore
  <2>3. PICK j \in DOMAIN occurrences[instance] : occurrences[instance][j].last = b
    BY <1>1, <2>2 DEF Pairs
  <2>4. Proper(Instances[instance], b)
    BY <2>3 DEF Partial
  <2>5. executions[a].pc = This.entry /\ executions[a].registers # "none"
    BY <1>2 DEF Visit, EntryAt, This
  <2>6. executions[a].registers # "part"
    BY <2>5 DEF EntryUnavailable, Numbers
  <2>7. executions[a] \in Execution
    BY <2>1 DEF ReductionTypeOK
  <2> QED
    BY <2>4, <2>5, <2>6, <2>7 DEF Execution
<1> QED
  BY <1>1, <1>2 DEF Finished

LEMMA KeptByEndPass == ReductionInv /\ EndPass => ReductionInv'
<1> SUFFICES ASSUME ReductionInv, EndPass PROVE ReductionInv'
  OBVIOUS
<1>1. /\ instance \in DOMAIN Instances /\ index = Len(executions) + 1 /\ verdict = "reducing"
      /\ ~EntryUnavailable /\ ReductionTypeOK /\ Partial(instance)
  BY InstancesAssumption DEF EndPass, Passing, ReductionInv, ReductionTypeOK, Passes
<1>2. /\ executions' = executions /\ verdict' = verdict /\ instance' = instance + 1
      /\ index' = 1 /\ start' = None /\ occurrences' = occurrences
  BY DEF EndPass, inputVars
<1>3. DOMAIN Instances = 1 .. Len(Instances) /\ Len(Instances) \in Nat /\ instance \in Nat
  BY <1>1, InstancesAssumption
<1>4. ReductionTypeOK'
  BY <1>1, <1>2, <1>3 DEF ReductionTypeOK, None
<1>5. \A i \in 1 .. instance - 1 : Finished(i)
  BY <1>1 DEF ReductionInv, Passes
<1>6. Finished(instance)
  BY <1>1, PassIsFinished
<1>7. \A i \in 1 .. instance : Finished(i)
  BY <1>3, <1>5, <1>6
<1>8. \A i \in 1 .. instance : Finished(i)'
  BY <1>2, <1>7, StaysFinished
<1>9. \A i \in instance + 1 .. Len(Instances) : occurrences'[i] = <<>>
  BY <1>1, <1>2 DEF ReductionInv, Passes
<1>10. ASSUME NEW i \in DOMAIN Instances, i = instance + 1 PROVE Partial(i)'
  BY <1>10, <1>2, <1>3, <1>4, <1>9, NewPass
<1>11. Passes'
  <2>1. instance' <= Len(Instances)' => Partial(instance)'
    BY <1>2, <1>3, <1>10
  <2>2. (\A i \in 1 .. instance - 1 : Finished(i))'
    BY <1>2, <1>3, <1>8
  <2>3. (\A i \in instance + 1 .. Len(Instances) : occurrences[i] = <<>>)'
    BY <1>2, <1>3, <1>9
  <2> QED
    BY <2>1, <2>2, <2>3 DEF Passes
<1> QED
  BY <1>1, <1>2, <1>4, <1>11 DEF ReductionInv, Begun, Ended, Refusals

LEMMA KeptByReduced == ReductionInv /\ Reduced => ReductionInv'
<1> SUFFICES ASSUME ReductionInv, Reduced PROVE ReductionInv'
  OBVIOUS
<1>1. /\ verdict = "reducing" /\ verdict' = "reduced" /\ instance = Len(Instances) + 1
      /\ executions' = executions /\ instance' = instance /\ index' = index
      /\ start' = start /\ occurrences' = occurrences
  BY DEF Reduced, inputVars
<1>2. ReductionTypeOK'
  BY <1>1 DEF ReductionInv, ReductionTypeOK
<1>3. DOMAIN Instances = 1 .. Len(Instances) /\ Len(Instances) \in Nat
  BY InstancesAssumption
<1>4. \A i \in DOMAIN Instances : Finished(i)
  BY <1>1, <1>3 DEF ReductionInv, Passes
<1>5. \A i \in DOMAIN Instances : Finished(i)'
  BY <1>1, <1>4, StaysFinished
<1> QED
  BY <1>1, <1>2, <1>5 DEF ReductionInv, Begun, Passes, Ended, Refusals

LEMMA KeptByStutter == ReductionInv /\ UNCHANGED reductionVars => ReductionInv'
<1> SUFFICES ASSUME ReductionInv, UNCHANGED reductionVars PROVE ReductionInv'
  OBVIOUS
<1>1. /\ executions' = executions /\ verdict' = verdict /\ instance' = instance
      /\ index' = index /\ start' = start /\ occurrences' = occurrences
  BY DEF reductionVars
<1>2. ReductionTypeOK' /\ Begun'
  BY <1>1 DEF ReductionInv, ReductionTypeOK, Begun
<1>3. \A i : Finished(i) => Finished(i)'
  BY <1>1, StaysFinished
<1>4. Partial(instance) => Partial(instance)'
  BY <1>1 DEF Partial, Pairs, InOrder, VisitsBefore, Open, Visit, Proper, EntryAt, Within, Numbers
<1>5. Passes'
  BY <1>1, <1>3, <1>4 DEF ReductionInv, Passes
<1>6. Ended'
  BY <1>1, <1>3, SameTrace DEF ReductionInv, Ended
<1> QED
  BY <1>2, <1>5, <1>6 DEF ReductionInv

-------------------------------------------------------------------------------
(* The theorems.                                                             *)

LEMMA ReductionInvInitially == ReductionInit => ReductionInv
<1> SUFFICES ASSUME ReductionInit PROVE ReductionInv
  OBVIOUS
<1>1. DOMAIN Instances = 1 .. Len(Instances) /\ Len(Instances) \in Nat
  BY InstancesAssumption
<1>2. executions = <<>> /\ verdict = "recording" /\ instance = 1 /\ index = 1 /\ start = None
      /\ occurrences = [i \in DOMAIN Instances |-> <<>>]
  BY DEF ReductionInit
<1>3. \A i \in DOMAIN Instances : occurrences[i] \in Seq({})
  BY <1>2
<1>4. ReductionTypeOK
  BY <1>1, <1>2, <1>3 DEF ReductionTypeOK, None
<1> QED
  BY <1>2, <1>4 DEF ReductionInv, Begun, Passes, Ended, Refusals

LEMMA ReductionInvKept == ReductionInv /\ [ReductionNext]_reductionVars => ReductionInv'
BY KeptByRecording, KeptByEndRecord, KeptByRefuseUnavailable, KeptBySkip, KeptByContinue,
   KeptByLeave, KeptByEndInside, KeptByRefuseOccurrence, KeptByEndPass, KeptByReduced,
   KeptByStutter
   DEF ReductionNext

LEMMA ReductionInvSuffices == ReductionInv => VisitsAreRight
<1> SUFFICES ASSUME ReductionInv PROVE VisitsAreRight
  OBVIOUS
<1>1. Numbers = 1 .. Len(executions) /\ Len(executions) \in Nat
  BY DEF ReductionInv, ReductionTypeOK, Numbers
<1>2. ASSUME NEW i
      PROVE  VisitsBefore(i, Len(executions) + 1)
               = {p \in Numbers \X Numbers : Visit(Instances[i], p[1], p[2])}
  <2>1. \A p \in Numbers \X Numbers : p[2] < Len(executions) + 1
    BY <1>1
  <2> QED
    BY <2>1 DEF VisitsBefore
<1>3. OccurrencesAreVisits
  BY <1>2 DEF ReductionInv, Ended, Finished, Pairs, InOrder, OccurrencesAreVisits
<1>4. VerdictIsRight
  BY DEF ReductionInv, ReductionTypeOK, Ended, Finished, VerdictIsRight, Refusals
<1> QED
  BY <1>3, <1>4 DEF VisitsAreRight

\* The occurrences of an accepted trace are the visits of its instances, all of
\* which end properly; a refused trace has a visit that does not, or an entry
\* without registers.  For every manifest and traces of every length.
THEOREM VisitsTheorem == ReductionSpec => []VisitsAreRight
<1>1. ReductionSpec => []ReductionInv
  BY ReductionInvInitially, ReductionInvKept, PTL DEF ReductionSpec
<1> QED
  BY <1>1, ReductionInvSuffices, PTL

-------------------------------------------------------------------------------
(* Writes and stores.                                                        *)

LEMMA AppendIs ==
  ASSUME NEW S, NEW s \in Seq(S), NEW e \in S
  PROVE  Append(s, e) = [j \in 1 .. Len(s) + 1 |-> IF j = Len(s) + 1 THEN e ELSE s[j]]
<1> DEFINE n == Len(s)
           G == [j \in 1 .. n + 1 |-> IF j = n + 1 THEN e ELSE s[j]]
<1>1. n \in Nat /\ \A j \in 1 .. n : s[j] \in S
  BY ElementOfSeq
<1>2. G \in Seq(S) /\ Len(G) = n + 1
  <2> HIDE DEF n
  <2>1. \A j \in 1 .. n + 1 : j # n + 1 => j \in 1 .. n
    BY <1>1
  <2>2. n + 1 \in Nat
    BY <1>1
  <2> QED
    BY <1>1, <2>1, <2>2
<1>3. Append(s, e) \in Seq(S) /\ Len(Append(s, e)) = n + 1
  BY AppendProperties
<1>4. ASSUME NEW j \in 1 .. n + 1 PROVE Append(s, e)[j] = G[j]
  <2>1. CASE j = n + 1
    BY <2>1, AppendProperties
  <2>2. CASE j # n + 1
    <3>1. j \in 1 .. n
      BY <1>1, <2>2
    <3> QED
      BY <2>2, <3>1, AppendProperties
  <2> QED
    BY <2>1, <2>2
<1> HIDE DEF G
<1>5. Append(s, e) = G
  BY <1>2, <1>3, <1>4, SeqEqual
<1> QED
  BY <1>5 DEF G

\* What the instruction k writes.
WrittenAt(k) == IF executions[k].pc \in Writers THEN <<k>> ELSE <<>>

\* What the instructions from a to b write, one after the other.
Parts(a, b) == [j \in 1 .. b - a + 1 |-> WrittenAt(a + j - 1)]
WrittenBetween(a, b) == FlattenSeq(Parts(a, b))

WritesOfAll(rows) == FlattenSeq([j \in DOMAIN rows |-> rows[j].writes])

(* During a pass, what has been written is what belongs to the occurrences *)
(* that are closed and to the one that is active.                          *)
WritesTypeOK ==
  /\ DOMAIN host_writes = DOMAIN Instances
  /\ pending_writes \in Seq(Nat)

RowsKept ==
  \A i \in DOMAIN Instances : \A j \in DOMAIN occurrences[i] :
    LET o == occurrences[i][j] IN
    /\ o.first \in Nat /\ o.last \in Nat /\ o.first <= o.last
    /\ o.writes = WrittenBetween(o.first, o.last)
    /\ o.stores = o.writes

WritesInv ==
  /\ WritesTypeOK
  /\ verdict = "recording" => \A i \in DOMAIN Instances : host_writes[i] = <<>>
  /\ RowsKept
  /\ \A i \in DOMAIN Instances :
       host_writes[i] = WritesOfAll(occurrences[i])
                          \o (IF i = instance /\ start # None THEN pending_writes ELSE <<>>)
  /\ start # None => pending_writes = WrittenBetween(start, index - 1)
  /\ verdict = "reduced" => instance = Len(Instances) + 1

LEMMA NothingBetween == ASSUME NEW a \in Int PROVE WrittenBetween(a, a - 1) = <<>>
<1>1. Parts(a, a - 1) = <<>>
  <2>1. 1 .. (a - 1) - a + 1 = {}
    OBVIOUS
  <2> QED
    BY <2>1 DEF Parts
<1> QED
  BY <1>1, FlattenEmpty DEF WrittenBetween

LEMMA OneMoreBetween ==
  ASSUME NEW a \in Nat, NEW b \in Nat, a <= b + 1
  PROVE  /\ WrittenBetween(a, b) \in Seq(Nat)
         /\ WrittenBetween(a, b + 1) = WrittenBetween(a, b) \o WrittenAt(b + 1)
<1>1. \A k \in Nat : WrittenAt(k) \in Seq(Nat)
  BY DEF WrittenAt
<1>2. Parts(a, b) \in Seq(Seq(Nat))
  <2>1. \A j \in 1 .. b - a + 1 : a + j - 1 \in Nat
    OBVIOUS
  <2>2. b - a + 1 \in Nat
    OBVIOUS
  <2> QED
    BY <1>1, <2>1, <2>2 DEF Parts
<1>3. Parts(a, b + 1) = Append(Parts(a, b), WrittenAt(b + 1))
  <2> DEFINE n == b - a + 1
             W == [j \in 1 .. n + 1 |-> WrittenAt(a + j - 1)]
  <2>1. n \in Nat /\ (b + 1) - a + 1 = n + 1 /\ a + (n + 1) - 1 = b + 1
    OBVIOUS
  <2>2. Parts(a, b) = [j \in 1 .. n |-> W[j]] /\ W[n + 1] = WrittenAt(b + 1)
    <3>1. \A j \in 1 .. n : j \in 1 .. n + 1
      BY <2>1
    <3>2. n + 1 \in 1 .. n + 1
      BY <2>1
    <3> QED
      BY <2>1, <3>1, <3>2, Zenon DEF Parts
  <2>3. Parts(a, b + 1) = W
    BY <2>1 DEF Parts
  <2>4. W = Append([j \in 1 .. n |-> W[j]], W[n + 1])
    <3>1. DOMAIN W = 1 .. n + 1 /\ W = [j \in 1 .. n + 1 |-> W[j]]
      OBVIOUS
    <3> HIDE DEF W, n
    <3> QED
      BY <2>1, <3>1
  <2> HIDE DEF W, n
  <2> QED
    BY <2>2, <2>3, <2>4
<1>4. WrittenAt(b + 1) \in Seq(Nat)
  BY <1>1
<1>5. /\ FlattenSeq(Parts(a, b)) \in Seq(Nat)
      /\ FlattenSeq(Append(Parts(a, b), WrittenAt(b + 1))) = FlattenSeq(Parts(a, b)) \o WrittenAt(b + 1)
  BY <1>2, <1>4, FlattenAppend, Zenon
<1> QED
  BY <1>3, <1>5, Zenon DEF WrittenBetween

LEMMA StoresAreBetween == ASSUME NEW a PROVE StoresOf(a) = WrittenBetween(a, index)
BY DEF StoresOf, WrittenBetween, Parts, WrittenAt

LEMMA RangeBetween ==
  ASSUME NEW a \in Nat, NEW b \in Nat
  PROVE  Range(WrittenBetween(a, b)) = {k \in a .. b : executions[k].pc \in Writers}
<1>1. Parts(a, b) \in Seq(Seq(Nat)) /\ DOMAIN Parts(a, b) = 1 .. b - a + 1
  <2>1. \A j \in 1 .. b - a + 1 : a + j - 1 \in Nat /\ WrittenAt(a + j - 1) \in Seq(Nat)
    BY DEF WrittenAt
  <2>2. CASE b - a + 1 \in Nat
    <3> DEFINE n == b - a + 1
    <3>1. n \in Nat /\ Parts(a, b) = [j \in 1 .. n |-> WrittenAt(a + j - 1)]
      BY <2>2 DEF Parts
    <3>2. \A j \in 1 .. n : WrittenAt(a + j - 1) \in Seq(Nat)
      BY <2>1
    <3> HIDE DEF n
    <3>3. Parts(a, b) \in Seq(Seq(Nat)) /\ DOMAIN Parts(a, b) = 1 .. n
      BY <3>1, <3>2
    <3> QED
      BY <3>3 DEF n
  <2>3. CASE b - a + 1 \notin Nat
    <3>1. 1 .. b - a + 1 = {}
      BY <2>3
    <3>2. Parts(a, b) = <<>>
      BY <3>1 DEF Parts
    <3> QED
      BY <3>1, <3>2
  <2> QED
    BY <2>2, <2>3
<1>2. Range(WrittenBetween(a, b)) = UNION {Range(Parts(a, b)[j]) : j \in 1 .. b - a + 1}
  BY <1>1, FlattenRange DEF WrittenBetween
<1>3. \A j \in 1 .. b - a + 1 :
        Range(Parts(a, b)[j]) = IF executions[a + j - 1].pc \in Writers THEN {a + j - 1} ELSE {}
  BY DEF Parts, WrittenAt, Range
<1>4. \A k \in a .. b : k - a + 1 \in 1 .. b - a + 1 /\ a + (k - a + 1) - 1 = k
  OBVIOUS
<1>5. \A j \in 1 .. b - a + 1 : a + j - 1 \in a .. b
  OBVIOUS
<1> DEFINE R(j) == IF executions[a + j - 1].pc \in Writers THEN {a + j - 1} ELSE {}
<1>6. (UNION {Range(Parts(a, b)[j]) : j \in 1 .. b - a + 1}) = UNION {R(j) : j \in 1 .. b - a + 1}
  BY <1>3, Zenon
<1>7. (UNION {R(j) : j \in 1 .. b - a + 1}) = {k \in a .. b : executions[k].pc \in Writers}
  <2>1. ASSUME NEW k \in a .. b, executions[k].pc \in Writers
        PROVE  \E j \in 1 .. b - a + 1 : k \in R(j)
    <3>1. k \in R(k - a + 1) /\ k - a + 1 \in 1 .. b - a + 1
      BY <1>4, <2>1
    <3> HIDE DEF R
    <3> QED
      BY <3>1
  <2>2. ASSUME NEW j \in 1 .. b - a + 1, NEW k \in R(j)
        PROVE  k \in a .. b /\ executions[k].pc \in Writers
    BY <1>5
  <2> HIDE DEF R
  <2> QED
    BY <2>1, <2>2
<1> HIDE DEF R
<1> QED
  BY <1>2, <1>6, <1>7

LEMMA SameWritten ==
  ASSUME executions' = executions
  PROVE  \A a, b : WrittenBetween(a, b)' = WrittenBetween(a, b)
BY DEF WrittenBetween, Parts, WrittenAt

\* The writes of the occurrences so far.
LEMMA WritesOfRows ==
  ASSUME ReductionTypeOK, RowsKept, NEW i \in DOMAIN Instances
  PROVE  /\ [j \in DOMAIN occurrences[i] |-> occurrences[i][j].writes] \in Seq(Seq(Nat))
         /\ WritesOfAll(occurrences[i]) \in Seq(Nat)
<1> DEFINE rows == occurrences[i]
           W == [j \in DOMAIN rows |-> rows[j].writes]
<1>1. PICK S : rows \in Seq(S)
  BY DEF ReductionTypeOK
<1>2. DOMAIN rows = 1 .. Len(rows) /\ Len(rows) \in Nat
  <2> HIDE DEF rows
  <2> QED
    BY <1>1
<1>3. ASSUME NEW j \in DOMAIN rows PROVE rows[j].writes \in Seq(Nat)
  <2>1. /\ rows[j].first \in Nat /\ rows[j].last \in Nat /\ rows[j].first <= rows[j].last
        /\ rows[j].writes = WrittenBetween(rows[j].first, rows[j].last)
    BY DEF RowsKept
  <2>2. rows[j].first <= rows[j].last + 1
    BY <2>1
  <2> HIDE DEF rows
  <2> QED
    BY <2>1, <2>2, OneMoreBetween
<1> HIDE DEF rows
<1>4. W \in Seq(Seq(Nat))
  BY <1>2, <1>3
<1>5. FlattenSeq(W) \in Seq(Nat)
  <2>1. <<>> \in Seq(Nat)
    OBVIOUS
  <2> HIDE DEF W
  <2> QED
    BY <1>4, <2>1, FlattenAppend
<1> QED
  BY <1>4, <1>5 DEF rows, WritesOfAll

\* What has been written when the instruction at index has, with an occurrence
\* that is active or begins there.
LEMMA ActiveWrites ==
  ASSUME ReductionInv, WritesInv, instance \in DOMAIN Instances, verdict = "reducing",
         index <= Len(executions), FirstOf # None
  PROVE  LET written == PendingBefore \o ItsWrites IN
         /\ FirstOf \in 1 .. index /\ index \in Nat
         /\ written \in Seq(Nat)
         /\ written = WrittenBetween(FirstOf, index)
         /\ host_writes[instance] \o ItsWrites = WritesOfAll(occurrences[instance]) \o written
<1> DEFINE all == WritesOfAll(occurrences[instance])
<1>1. ReductionTypeOK /\ Partial(instance)
  BY InstancesAssumption DEF ReductionInv, ReductionTypeOK, Passes
<1>2. FirstOf \in 1 .. index /\ index \in Nat /\ index - 1 \in Nat /\ index \in 1 .. Len(executions)
  BY <1>1, FirstFact DEF ReductionTypeOK
<1>3. ItsWrites = WrittenAt(index) /\ ItsWrites \in Seq(Nat)
  BY <1>2 DEF ItsWrites, WrittenAt, Current
<1>4. PendingBefore = WrittenBetween(FirstOf, index - 1)
  <2>1. CASE Activates
    <3>1. FirstOf = index /\ PendingBefore = <<>>
      BY <2>1 DEF FirstOf, PendingBefore
    <3> QED
      BY <1>2, <3>1, NothingBetween
  <2>2. CASE ~Activates
    BY <2>2 DEF FirstOf, PendingBefore, WritesInv
  <2> QED
    BY <2>1, <2>2
<1>5. /\ PendingBefore \in Seq(Nat)
      /\ PendingBefore \o ItsWrites = WrittenBetween(FirstOf, index)
  <2>1. FirstOf \in Nat /\ FirstOf <= (index - 1) + 1 /\ (index - 1) + 1 = index
    BY <1>2
  <2>2. /\ WrittenBetween(FirstOf, index - 1) \in Seq(Nat)
        /\ WrittenBetween(FirstOf, (index - 1) + 1)
              = WrittenBetween(FirstOf, index - 1) \o WrittenAt((index - 1) + 1)
    BY <1>2, <2>1, OneMoreBetween
  <2> QED
    BY <1>3, <1>4, <2>1, <2>2
<1>6. all \in Seq(Nat)
  BY <1>1, WritesOfRows DEF WritesInv
<1>7. host_writes[instance] = all \o PendingBefore
  <2>1. host_writes[instance] = all \o (IF start # None THEN pending_writes ELSE <<>>)
    BY DEF WritesInv
  <2>2. PendingBefore = IF start # None THEN pending_writes ELSE <<>>
    BY DEF PendingBefore, Activates, FirstOf
  <2> QED
    BY <2>1, <2>2
<1> HIDE DEF all
<1>8. (all \o PendingBefore) \o ItsWrites = all \o (PendingBefore \o ItsWrites)
  <2>1. \A x, y, z \in Seq(Nat) : (x \o y) \o z = x \o (y \o z)
    BY ConcatAssociative
  <2> QED
    BY <1>3, <1>5, <1>6, <2>1, Zenon
<1>9. PendingBefore \o ItsWrites \in Seq(Nat)
  BY <1>3, <1>5, ConcatProperties
<1> QED
  BY <1>2, <1>5, <1>7, <1>8, <1>9 DEF all

\* A step after which the same is recorded and written.
LEMMA WritesFrame ==
  ASSUME ReductionInv, WritesInv, verdict' = "recording" => verdict = "recording",
         verdict' = "reduced" => instance' = Len(Instances) + 1,
         UNCHANGED <<executions, host_writes, occurrences, pending_writes>>,
         \/ UNCHANGED <<instance, index, start>>
         \/ start = None /\ start' = None
  PROVE  WritesInv'
<1>1. WritesTypeOK' /\ (verdict' = "recording" => \A i \in DOMAIN Instances : host_writes'[i] = <<>>)
  BY DEF WritesInv, WritesTypeOK
<1>2. RowsKept'
  BY SameWritten DEF WritesInv, RowsKept
<1>3. ASSUME NEW i \in DOMAIN Instances
      PROVE  host_writes'[i] = WritesOfAll(occurrences'[i])
               \o (IF i = instance' /\ start' # None THEN pending_writes' ELSE <<>>)
  BY DEF WritesInv
<1>4. start' # None => pending_writes' = WrittenBetween(start, index - 1)'
  <2>1. start' # None => /\ start' = start /\ index' = index /\ pending_writes' = pending_writes
                         /\ pending_writes = WrittenBetween(start, index - 1)
    BY DEF WritesInv
  <2> QED
    BY <2>1 DEF WrittenBetween, Parts, WrittenAt
<1> QED
  BY <1>1, <1>2, <1>3, <1>4 DEF WritesInv

LEMMA WritesByRecording ==
  ASSUME ReductionInv, WritesInv, NEW pc \in Pcs, NEW registers \in {"none", "full", "part"},
         Record(pc, registers)
  PROVE  WritesInv'
<1>1. /\ instance' = instance /\ index' = index /\ start' = None /\ occurrences' = occurrences
      /\ host_writes' = host_writes /\ pending_writes' = pending_writes /\ verdict = "recording"
      /\ verdict' = verdict /\ \A i \in DOMAIN Instances : occurrences[i] = <<>>
  BY DEF Record, ReductionInv, Begun
<1>2. RowsKept'
  <2>1. \A i \in DOMAIN Instances : DOMAIN occurrences'[i] = {}
    BY <1>1
  <2> QED
    BY <2>1 DEF RowsKept
<1>3. start = None
  BY DEF Record, ReductionInv, Begun
<1>4. ASSUME NEW i \in DOMAIN Instances
      PROVE  host_writes'[i] = WritesOfAll(occurrences'[i])
               \o (IF i = instance' /\ start' # None THEN pending_writes' ELSE <<>>)
  BY <1>1, <1>3 DEF WritesInv
<1>5. WritesTypeOK' /\ \A i \in DOMAIN Instances : host_writes'[i] = <<>>
  BY <1>1 DEF WritesInv, WritesTypeOK
<1> QED
  BY <1>1, <1>2, <1>4, <1>5 DEF WritesInv

LEMMA WritesByContinue == ReductionInv /\ WritesInv /\ Continue => WritesInv'
<1> SUFFICES ASSUME ReductionInv, WritesInv, Continue PROVE WritesInv'
  OBVIOUS
<1> DEFINE written == PendingBefore \o ItsWrites
<1>1. /\ instance \in DOMAIN Instances /\ verdict = "reducing" /\ index <= Len(executions)
      /\ FirstOf # None
  BY InstancesAssumption DEF Continue, Passing, ReductionInv, ReductionTypeOK
<1>2. /\ FirstOf \in 1 .. index /\ index \in Nat
      /\ written \in Seq(Nat)
      /\ written = WrittenBetween(FirstOf, index)
      /\ host_writes[instance] \o ItsWrites = WritesOfAll(occurrences[instance]) \o written
  BY <1>1, ActiveWrites
<1>3. /\ executions' = executions /\ verdict' = verdict /\ instance' = instance
      /\ index' = index + 1 /\ start' = FirstOf /\ pending_writes' = written
      /\ occurrences' = occurrences
      /\ host_writes' = [host_writes EXCEPT ![instance] = @ \o ItsWrites]
  BY DEF Continue, inputVars
<1> HIDE DEF written
<1>4. WritesTypeOK'
  BY <1>2, <1>3 DEF WritesInv, WritesTypeOK
<1>5. RowsKept'
  BY <1>3, SameWritten DEF WritesInv, RowsKept
<1>6. ASSUME NEW i \in DOMAIN Instances
      PROVE  host_writes'[i] = WritesOfAll(occurrences'[i])
               \o (IF i = instance' /\ start' # None THEN pending_writes' ELSE <<>>)
  <2>1. CASE i = instance
    <3>1. host_writes'[i] = host_writes[instance] \o ItsWrites
      BY <1>3, <2>1 DEF WritesInv, WritesTypeOK
    <3> QED
      BY <1>1, <1>2, <1>3, <2>1, <3>1
  <2>2. CASE i # instance
    BY <1>3, <2>2 DEF WritesInv, WritesTypeOK
  <2> QED
    BY <2>1, <2>2
<1>7. pending_writes' = WrittenBetween(start, index - 1)'
  <2>1. index' - 1 = index
    BY <1>2, <1>3
  <2> QED
    BY <1>2, <1>3, <2>1 DEF WrittenBetween, Parts, WrittenAt
<1> QED
  BY <1>1, <1>3, <1>4, <1>5, <1>6, <1>7 DEF WritesInv

LEMMA WritesByClose ==
  ASSUME ReductionInv, WritesInv, verdict = "reducing", instance \in DOMAIN Instances,
         index <= Len(executions), FirstOf # None, NEW after, Close(after)
  PROVE  WritesInv'
<1> DEFINE written == PendingBefore \o ItsWrites
           rows == occurrences[instance]
           row == [first |-> FirstOf, last |-> index, after |-> after,
                   writes |-> written, stores |-> StoresOf(FirstOf)]
<1>1. /\ FirstOf \in 1 .. index /\ index \in Nat
      /\ written \in Seq(Nat)
      /\ written = WrittenBetween(FirstOf, index)
      /\ host_writes[instance] \o ItsWrites = WritesOfAll(rows) \o written
  BY ActiveWrites
<1>2. StoresOf(FirstOf) = written
  BY <1>1, StoresAreBetween
<1>3. ReductionTypeOK /\ RowsKept /\ WritesTypeOK
  BY DEF ReductionInv, WritesInv
<1>4. /\ executions' = executions /\ verdict' = verdict /\ instance' = instance
      /\ index' = index + 1 /\ start' = None /\ pending_writes' = written
      /\ occurrences' = [occurrences EXCEPT ![instance] = Append(@, row)]
      /\ host_writes' = [host_writes EXCEPT ![instance] = @ \o ItsWrites]
  BY DEF Close, inputVars
<1>5. PICK S : rows \in Seq(S)
  BY <1>3 DEF ReductionTypeOK
<1>6. /\ row.first = FirstOf /\ row.last = index /\ row.writes = written /\ row.stores = written
  BY <1>2
<1>7. /\ occurrences'[instance] = Append(rows, row)
      /\ \A i \in DOMAIN Instances \ {instance} : occurrences'[i] = occurrences[i]
  BY <1>3, <1>4 DEF ReductionTypeOK
<1> HIDE DEF row
<1> DEFINE now == Append(rows, row)
<1>8. /\ DOMAIN now = DOMAIN rows \cup {Len(rows) + 1}
      /\ \A j \in DOMAIN rows : now[j] = rows[j]
      /\ now[Len(rows) + 1] = row
      /\ Len(rows) \in Nat /\ DOMAIN rows = 1 .. Len(rows) /\ Len(now) = Len(rows) + 1
  BY <1>5, AppendRecord
<1>9. RowsKept'
  <2> DEFINE Kept(o) == /\ o.first \in Nat /\ o.last \in Nat /\ o.first <= o.last
                        /\ o.writes = WrittenBetween(o.first, o.last)
                        /\ o.stores = o.writes
  <2>1. \A i \in DOMAIN Instances : \A j \in DOMAIN occurrences[i] : Kept(occurrences[i][j])
    BY <1>3 DEF RowsKept
  <2>2. Kept(row)
    BY <1>1, <1>6
  <2>3. ASSUME NEW i \in DOMAIN Instances, NEW j \in DOMAIN occurrences'[i]
        PROVE  Kept(occurrences'[i][j])
    <3>1. CASE i # instance
      BY <1>7, <2>1, <3>1
    <3>2. CASE i = instance /\ j = Len(rows) + 1
      BY <1>7, <1>8, <2>2, <3>2
    <3>3. CASE i = instance /\ j \in DOMAIN rows
      <4>1. occurrences'[i][j] = rows[j]
        BY <1>7, <1>8, <3>3
      <4>2. Kept(rows[j])
        BY <2>1, <3>3
      <4> HIDE DEF Kept
      <4> QED
        BY <4>1, <4>2
    <3> QED
      BY <1>7, <1>8, <3>1, <3>2, <3>3
  <2> QED
    BY <1>4, <2>3, SameWritten DEF RowsKept
<1>10. WritesOfAll(now) = WritesOfAll(rows) \o written
  <2> DEFINE W == [j \in DOMAIN rows |-> rows[j].writes]
             V == [j \in DOMAIN now |-> now[j].writes]
  <2>1. W \in Seq(Seq(Nat))
    BY <1>3, WritesOfRows
  <2>2. V = Append(W, written)
    <3> HIDE DEF rows, now, written
    <3>1. Len(W) = Len(rows) /\ \A j \in 1 .. Len(rows) : W[j] = rows[j].writes
      BY <1>8
    <3>2. DOMAIN now = 1 .. Len(rows) + 1
      BY <1>8
    <3>3. V = [j \in 1 .. Len(rows) + 1 |-> IF j = Len(rows) + 1 THEN written ELSE W[j]]
      BY <1>6, <1>8, <3>1, <3>2
    <3> HIDE DEF W, V
    <3>4. written \in Seq(Nat)
      BY <1>1
    <3>5. Append(W, written) = [j \in 1 .. Len(W) + 1 |-> IF j = Len(W) + 1 THEN written ELSE W[j]]
      <4>1. \A s \in Seq(Seq(Nat)), e \in Seq(Nat) :
              Append(s, e) = [j \in 1 .. Len(s) + 1 |-> IF j = Len(s) + 1 THEN e ELSE s[j]]
        BY AppendIs, Zenon
      <4> QED
        BY <2>1, <3>4, <4>1
    <3> QED
      BY <3>1, <3>3, <3>5
  <2> HIDE DEF W, V, written, rows, now
  <2>3. FlattenSeq(Append(W, written)) = FlattenSeq(W) \o written
    BY <1>1, <2>1, FlattenAppend
  <2> QED
    BY <2>2, <2>3 DEF WritesOfAll, W, V
<1>11. WritesOfAll(rows) \o written \in Seq(Nat)
  <2>1. WritesOfAll(rows) \in Seq(Nat)
    BY <1>3, WritesOfRows
  <2> HIDE DEF written, rows
  <2> QED
    BY <1>1, <2>1, ConcatProperties
<1> HIDE DEF written, now
<1>12. ASSUME NEW i \in DOMAIN Instances
       PROVE  host_writes'[i] = WritesOfAll(occurrences'[i])
                \o (IF i = instance' /\ start' # None THEN pending_writes' ELSE <<>>)
  <2>1. CASE i = instance
    <3>1. host_writes'[i] = WritesOfAll(now)
      BY <1>1, <1>3, <1>4, <1>10, <2>1 DEF WritesTypeOK
    <3>2. WritesOfAll(now) \o <<>> = WritesOfAll(now)
      BY <1>10, <1>11, ConcatEmptySeq
    <3> QED
      BY <1>4, <1>7, <2>1, <3>1, <3>2 DEF now
  <2>2. CASE i # instance
    BY <1>3, <1>4, <1>7, <2>2 DEF WritesInv, WritesTypeOK
  <2> QED
    BY <2>1, <2>2
<1>13. WritesTypeOK'
  BY <1>1, <1>3, <1>4 DEF WritesTypeOK
<1> QED
  BY <1>4, <1>9, <1>12, <1>13 DEF WritesInv

LEMMA WritesKept == ReductionInv /\ WritesInv /\ [ReductionNext]_reductionVars => WritesInv'
<1> SUFFICES ASSUME ReductionInv, WritesInv, [ReductionNext]_reductionVars PROVE WritesInv'
  OBVIOUS
<1>0. DOMAIN Instances = 1 .. Len(Instances) /\ Len(Instances) \in Nat /\ instance \in 1 .. Len(Instances) + 1
  BY InstancesAssumption DEF ReductionInv, ReductionTypeOK
<1>1. ASSUME NEW pc \in Pcs, NEW registers \in {"none", "full", "part"}, Record(pc, registers)
      PROVE  WritesInv'
  BY <1>1, WritesByRecording
<1>2. CASE EndRecord
  BY <1>2, WritesFrame DEF EndRecord, inputVars
<1>3. ASSUME NEW reason \in Refusals, Refuse(reason) PROVE WritesInv'
  BY <1>3, WritesFrame DEF Refuse, inputVars, Refusals
<1>4. CASE RefuseUnavailable
  BY <1>3, <1>4 DEF RefuseUnavailable, Refusals
<1>5. CASE RefuseOccurrence
  BY <1>3, <1>5 DEF RefuseOccurrence, Refusals
<1>6. CASE Skip
  BY <1>6, WritesFrame DEF Skip, Passing, inputVars
<1>7. CASE Continue
  BY <1>7, WritesByContinue
<1>8. CASE Leave
  <2>1. instance \in DOMAIN Instances /\ index <= Len(executions)
    <3>1. index \in Nat /\ Len(executions) \in Nat
      BY DEF ReductionInv, ReductionTypeOK
    <3> QED
      BY <1>0, <1>8, <3>1 DEF Leave, Passing
  <2>2. verdict = "reducing" /\ FirstOf # None /\ Close(Next1.pc)
    BY <1>8 DEF Leave, Passing
  <2> QED
    BY <2>1, <2>2, WritesByClose
<1>9. CASE EndInside
  <2>1. instance \in DOMAIN Instances /\ index <= Len(executions)
    <3>1. index \in Nat /\ Len(executions) \in Nat
      BY DEF ReductionInv, ReductionTypeOK
    <3> QED
      BY <1>0, <1>9, <3>1 DEF EndInside, Passing
  <2>2. verdict = "reducing" /\ FirstOf # None /\ Close(Current.pc)
    BY <1>9 DEF EndInside, Passing
  <2> QED
    BY <2>1, <2>2, WritesByClose
<1>10. CASE EndPass
  <2>1. verdict = "reducing" /\ verdict' = verdict /\ start' = None
        /\ UNCHANGED <<executions, host_writes, occurrences>> /\ instance' = instance + 1
        /\ instance <= Len(Instances) /\ index = Len(executions) + 1
    BY <1>10 DEF EndPass, Passing, inputVars
  <2>2. start = None
    <3>1. Partial(instance) /\ Len(executions) \in Nat
      BY <2>1 DEF ReductionInv, ReductionTypeOK, Passes
    <3> QED
      BY <2>1, <3>1 DEF Partial
  <2>3. pending_writes' = <<>>
    BY <1>10 DEF EndPass
  <2>4. RowsKept'
    BY <2>1, SameWritten DEF WritesInv, RowsKept
  <2> QED
    BY <2>1, <2>2, <2>3, <2>4 DEF WritesInv, WritesTypeOK
<1>11. CASE Reduced
  BY <1>11, WritesFrame DEF Reduced, inputVars
<1>12. CASE UNCHANGED reductionVars
  BY <1>12, WritesFrame DEF reductionVars, WritesInv
<1> QED
  BY <1>1, <1>2, <1>4, <1>5, <1>6, <1>7, <1>8, <1>9, <1>10, <1>11, <1>12 DEF ReductionNext

LEMMA WritesInitially == ReductionInit => WritesInv
<1> SUFFICES ASSUME ReductionInit PROVE WritesInv
  OBVIOUS
<1>1. /\ host_writes = [i \in DOMAIN Instances |-> <<>>]
      /\ occurrences = [i \in DOMAIN Instances |-> <<>>]
      /\ pending_writes = <<>> /\ start = None /\ verdict = "recording"
  BY DEF ReductionInit
<1>2. WritesOfAll(<<>>) = <<>>
  <2>1. [j \in DOMAIN <<>> |-> <<>>[j].writes] = <<>>
    OBVIOUS
  <2> QED
    BY <2>1, FlattenEmpty DEF WritesOfAll
<1>3. <<>> \o <<>> = <<>>
  OBVIOUS
<1>4. RowsKept
  <2>1. \A i \in DOMAIN Instances : DOMAIN occurrences[i] = {}
    BY <1>1
  <2> QED
    BY <2>1 DEF RowsKept
<1>5. WritesTypeOK
  BY <1>1 DEF WritesTypeOK
<1>6. \A i \in DOMAIN Instances : host_writes[i] = <<>> /\ occurrences[i] = <<>>
  BY <1>1
<1> QED
  BY <1>1, <1>2, <1>3, <1>4, <1>5, <1>6 DEF WritesInv

LEMMA WritesSuffice == ReductionInv /\ WritesInv => WritesAccounted
<1> SUFFICES ASSUME ReductionInv, WritesInv, verdict = "reduced", NEW i \in DOMAIN Instances
             PROVE  /\ host_writes[i] = FlattenSeq([j \in DOMAIN occurrences[i] |-> occurrences[i][j].writes])
                    /\ \A j \in DOMAIN occurrences[i] :
                         LET o == occurrences[i][j] IN
                         /\ o.stores = o.writes
                         /\ Range(o.writes) = {k \in o.first .. o.last : executions[k].pc \in Writers}
  BY DEF WritesAccounted
<1>1. i # instance
  BY InstancesAssumption DEF WritesInv
<1>2. host_writes[i] = WritesOfAll(occurrences[i])
  <2>1. WritesOfAll(occurrences[i]) \in Seq(Nat)
    BY WritesOfRows DEF ReductionInv, WritesInv
  <2>2. host_writes[i] = WritesOfAll(occurrences[i]) \o <<>>
    BY <1>1 DEF WritesInv
  <2> QED
    BY <2>1, <2>2, ConcatEmptySeq
<1>3. ASSUME NEW j \in DOMAIN occurrences[i]
      PROVE  LET o == occurrences[i][j] IN
             /\ o.stores = o.writes
             /\ Range(o.writes) = {k \in o.first .. o.last : executions[k].pc \in Writers}
  BY RangeBetween DEF WritesInv, RowsKept
<1> QED
  BY <1>2, <1>3 DEF WritesOfAll

\* Host writes and stores are those of the instructions of an occurrence, however
\* the occurrences lie in the trace.
THEOREM AccountTheorem == ReductionSpec => []WritesAccounted
<1>1. ReductionSpec => [](ReductionInv /\ WritesInv)
  BY ReductionInvInitially, ReductionInvKept, WritesInitially, WritesKept, PTL DEF ReductionSpec
<1> QED
  BY <1>1, WritesSuffice, PTL

-------------------------------------------------------------------------------
(* The run of decodeInput.                                                   *)

\* A visit begins at the one instruction that is executed at an entry.
LEMMA OneVisitBegins ==
  ASSUME ReductionTypeOK, NEW i \in DOMAIN Instances, NEW x \in Numbers,
         Executed({EntryOf(i)}) = {x}, executions[x].registers # "none"
  PROVE  \E b \in Numbers : /\ Visit(Instances[i], x, b)
                            /\ \A c, d \in Numbers : Visit(Instances[i], c, d) => c = x /\ d = b
<1> DEFINE inst == Instances[i]
           outside == {k \in x + 1 .. Len(executions) : executions[k].pc \notin inst.extent}
<1>1. Numbers = 1 .. Len(executions) /\ Len(executions) \in Nat /\ x \in Nat /\ x <= Len(executions)
  BY DEF ReductionTypeOK, Numbers
<1>2. executions[x].pc = inst.entry /\ inst.entry \in inst.extent
  <2>1. x \in Executed({EntryOf(i)})
    OBVIOUS
  <2> QED
    BY <2>1, InstancesAssumption DEF Executed, EntryOf
<1>3. \A c \in Numbers : EntryAt(inst, c) => c = x
  BY DEF EntryAt, Executed, EntryOf, Numbers
<1>4. \A e \in 1 .. x - 1 : ~EntryAt(inst, e)
  <2>1. \A e \in 1 .. x - 1 : e \in Numbers /\ e # x
    BY <1>1
  <2> QED
    BY <1>3, <2>1
<1>5. \E b \in Numbers : /\ x <= b /\ Within(inst, x, b)
                         /\ b = Len(executions) \/ executions[b + 1].pc \notin inst.extent
  <2>1. CASE outside = {}
    <3>1. \A k \in x .. Len(executions) : executions[k].pc \in inst.extent
      BY <1>1, <1>2, <2>1
    <3> QED
      BY <1>1, <3>1 DEF Within
  <2>2. CASE outside # {}
    <3>1. outside \in SUBSET Nat
      BY <1>1
    <3>2. PICK y \in outside : \A k \in outside : y <= k
      BY <2>2, <3>1, Least
    <3>3. y \in x + 1 .. Len(executions) /\ executions[y].pc \notin inst.extent
      OBVIOUS
    <3>4. y - 1 \in Numbers /\ x <= y - 1 /\ (y - 1) + 1 = y
      BY <1>1, <3>3
    <3>5. ASSUME NEW k \in x .. y - 1 PROVE executions[k].pc \in inst.extent
      <4>1. k = x \/ (k \in x + 1 .. Len(executions) /\ k < y)
        BY <1>1, <3>3
      <4>2. k < y => k \notin outside
        BY <1>1, <3>2, <3>3
      <4> QED
        BY <1>2, <4>1, <4>2
    <3> QED
      BY <3>3, <3>4, <3>5 DEF Within
  <2> QED
    BY <2>1, <2>2
<1>6. PICK b \in Numbers : /\ x <= b /\ Within(inst, x, b)
                           /\ b = Len(executions) \/ executions[b + 1].pc \notin inst.extent
  BY <1>5
<1> HIDE DEF inst
<1>7. Visit(inst, x, b)
  BY <1>2, <1>4, <1>6 DEF Visit, EntryAt, inst
<1>8. ASSUME NEW c \in Numbers, NEW d \in Numbers, Visit(inst, c, d) PROVE c = x /\ d = b
  <2>1. c = x /\ x <= d /\ Within(inst, x, d)
        /\ (d = Len(executions) \/ executions[d + 1].pc \notin inst.extent)
    BY <1>3, <1>8 DEF Visit
  <2>2. ~(d < b)
    BY <1>1, <1>6, <2>1 DEF Within
  <2>3. ~(b < d)
    BY <1>1, <1>6, <2>1 DEF Within
  <2> QED
    BY <1>1, <2>1, <2>2, <2>3
<1> QED
  BY <1>7, <1>8 DEF inst

\* And there is one occurrence of the instance, which begins there.
LEMMA OneOccurrence ==
  ASSUME ReductionTypeOK, NEW i \in DOMAIN Instances, Finished(i), NEW x \in Numbers,
         Executed({EntryOf(i)}) = {x}, executions[x].registers # "none"
  PROVE  /\ Len(occurrences[i]) = 1
         /\ occurrences[i][1].first = x
         /\ occurrences[i][1].last \in Numbers
         /\ Within(Instances[i], x, occurrences[i][1].last)
<1>1. Numbers = 1 .. Len(executions) /\ Len(executions) \in Nat
  BY DEF ReductionTypeOK, Numbers
<1>2. PICK b \in Numbers :
        /\ Visit(Instances[i], x, b)
        /\ \A c, d \in Numbers : Visit(Instances[i], c, d) => c = x /\ d = b
  BY OneVisitBegins
<1>3. x <= b /\ Within(Instances[i], x, b)
  BY <1>2 DEF Visit
<1>4. ASSUME NEW j \in DOMAIN occurrences[i]
      PROVE  occurrences[i][j].first = x /\ occurrences[i][j].last = b
  <2>1. <<occurrences[i][j].first, occurrences[i][j].last>> \in VisitsBefore(i, Len(executions) + 1)
    BY DEF Finished, Pairs
  <2>2. /\ occurrences[i][j].first \in Numbers /\ occurrences[i][j].last \in Numbers
        /\ Visit(Instances[i], occurrences[i][j].first, occurrences[i][j].last)
    BY <2>1 DEF VisitsBefore
  <2> QED
    BY <1>2, <2>2
<1>5. DOMAIN occurrences[i] # {}
  <2>1. <<x, b>> \in VisitsBefore(i, Len(executions) + 1)
    BY <1>1, <1>2 DEF VisitsBefore
  <2> QED
    BY <2>1 DEF Finished, Pairs
<1>6. DOMAIN occurrences[i] = 1 .. Len(occurrences[i]) /\ Len(occurrences[i]) \in Nat
  BY DEF ReductionTypeOK
<1>7. ~(2 <= Len(occurrences[i]))
  <2>1. SUFFICES ASSUME 2 <= Len(occurrences[i]) PROVE FALSE
    OBVIOUS
  <2>2. occurrences[i][2 - 1].last < occurrences[i][2].first
    BY <1>6, <2>1 DEF Finished, InOrder
  <2>3. occurrences[i][1].last = b /\ occurrences[i][2].first = x
    BY <1>4, <1>6, <2>1
  <2> QED
    BY <1>1, <1>3, <2>2, <2>3
<1>8. Len(occurrences[i]) = 1
  <2>1. PICK j : j \in DOMAIN occurrences[i]
    BY <1>5
  <2>2. j \in 1 .. Len(occurrences[i])
    BY <1>6, <2>1
  <2>3. 1 <= Len(occurrences[i])
    BY <1>6, <2>2
  <2> DEFINE n == Len(occurrences[i])
  <2>4. n \in Nat /\ 1 <= n /\ ~(2 <= n)
    BY <1>6, <1>7, <2>3
  <2> HIDE DEF n
  <2>5. n = 1
    BY <2>4
  <2> QED
    BY <2>5 DEF n
<1> QED
  BY <1>3, <1>4, <1>6, <1>8

\* All instructions at a program counter have snapshots, or none has.
Snapshots == \A k \in DOMAIN executions :
               executions[k].registers = "none" <=> executions[k].pc \notin snapshots

LEMMA OneSnapshot ==
  ASSUME ReductionTypeOK, Snapshots, NEW pc, Cardinality(SnapshotsOf(pc)) = 1
  PROVE  \E x \in Numbers : /\ Executed({pc}) = {x} /\ SnapshotsOf(pc) = {x}
                            /\ executions[x].pc = pc /\ executions[x].registers # "none"
<1>1. Numbers = 1 .. Len(executions) /\ Len(executions) \in Nat
  BY DEF ReductionTypeOK, Numbers
<1>2. IsFiniteSet(SnapshotsOf(pc))
  <2>1. IsFiniteSet(1 .. Len(executions))
    BY <1>1, FS_Interval
  <2>2. SnapshotsOf(pc) \in SUBSET (1 .. Len(executions))
    BY <1>1 DEF SnapshotsOf, Executed, Numbers
  <2> QED
    BY <2>1, <2>2, FS_Subset
<1>3. PICK x : SnapshotsOf(pc) = {x}
  BY <1>2, FS_Singleton
<1>4. x \in Numbers /\ executions[x].pc = pc /\ executions[x].registers # "none"
  <2>1. x \in SnapshotsOf(pc)
    BY <1>3
  <2> QED
    BY <2>1 DEF SnapshotsOf, Executed, Numbers
<1>5. Executed({pc}) = {x}
  <2>1. pc \in snapshots
    BY <1>4 DEF Snapshots, Numbers
  <2>2. \A k \in Executed({pc}) : k \in SnapshotsOf(pc)
    BY <2>1 DEF Executed, SnapshotsOf, Snapshots
  <2> QED
    BY <1>3, <2>2 DEF SnapshotsOf
<1> QED
  BY <1>3, <1>4, <1>5

LEMMA MinOfOne == ASSUME NEW x \in Nat PROVE Min({x}) = x
<1>1. {x} \in SUBSET Nat /\ {x} # {}
  OBVIOUS
<1> QED
  BY <1>1, MinIsMember

EvidenceInv ==
  /\ Snapshots
  /\ stage # "reduce_trace" => verdict = "reduced"
  /\ stage \in {"reduce_trace", "prefixes"} => run = NoRun
  /\ run # NoRun => RunFound /\ run = RunOf(a0)
  /\ bound => stage \in {"written", "refused"}
  /\ bound /\ stage = "written" => SlotsAgree

\* What is reported with one snapshot of each program counter is the run that
\* happened, by the visits that reduce_trace has found.
LEMMA RunIsMeasured == ReductionInv /\ EvidenceInv => DecodeRunIsMeasured
<1> SUFFICES ASSUME ReductionInv, EvidenceInv, stage = "written", run # NoRun
             PROVE  DecodeRunIsMeasured
  BY DEF DecodeRunIsMeasured
<1> DEFINE b == Begin
           e == End
           success == executions[e].pc = EntryOf(WriteSuccess)
           outcome == IF success THEN WriteSuccess ELSE WriteFailure
<1>1. /\ ReductionTypeOK /\ Snapshots /\ RunFound /\ run = RunOf(a0)
      /\ \A i \in DOMAIN Instances : Finished(i)
      /\ bound => SlotsAgree
  BY DEF ReductionInv, Ended, EvidenceInv
<1>2. Numbers = 1 .. Len(executions) /\ Len(executions) \in Nat
  BY <1>1 DEF ReductionTypeOK, Numbers
<1>3. Decode \in DOMAIN Instances /\ WriteSuccess \in DOMAIN Instances /\ WriteFailure \in DOMAIN Instances
  BY RolesAssumption
<1>4. PICK x \in Numbers : /\ Executed({EntryOf(Decode)}) = {x}
                           /\ SnapshotsOf(EntryOf(Decode)) = {x}
                           /\ executions[x].pc = EntryOf(Decode)
                           /\ executions[x].registers # "none"
  BY <1>1, OneSnapshot DEF RunFound
<1>5. b = x /\ b \in Numbers
  <2>1. Min({x}) = x
    BY <1>2, MinOfOne
  <2> QED
    BY <1>4, <2>1 DEF Begin
<1>6. e \in Outcomes /\ \A k \in Outcomes : e <= k
  <2>1. Outcomes \in SUBSET Nat /\ Outcomes # {}
    BY <1>1, <1>2 DEF RunFound, Outcomes, Executed, Numbers
  <2> QED
    BY <2>1, MinIsMember DEF End
<1>7. /\ e \in Numbers /\ b + 1 <= e
      /\ executions[e].pc \in {EntryOf(WriteSuccess), EntryOf(WriteFailure)}
  BY <1>2, <1>5, <1>6 DEF Outcomes, After, Executed, Numbers
<1>8. PICK y \in Numbers : /\ Executed({executions[e].pc}) = {y}
                           /\ SnapshotsOf(executions[e].pc) = {y}
                           /\ executions[y].registers # "none"
  BY <1>1, OneSnapshot DEF RunFound
<1>9. y = e
  <2>1. e \in Executed({executions[e].pc})
    BY <1>7 DEF Executed, Numbers
  <2> QED
    BY <1>8, <2>1
<1>10. outcome \in {WriteSuccess, WriteFailure} /\ executions[e].pc = EntryOf(outcome)
  BY <1>7
<1>11. run.start = b /\ run.steps = e - b /\ run.outcome = (IF success THEN "success" ELSE "failure")
       /\ run.before = a0[b] /\ run.after = a0[e]
  <2>1. Min(SnapshotsOf(EntryOf(Decode))) = b /\ Min(SnapshotsOf(executions[e].pc)) = e
    BY <1>2, <1>4, <1>5, <1>8, <1>9, MinOfOne
  <2> QED
    BY <1>1, <2>1 DEF RunOf, ValueAt
<1> HIDE DEF b, e, outcome
<1>12. b + (e - b) = e /\ e - b > 0 /\ e \in Nat /\ b \in Nat
  BY <1>2, <1>5, <1>7
<1>13. Executed({EntryOf(WriteSuccess), EntryOf(WriteFailure)}) \cap (b .. e) = {e}
  <2>1. e \in Executed({EntryOf(WriteSuccess), EntryOf(WriteFailure)})
    BY <1>7 DEF Executed, Numbers
  <2>2. ASSUME NEW k \in Executed({EntryOf(WriteSuccess), EntryOf(WriteFailure)}) \cap (b .. e)
        PROVE  k = e
    <3>1. k # b
      <4>1. EntryOf(Decode) \in Instances[Decode].extent
        BY <1>3, InstancesAssumption DEF EntryOf
      <4>2. executions[k].pc \in {EntryOf(WriteSuccess), EntryOf(WriteFailure)}
        BY DEF Executed
      <4> QED
        BY <1>4, <1>5, <4>1, <4>2, RolesAssumption DEF EntryOf
    <3>2. k \in Outcomes
      <4>1. k \in b + 1 .. Len(executions)
        BY <1>2, <1>7, <1>12, <3>1
      <4> QED
        BY <2>2, <4>1 DEF Outcomes, After, b
    <3> QED
      BY <1>6, <1>12, <3>2
  <2> QED
    BY <1>12, <2>1, <2>2
<1>14. Len(occurrences[Decode]) = 1 /\ occurrences[Decode][1].first = b
       /\ occurrences[Decode][1].last \in Numbers
       /\ Within(Instances[Decode], b, occurrences[Decode][1].last)
  BY <1>1, <1>3, <1>4, <1>5, OneOccurrence
<1>15. occurrences[Decode][1].last < e
  <2>1. SUFFICES ASSUME e <= occurrences[Decode][1].last PROVE FALSE
    BY <1>2, <1>12, <1>14
  <2>2. executions[e].pc \in Instances[Decode].extent
    BY <1>2, <1>7, <1>12, <1>14, <2>1 DEF Within
  <2> QED
    BY <1>10, <2>2, RolesAssumption DEF EntryOf
<1>16. Len(occurrences[outcome]) = 1 /\ occurrences[outcome][1].first = e
  <2>1. outcome \in DOMAIN Instances
    BY <1>3, <1>10
  <2>2. Executed({EntryOf(outcome)}) = {e} /\ executions[e].registers # "none"
    BY <1>8, <1>9, <1>10
  <2> QED
    BY <1>1, <1>7, <2>1, <2>2, OneOccurrence
<1>17. bound /\ run.outcome = "success" => run.after = run.before
  <2>1. SUFFICES ASSUME bound, run.outcome = "success" PROVE a0[e] = a0[b]
    BY <1>11
  <2>2. executions[e].pc = PrefixPc
    BY <1>11, <2>1 DEF PrefixPc
  <2>3. SnapshotsOf(PrefixPc) = {e} /\ SnapshotsOf(EntryOf(Decode)) = {b}
    BY <1>4, <1>5, <1>8, <1>9, <2>2
  <2>4. ValueAt(a0, PrefixPc) = ValueAt(a0, EntryOf(Decode))
    BY <1>1, <2>1, <2>3 DEF SlotsAgree
  <2> QED
    BY <1>12, <2>3, <2>4, MinOfOne DEF ValueAt
<1>18. (IF run.outcome = "success" THEN WriteSuccess ELSE WriteFailure) = outcome
  BY <1>11 DEF outcome
<1>19. run.start + run.steps = e
  BY <1>11, <1>12
<1> QED
  BY <1>4, <1>5, <1>10, <1>11, <1>12, <1>13, <1>14, <1>15, <1>16, <1>17, <1>18, <1>19
     DEF DecodeRunIsMeasured

\* What is compared does not change while the trace does not.
LEMMA SameRun ==
  ASSUME executions' = executions
  PROVE  /\ \A pcs : Executed(pcs)' = Executed(pcs)
         /\ \A pc : SnapshotsOf(pc)' = SnapshotsOf(pc)
         /\ RunFound' <=> RunFound
         /\ \A values : RunOf(values)' = RunOf(values)
         /\ a0' = a0 => (SlotsAgree' <=> SlotsAgree)
BY DEF Executed, SnapshotsOf, RunFound, RunOf, SlotsAgree, Begin, End, Outcomes, After, ValueAt

\* The reduction goes on only while nothing has been made of it.
LEMMA KeptByReduction == EvidenceInv /\ Reduction => EvidenceInv'
<1> SUFFICES ASSUME EvidenceInv, Reduction PROVE EvidenceInv'
  OBVIOUS
<1>1. /\ ReductionNext /\ stage' = stage /\ run' = run /\ bound' = bound
  BY DEF Reduction
<1>2. verdict # "reduced"
  BY <1>1 DEF ReductionNext, Record, EndRecord, RefuseUnavailable, Skip, Continue, Leave, EndInside,
              RefuseOccurrence, EndPass, Reduced, Passing
<1>3. stage = "reduce_trace" /\ run = NoRun /\ ~bound
  BY <1>2 DEF EvidenceInv
<1>4. Snapshots'
  <2>1. ASSUME NEW pc \in Pcs, NEW registers \in {"none", "full", "part"}, Record(pc, registers)
        PROVE  Snapshots'
    BY <2>1 DEF Record, EvidenceInv, Snapshots
  <2>2. UNCHANGED inputVars => Snapshots'
    BY DEF inputVars, EvidenceInv, Snapshots
  <2> QED
    BY <1>1, <2>1, <2>2 DEF ReductionNext, EndRecord, RefuseUnavailable, Refuse, Skip, Continue,
              Leave, EndInside, Close, RefuseOccurrence, EndPass, Reduced
<1> QED
  BY <1>1, <1>3, <1>4 DEF EvidenceInv

LEMMA EvidenceInvKept == EvidenceInv /\ [EvidenceNext]_evidenceVars => EvidenceInv'
<1> SUFFICES ASSUME EvidenceInv, [EvidenceNext]_evidenceVars PROVE EvidenceInv'
  OBVIOUS
<1>1. ASSUME UNCHANGED reductionVars PROVE Snapshots' /\ executions' = executions /\ verdict' = verdict
  BY <1>1 DEF EvidenceInv, Snapshots, reductionVars
<1>2. CASE Reduction
  BY <1>2, KeptByReduction
<1>3. CASE ValidatePrefix
  BY <1>1, <1>3 DEF ValidatePrefix, MoveOn, EvidenceInv
<1>4. CASE StructuralOnly
  BY <1>1, <1>4 DEF StructuralOnly, MoveOn, EvidenceInv
<1>5. CASE ValidateRun
  <2>1. Snapshots' /\ executions' = executions /\ verdict' = verdict /\ stage = "prefixes"
        /\ run = NoRun /\ ~bound /\ bound' = bound /\ stage' \in {"runs", "refused"}
    BY <1>1, <1>5 DEF ValidateRun, MoveOn, EvidenceInv
  <2>2. run' # NoRun => RunFound' /\ run' = RunOf(a0)'
    <3>1. run' # NoRun => RunFound /\ run' = RunOf(a0')
      BY <1>5, <2>1 DEF ValidateRun
    <3>2. RunOf(a0') = RunOf(a0)'
      BY <2>1 DEF RunOf, Begin, End, Outcomes, After, ValueAt, SnapshotsOf, Executed
    <3> QED
      BY <2>1, <3>1, <3>2, SameRun
  <2> QED
    BY <2>1, <2>2 DEF EvidenceInv
<1>6. CASE WithoutBindings
  <2>1. Snapshots' /\ executions' = executions /\ verdict' = verdict /\ a0' = a0 /\ run' = run
        /\ bound' = bound /\ stage = "runs" /\ stage' = "written"
    BY <1>1, <1>6 DEF WithoutBindings, MoveOn
  <2>2. RunOf(a0)' = RunOf(a0)
    BY <2>1 DEF RunOf, Begin, End, Outcomes, After, ValueAt, SnapshotsOf, Executed
  <2> QED
    BY <2>1, <2>2, SameRun DEF EvidenceInv
<1>7. ASSUME NEW sized \in BOOLEAN, NEW loaded \in BOOLEAN, ValidateBindings(sized, loaded)
      PROVE  EvidenceInv'
  <2>1. Snapshots' /\ executions' = executions /\ verdict' = verdict /\ a0' = a0 /\ run' = run
        /\ stage = "runs" /\ stage' \in {"written", "refused"}
        /\ (stage' = "written" => SlotsAgree)
    BY <1>1, <1>7 DEF ValidateBindings, MoveOn
  <2>2. RunOf(a0)' = RunOf(a0)
    BY <2>1 DEF RunOf, Begin, End, Outcomes, After, ValueAt, SnapshotsOf, Executed
  <2> QED
    BY <2>1, <2>2, SameRun DEF EvidenceInv
<1>8. CASE UNCHANGED evidenceVars
  <2>1. Snapshots' /\ executions' = executions /\ verdict' = verdict /\ a0' = a0 /\ run' = run
        /\ bound' = bound /\ stage = stage'
    BY <1>1, <1>8 DEF evidenceVars
  <2>2. RunOf(a0)' = RunOf(a0)
    BY <2>1 DEF RunOf, Begin, End, Outcomes, After, ValueAt, SnapshotsOf, Executed
  <2> QED
    BY <2>1, <2>2, SameRun DEF EvidenceInv
<1> QED
  BY <1>2, <1>3, <1>4, <1>5, <1>6, <1>7, <1>8 DEF EvidenceNext

\* The report is about the run that happened: the list of instructions, the
\* snapshots and the occurrences speak of the same entries.  For every manifest
\* in which the outcomes lie outside decodeInput and traces of every length.
THEOREM DecodeRunTheorem == EvidenceSpec => []DecodeRunIsMeasured
<1>1. EvidenceInit => ReductionInv /\ EvidenceInv
  <2>1. EvidenceInit => EvidenceInv
    BY DEF EvidenceInit, ReductionInit, EvidenceInv, Snapshots
  <2> QED
    BY <2>1, ReductionInvInitially DEF EvidenceInit
<1>2. [EvidenceNext]_evidenceVars => [ReductionNext]_reductionVars
  BY DEF EvidenceNext, Reduction, ValidatePrefix, StructuralOnly, ValidateRun, WithoutBindings,
         ValidateBindings, MoveOn, evidenceVars
<1>3. ReductionInv /\ EvidenceInv /\ [EvidenceNext]_evidenceVars => ReductionInv' /\ EvidenceInv'
  BY <1>2, ReductionInvKept, EvidenceInvKept
<1> QED
  BY <1>1, <1>3, RunIsMeasured, PTL DEF EvidenceSpec

===============================================================================
